-------------------------- MODULE RouteCacheProofs --------------------------
(***************************************************************************)
(* Proofs about RouteCache, for any number of plans, writers and commits.  *)
(***************************************************************************)
EXTENDS RouteCache, TLAPS

LEMMA OrderFacts ==
  /\ Len(Order) = 3
  /\ \A i \in 1 .. 3 : Order[i] \in Tables
  /\ \A t \in Tables : \E i \in 1 .. 3 : Order[i] = t
<1>1. Order[1] = "routes" /\ Order[2] = "providers" /\ Order[3] = "tokens" /\ Len(Order) = 3
  BY DEF Order
<1>2. \A i \in 1 .. 3 : i = 1 \/ i = 2 \/ i = 3
  OBVIOUS
<1> QED
  BY <1>1, <1>2 DEF Tables

-----------------------------------------------------------------------------
(* What a snapshot may hold stays usable. *)

LEMMA ReadersKeepUsable ==
  ASSUME UNCHANGED <<db, wrote, settled, undropped>>, NEW t, NEW n, Usable(t, n)
  PROVE  Usable(t, n)'
BY DEF Usable, Covered

\* A commit to a table the writer has not yet written adds a covered version.
LEMMA CommitKeepsUsable ==
  ASSUME TypeOK, NEW w \in Writers, NEW T \in SUBSET Tables, CommitTo(w, T),
         \A t \in T : wrote[w][t] = 0,
         NEW t \in Tables, NEW n \in Nat, Usable(t, n)
  PROVE  Usable(t, n)'
<1>1. db[t] \in Nat /\ settled[t] \in Nat
  BY DEF TypeOK, Versions
<1>2. db'[t] = (IF t \in T THEN db[t] + 1 ELSE db[t]) /\ UNCHANGED <<settled, undropped>>
  BY DEF CommitTo, Commit
<1>3. \A x \in Writers \ {w} : wrote'[x] = wrote[x]
  BY DEF CommitTo, TypeOK
<1>4. wrote'[w][t] = IF t \in T THEN db[t] + 1 ELSE wrote[w][t]
  BY DEF CommitTo, TypeOK
<1>5. settled'[t] <= n /\ n <= db'[t]
  BY <1>1, <1>2 DEF Usable
<1>6. ASSUME NEW v \in n + 1 .. db'[t], v \notin n + 1 .. db[t]
      PROVE  t \in T /\ v = db[t] + 1
  BY <1>1, <1>2, <1>6
<1>7. ASSUME NEW v \in n + 1 .. db[t], NEW x \in Writers, wrote[x][t] = v
      PROVE  wrote'[x][t] = v
  <2>1. CASE x # w
    BY <2>1, <1>3, <1>7
  <2>2. CASE x = w
    <3>1. wrote[w][t] # 0
      BY <1>7, <2>2
    <3> QED
      BY <3>1, <1>4, <1>7, <2>2
  <2> QED
    BY <2>1, <2>2
<1>8. Covered(t, n)'
  <2> SUFFICES ASSUME NEW v \in n + 1 .. db'[t]
               PROVE  \/ \E x \in Writers : wrote'[x][t] = v
                      \/ <<t, v>> \in undropped'
    BY DEF Covered
  <2>1. CASE v \in n + 1 .. db[t]
    BY <2>1, <1>2, <1>7 DEF Usable, Covered
  <2>2. CASE v \notin n + 1 .. db[t]
    BY <2>2, <1>6, <1>4
  <2> QED
    BY <2>1, <2>2
<1> QED
  BY <1>5, <1>8 DEF Usable

\* A commit for which nobody drops the snapshot is noted.
LEMMA CommitOnlyKeepsUsable ==
  ASSUME TypeOK, NEW s \in Tables, CommitOnly(s), NEW t \in Tables, NEW n \in Nat, Usable(t, n)
  PROVE  Usable(t, n)'
<1>1. db[t] \in Nat /\ settled[t] \in Nat /\ UNCHANGED <<settled, wrote>>
  BY DEF TypeOK, Versions, CommitOnly
<1>2. db'[t] = (IF t = s THEN db[t] + 1 ELSE db[t]) /\ undropped' = undropped \cup {<<s, db[s] + 1>>}
  BY DEF CommitOnly, Commit
<1>3. settled'[t] <= n /\ n <= db'[t]
  BY <1>1, <1>2 DEF Usable
<1>4. Covered(t, n)'
  <2> SUFFICES ASSUME NEW v \in n + 1 .. db'[t]
               PROVE  \/ \E x \in Writers : wrote[x][t] = v
                      \/ <<t, v>> \in undropped'
    BY <1>1 DEF Covered
  <2>1. CASE v \in n + 1 .. db[t]
    BY <2>1, <1>2 DEF Usable, Covered
  <2>2. CASE v \notin n + 1 .. db[t]
    <3>1. t = s /\ v = db[t] + 1
      BY <2>2, <1>1, <1>2
    <3> QED
      BY <3>1, <1>2
  <2> QED
    BY <2>1, <2>2
<1> QED
  BY <1>3, <1>4 DEF Usable

\* The commit of a deletion that fails half way is noted, not forgotten.
LEMMA NotingKeepsUsable ==
  ASSUME TypeOK, Committing, NEW w \in Writers, DeleteTokenFails(w),
         NEW t \in Tables, NEW n \in Nat, Usable(t, n)
  PROVE  Usable(t, n)'
<1>1. db[t] \in Nat /\ UNCHANGED <<db, settled>>
  BY DEF TypeOK, Versions, DeleteTokenFails
<1>2. \A x \in Writers \ {w} : wrote'[x] = wrote[x]
  BY DEF DeleteTokenFails, TypeOK
<1>3. undropped' = undropped \cup {<<"routes", wrote[w]["routes"]>>}
  BY DEF DeleteTokenFails
<1>4. t # "routes" => wrote[w][t] = 0
  BY DEF DeleteTokenFails, Committing
<1>5. Covered(t, n)'
  <2> SUFFICES ASSUME NEW v \in n + 1 .. db[t]
               PROVE  \/ \E x \in Writers : wrote'[x][t] = v
                      \/ <<t, v>> \in undropped'
    BY <1>1 DEF Covered
  <2>1. CASE <<t, v>> \in undropped
    BY <2>1, <1>3
  <2>2. CASE \E x \in Writers \ {w} : wrote[x][t] = v
    BY <2>2, <1>2
  <2>3. CASE wrote[w][t] = v
    BY <2>3, <1>3, <1>4
  <2> QED
    BY <2>1, <2>2, <2>3 DEF Usable, Covered
<1> QED
  BY <1>1, <1>5 DEF Usable

-----------------------------------------------------------------------------
(* What a call that gets a snapshot does. *)

\* A snapshot that misses no settled commit keeps the plan's promise.
LEMMA TakeEffect ==
  ASSUME TypeOK, Planning, NEW r \in Readers, rpc[r] # "done",
         NEW versions \in Versions, Take(r, versions),
         \A t \in Tables : settled[t] <= versions[t],
         UNCHANGED <<floor, settled>>
  PROVE  /\ rpc' \in [Readers -> {"idle", "fast", "wait", "build", "direct", "done", "failed"}]
         /\ stage' \in [Readers -> 1 .. Len(Order)]
         /\ plan' \in [Readers -> Seq(Nat)]
         /\ rpc'[r] \in {"fast", "done"}
         /\ \A q \in Readers \ {r} : rpc'[q] = rpc[q]
         /\ Planning'
<1> DEFINE n == versions[Order[stage[r]]]
<1>1. stage[r] \in 1 .. 3 /\ Len(plan[r]) = stage[r] - 1 /\ plan[r] \in Seq(Nat)
  BY OrderFacts DEF TypeOK, Planning
<1>2. Order[stage[r]] \in Tables /\ n \in Nat
  BY <1>1, OrderFacts DEF Versions
<1>3. n >= floor[r][Order[stage[r]]]
  <2>1. floor[r][Order[stage[r]]] \in Nat /\ settled[Order[stage[r]]] \in Nat
    BY <1>2 DEF TypeOK, Versions
  <2>2. floor[r][Order[stage[r]]] <= settled[Order[stage[r]]]
    BY <1>2 DEF Planning
  <2> QED
    BY <1>2, <2>1, <2>2
<1>4. plan' = [plan EXCEPT ![r] = Append(plan[r], n)]
  BY DEF Take
<1>5. rpc' = [rpc EXCEPT ![r] = IF stage[r] = 3 THEN "done" ELSE "fast"]
  BY OrderFacts DEF Take
<1>6. stage' = IF stage[r] = 3 THEN stage ELSE [stage EXCEPT ![r] = stage[r] + 1]
  BY OrderFacts DEF Take
<1> HIDE DEF n
<1>7. plan' \in [Readers -> Seq(Nat)] /\ plan'[r] = Append(plan[r], n)
  BY <1>1, <1>2, <1>4 DEF TypeOK
<1>8. /\ rpc' \in [Readers -> {"idle", "fast", "wait", "build", "direct", "done", "failed"}]
      /\ rpc'[r] = IF stage[r] = 3 THEN "done" ELSE "fast"
  BY <1>5 DEF TypeOK
<1>9. stage' \in [Readers -> 1 .. 3] /\ (stage[r] # 3 => stage'[r] = stage[r] + 1)
  BY <1>1, <1>6, OrderFacts DEF TypeOK
<1>10. \A q \in Readers \ {r} : rpc'[q] = rpc[q] /\ stage'[q] = stage[q] /\ plan'[q] = plan[q]
  BY <1>4, <1>5, <1>6 DEF TypeOK
<1>11. Len(plan'[r]) = stage[r] /\ \A i \in 1 .. stage[r] - 1 : plan'[r][i] = plan[r][i]
  BY <1>1, <1>2, <1>7
<1>12. plan'[r][stage[r]] = n
  BY <1>1, <1>2, <1>7
<1>13. \A i \in 1 .. Len(plan'[r]) : plan'[r][i] >= floor'[r][Order[i]]
  <2> TAKE i \in 1 .. Len(plan'[r])
  <2>1. CASE i = stage[r]
    BY <2>1, <1>3, <1>12
  <2>2. CASE i # stage[r]
    <3>1. i \in 1 .. Len(plan[r])
      BY <2>2, <1>1, <1>11
    <3> QED
      BY <3>1, <1>1, <1>11 DEF Planning
  <2> QED
    BY <2>1, <2>2
<1>14. Planning'
  <2> SUFFICES ASSUME NEW q \in Readers
               PROVE  /\ \A t \in Tables : floor'[q][t] <= settled'[t]
                      /\ rpc'[q] = "idle" => stage'[q] = 1
                      /\ rpc'[q] # "done" => Len(plan'[q]) = stage'[q] - 1
                      /\ Len(plan'[q]) <= Len(Order)
                      /\ \A i \in 1 .. Len(plan'[q]) : plan'[q][i] >= floor'[q][Order[i]]
    BY DEF Planning
  <2>1. CASE q = r
    BY <2>1, <1>1, <1>8, <1>9, <1>11, <1>13, OrderFacts DEF Planning
  <2>2. CASE q # r
    BY <2>2, <1>10 DEF Planning
  <2> QED
    BY <2>1, <2>2
<1> QED
  BY <1>7, <1>8, <1>9, <1>10, <1>14, OrderFacts

\* What the queries of a finished build saw is a usable snapshot.
LEMMA BuiltIsUsable ==
  ASSUME TypeOK, Building, NEW r \in Readers, Len(built[r]) = Len(Order)
  PROVE  Built(r) \in Versions /\ \A t \in Tables : Usable(t, Built(r)[t])
<1> DEFINE at(t) == CHOOSE i \in 1 .. Len(Order) : Order[i] = t
<1>1. \A t \in Tables : at(t) \in 1 .. Len(Order) /\ Order[at(t)] = t
  <2> TAKE t \in Tables
  <2>1. \E i \in 1 .. Len(Order) : Order[i] = t
    BY OrderFacts
  <2> QED
    BY <2>1
<1>2. Built(r) = [t \in Tables |-> built[r][at(t)]]
  BY DEF Built
<1> HIDE DEF at
<1>3. built[r] \in Seq(Nat)
  BY DEF TypeOK
<1>4. \A i \in 1 .. Len(built[r]) : Usable(Order[i], built[r][i])
  BY DEF Building
<1>5. \A t \in Tables : built[r][at(t)] \in Nat /\ Usable(t, built[r][at(t)])
  <2> TAKE t \in Tables
  <2>1. at(t) \in 1 .. Len(built[r]) /\ Order[at(t)] = t
    BY <1>1
  <2>2. Usable(Order[at(t)], built[r][at(t)])
    BY <2>1, <1>4
  <2>3. built[r][at(t)] \in Nat
    BY <2>1, <1>3
  <2> QED
    BY <2>1, <2>2, <2>3
<1> QED
  BY <1>2, <1>5 DEF Versions

-----------------------------------------------------------------------------
(* The steps of a plan. *)

LEMMA PlanningKept ==
  ASSUME Planning, UNCHANGED <<floor, settled, stage, plan>>,
         \A q \in Readers : rpc[q] = "done" => rpc'[q] = "done",
         \A q \in Readers : rpc'[q] = "idle" => rpc[q] = "idle"
  PROVE  Planning'
BY DEF Planning

LEMMA BuildingKept ==
  ASSUME Building, UNCHANGED <<db, wrote, settled, undropped, snapshot, built>>,
         \A q \in Readers : rpc'[q] = "build" <=> lock' = q,
         \A q \in Readers : rpc'[q] # "build" => built[q] = <<>>
  PROVE  Building'
<1>1. snapshot' # NoSnapshot => \A t \in Tables : Usable(t, snapshot[t])'
  BY DEF Building, Usable, Covered
<1>2. \A q \in Readers : \A i \in 1 .. Len(built'[q]) : Usable(Order[i], built[q][i])'
  BY DEF Building, Usable, Covered
<1>3. \A q \in Readers : Len(built'[q]) <= Len(Order)
  BY DEF Building
<1> QED
  BY <1>1, <1>2, <1>3 DEF Building

LEMMA CommittingKept ==
  ASSUME Committing, UNCHANGED <<db, wpc, wrote, settled>>
  PROVE  Committing'
BY DEF Committing

LEMMA BeginPlanStep ==
  ASSUME CacheInv, NEW r \in Readers, BeginPlan(r)
  PROVE  CacheInv'
<1> USE DEF CacheInv
<1>1. TypeOK'
  BY DEF TypeOK, BeginPlan, writing
<1>2. Committing'
  BY CommittingKept DEF BeginPlan, writing
<1>3. \A q \in Readers : rpc'[q] = IF q = r THEN "fast" ELSE rpc[q]
  BY DEF TypeOK, BeginPlan
<1>4. \A q \in Readers : floor'[q] = IF q = r THEN settled ELSE floor[q]
  BY DEF TypeOK, BeginPlan
<1>5. rpc[r] = "idle"
  BY DEF BeginPlan
<1>6. Building'
  <2>1. \A q \in Readers : (rpc'[q] = "build" <=> lock' = q)
                           /\ (rpc'[q] # "build" => built[q] = <<>>)
    BY <1>3, <1>5 DEF BeginPlan, Building
  <2> QED
    BY <2>1, BuildingKept DEF BeginPlan, writing
<1>7. stage[r] = 1 /\ Len(plan[r]) = 0 /\ UNCHANGED <<stage, plan, settled>>
  BY <1>5 DEF Planning, BeginPlan, writing
<1>8. Planning'
  <2> SUFFICES ASSUME NEW q \in Readers
               PROVE  /\ \A t \in Tables : floor'[q][t] <= settled'[t]
                      /\ rpc'[q] = "idle" => stage'[q] = 1
                      /\ rpc'[q] # "done" => Len(plan'[q]) = stage'[q] - 1
                      /\ Len(plan'[q]) <= Len(Order)
                      /\ \A i \in 1 .. Len(plan'[q]) : plan'[q][i] >= floor'[q][Order[i]]
    BY DEF Planning
  <2>1. CASE q = r
    <3>1. \A t \in Tables : settled[t] \in Nat
      BY DEF TypeOK, Versions
    <3> QED
      BY <2>1, <3>1, <1>3, <1>4, <1>7, OrderFacts
  <2>2. CASE q # r
    BY <2>2, <1>3, <1>4, <1>7 DEF Planning
  <2> QED
    BY <2>1, <2>2
<1> QED
  BY <1>1, <1>2, <1>6, <1>8

\* A cached snapshot is one a call may take.
LEMMA SnapshotServes ==
  ASSUME CacheInv, snapshot # NoSnapshot
  PROVE  snapshot \in Versions /\ \A t \in Tables : settled[t] <= snapshot[t]
BY DEF CacheInv, TypeOK, Building, Usable

LEMMA FastPathStep ==
  ASSUME CacheInv, NEW r \in Readers, FastPath(r)
  PROVE  CacheInv'
<1> USE DEF CacheInv
<1>1. /\ rpc[r] = "fast"
      /\ UNCHANGED <<db, snapshot, expired, lock, built, floor, writing, wpc, wrote, settled, undropped, overdue>>
  BY DEF FastPath, writing
<1>2. Committing'
  BY <1>1, CommittingKept
<1>3. CASE Fresh /\ Take(r, snapshot)
  <2>1. /\ rpc' \in [Readers -> {"idle", "fast", "wait", "build", "direct", "done", "failed"}]
        /\ stage' \in [Readers -> 1 .. Len(Order)]
        /\ plan' \in [Readers -> Seq(Nat)]
        /\ rpc'[r] \in {"fast", "done"}
        /\ \A q \in Readers \ {r} : rpc'[q] = rpc[q]
        /\ Planning'
    BY <1>1, <1>3, SnapshotServes, TakeEffect DEF Fresh
  <2>2. TypeOK'
    BY <1>1, <2>1 DEF TypeOK, writing
  <2>3. \A q \in Readers : (rpc'[q] = "build" <=> lock' = q)
                           /\ (rpc'[q] # "build" => built[q] = <<>>)
    BY <1>1, <2>1 DEF Building
  <2> QED
    BY <1>1, <1>2, <2>1, <2>2, <2>3, BuildingKept
<1>4. CASE rpc' = [rpc EXCEPT ![r] = "wait"] /\ UNCHANGED <<stage, plan>>
  <2>1. \A q \in Readers : rpc'[q] = IF q = r THEN "wait" ELSE rpc[q]
    BY <1>4 DEF TypeOK
  <2>2. TypeOK'
    BY <1>1, <1>4 DEF TypeOK, writing
  <2>3. \A q \in Readers : (rpc'[q] = "build" <=> lock' = q)
                           /\ (rpc'[q] # "build" => built[q] = <<>>)
    BY <1>1, <2>1 DEF Building
  <2>4. Planning'
    BY <1>1, <1>4, <2>1, PlanningKept
  <2> QED
    BY <1>1, <1>2, <2>2, <2>3, <2>4, BuildingKept
<1> QED
  BY <1>3, <1>4 DEF FastPath

LEMMA LockStep ==
  ASSUME CacheInv, NEW r \in Readers, Lock(r)
  PROVE  CacheInv'
<1> USE DEF CacheInv
<1>1. /\ rpc[r] = "wait" /\ lock = NoOne
      /\ UNCHANGED <<db, snapshot, expired, built, floor, writing, wpc, wrote, settled, undropped, overdue>>
  BY DEF Lock, writing
<1>2. Committing'
  BY <1>1, CommittingKept
<1>3. CASE Fresh /\ Take(r, snapshot) /\ UNCHANGED lock
  <2>1. /\ rpc' \in [Readers -> {"idle", "fast", "wait", "build", "direct", "done", "failed"}]
        /\ stage' \in [Readers -> 1 .. Len(Order)]
        /\ plan' \in [Readers -> Seq(Nat)]
        /\ rpc'[r] \in {"fast", "done"}
        /\ \A q \in Readers \ {r} : rpc'[q] = rpc[q]
        /\ Planning'
    BY <1>1, <1>3, SnapshotServes, TakeEffect DEF Fresh
  <2>2. TypeOK'
    BY <1>1, <1>3, <2>1 DEF TypeOK, writing
  <2>3. \A q \in Readers : (rpc'[q] = "build" <=> lock' = q)
                           /\ (rpc'[q] # "build" => built[q] = <<>>)
    BY <1>1, <1>3, <2>1 DEF Building
  <2> QED
    BY <1>1, <1>2, <2>1, <2>2, <2>3, BuildingKept
<1>4. CASE lock' = r /\ rpc' = [rpc EXCEPT ![r] = "build"] /\ UNCHANGED <<stage, plan>>
  <2>1. \A q \in Readers : rpc'[q] = IF q = r THEN "build" ELSE rpc[q]
    BY <1>4 DEF TypeOK
  <2>2. TypeOK'
    BY <1>1, <1>4 DEF TypeOK, writing
  <2>3. \A q \in Readers : (rpc'[q] = "build" <=> lock' = q)
                           /\ (rpc'[q] # "build" => built[q] = <<>>)
    BY <1>1, <1>4, <2>1, RouteCacheAssumption DEF Building
  <2>4. Planning'
    BY <1>1, <1>4, <2>1, PlanningKept
  <2> QED
    BY <1>1, <1>2, <2>2, <2>3, <2>4, BuildingKept
<1> QED
  BY <1>3, <1>4 DEF Lock

LEMMA ReadDirectlyStep ==
  ASSUME CacheInv, NEW r \in Readers, ReadDirectly(r)
  PROVE  CacheInv'
<1> USE DEF CacheInv
<1>1. /\ rpc[r] = "direct"
      /\ UNCHANGED <<db, snapshot, expired, lock, built, floor, writing, wpc, wrote, settled, undropped, overdue>>
  BY DEF ReadDirectly, writing
<1>2. Committing'
  BY <1>1, CommittingKept
<1>3. CASE Take(r, db)
  <2>1. db \in Versions /\ \A t \in Tables : settled[t] <= db[t]
    BY DEF TypeOK, Committing
  <2>2. /\ rpc' \in [Readers -> {"idle", "fast", "wait", "build", "direct", "done", "failed"}]
        /\ stage' \in [Readers -> 1 .. Len(Order)]
        /\ plan' \in [Readers -> Seq(Nat)]
        /\ rpc'[r] \in {"fast", "done"}
        /\ \A q \in Readers \ {r} : rpc'[q] = rpc[q]
        /\ Planning'
    BY <1>1, <1>3, <2>1, TakeEffect
  <2>3. TypeOK'
    BY <1>1, <2>2 DEF TypeOK, writing
  <2>4. \A q \in Readers : (rpc'[q] = "build" <=> lock' = q)
                           /\ (rpc'[q] # "build" => built[q] = <<>>)
    BY <1>1, <2>2 DEF Building
  <2> QED
    BY <1>1, <1>2, <2>2, <2>3, <2>4, BuildingKept
<1>4. CASE rpc' = [rpc EXCEPT ![r] = "failed"] /\ UNCHANGED <<stage, plan>>
  <2>1. \A q \in Readers : rpc'[q] = IF q = r THEN "failed" ELSE rpc[q]
    BY <1>4 DEF TypeOK
  <2>2. TypeOK'
    BY <1>1, <1>4 DEF TypeOK, writing
  <2>3. \A q \in Readers : (rpc'[q] = "build" <=> lock' = q)
                           /\ (rpc'[q] # "build" => built[q] = <<>>)
    BY <1>1, <2>1 DEF Building
  <2>4. Planning'
    BY <1>1, <1>4, <2>1, PlanningKept
  <2> QED
    BY <1>1, <1>2, <2>2, <2>3, <2>4, BuildingKept
<1> QED
  BY <1>3, <1>4 DEF ReadDirectly

LEMMA ExpireStep ==
  ASSUME CacheInv, Expire
  PROVE  CacheInv'
<1> USE DEF CacheInv
<1>1. UNCHANGED <<db, snapshot, lock, rpc, stage, built, plan, floor, wpc, wrote, settled, undropped>>
  BY DEF Expire, reading
<1>2. TypeOK'
  BY <1>1 DEF TypeOK, Expire
<1>3. Building'
  <2>1. \A q \in Readers : (rpc'[q] = "build" <=> lock' = q)
                           /\ (rpc'[q] # "build" => built[q] = <<>>)
    BY <1>1 DEF Building
  <2> QED
    BY <1>1, <2>1, BuildingKept
<1> QED
  BY <1>1, <1>2, <1>3, CommittingKept, PlanningKept

\* A query sees a table as it is, which is usable.
LEMMA QueryStep ==
  ASSUME CacheInv, NEW r \in Readers, Query(r)
  PROVE  CacheInv'
<1> USE DEF CacheInv
<1> DEFINE k == Len(built[r]) + 1
           n == db[Order[k]]
<1>1. /\ rpc[r] = "build"
      /\ UNCHANGED <<db, snapshot, expired, lock, rpc, stage, plan, floor, writing, wpc, wrote, settled, undropped, overdue>>
  BY DEF Query, writing
<1>2. built[r] \in Seq(Nat) /\ Len(built[r]) < 3 /\ Len(built[r]) \in Nat
  BY OrderFacts DEF Query, TypeOK
<1>3. k \in 1 .. 3 /\ Order[k] \in Tables
  BY <1>2, OrderFacts
<1>4. n \in Nat /\ Usable(Order[k], n)
  BY <1>3 DEF TypeOK, Versions, Usable, Covered, Committing
<1>5. built' = [built EXCEPT ![r] = Append(built[r], n)]
  BY DEF Query
<1> HIDE DEF n
<1>6. /\ built' \in [Readers -> Seq(Nat)]
      /\ built'[r] = Append(built[r], n)
      /\ \A q \in Readers \ {r} : built'[q] = built[q]
  BY <1>2, <1>4, <1>5 DEF TypeOK
<1>7. TypeOK'
  BY <1>1, <1>6 DEF TypeOK, writing
<1>8. \A t, m : Usable(t, m) => Usable(t, m)'
  BY <1>1 DEF Usable, Covered, writing
<1>9. \A q \in Readers : /\ Len(built'[q]) <= Len(Order)
                         /\ \A i \in 1 .. Len(built'[q]) : Usable(Order[i], built'[q][i])
  <2> TAKE q \in Readers
  <2>1. CASE q = r
    <3>1. Len(built'[r]) = k /\ built'[r][k] = n
      BY <1>2, <1>4, <1>6
    <3>2. \A i \in 1 .. Len(built[r]) : built'[r][i] = built[r][i]
      BY <1>2, <1>4, <1>6
    <3>3. \A i \in 1 .. k : i = k \/ i \in 1 .. Len(built[r])
      BY <1>2
    <3>4. Len(built'[r]) <= Len(Order)
      BY <3>1, <1>3, OrderFacts
    <3>5. \A i \in 1 .. Len(built[r]) : Usable(Order[i], built[r][i])
      BY DEF Building
    <3>6. \A i \in 1 .. Len(built'[r]) : Usable(Order[i], built'[r][i])
      <4> SUFFICES ASSUME NEW i \in 1 .. k
                   PROVE  Usable(Order[i], built'[r][i])
        BY <3>1
      <4>1. CASE i = k
        BY <4>1, <3>1, <1>4
      <4>2. CASE i # k
        BY <4>2, <3>2, <3>3, <3>5
      <4> QED
        BY <4>1, <4>2
    <3> QED
      BY <2>1, <3>4, <3>6
  <2>2. CASE q # r
    BY <2>2, <1>6 DEF Building
  <2> QED
    BY <2>1, <2>2
<1>10. Building'
  <2>1. snapshot' # NoSnapshot => \A t \in Tables : Usable(t, snapshot[t])'
    BY <1>1 DEF Building, Usable, Covered, writing
  <2>2. \A q \in Readers : \A i \in 1 .. Len(built'[q]) : Usable(Order[i], built[q][i])'
    BY <1>1, <1>9 DEF Usable, Covered, writing
  <2>3. \A q \in Readers : (rpc'[q] = "build" <=> lock' = q)
                           /\ (rpc'[q] # "build" => built'[q] = <<>>)
    BY <1>1, <1>6 DEF Building
  <2> QED
    BY <1>1, <1>9, <2>1, <2>2, <2>3 DEF Building
<1> QED
  BY <1>1, <1>7, <1>10, CommittingKept, PlanningKept

\* The lock is free again and nothing is being built.
LEMMA NothingBuilt ==
  ASSUME TypeOK, Building, NEW r \in Readers, rpc[r] = "build",
         lock' = NoOne, built' = [built EXCEPT ![r] = <<>>],
         rpc'[r] # "build", \A q \in Readers \ {r} : rpc'[q] = rpc[q]
  PROVE  \A q \in Readers : rpc'[q] # "build" /\ lock' # q /\ built'[q] = <<>>
<1> TAKE q \in Readers
<1>1. lock = r
  BY DEF Building
<1>2. CASE q = r
  BY <1>2, RouteCacheAssumption DEF TypeOK
<1>3. CASE q # r
  BY <1>1, <1>3, RouteCacheAssumption DEF TypeOK, Building
<1> QED
  BY <1>2, <1>3

LEMMA StoreStep ==
  ASSUME CacheInv, NEW r \in Readers, Store(r)
  PROVE  CacheInv'
<1> USE DEF CacheInv
<1>1. /\ rpc[r] = "build" /\ snapshot' = Built(r) /\ expired' = FALSE /\ lock' = NoOne
      /\ Take(r, Built(r)) /\ built' = [built EXCEPT ![r] = <<>>]
      /\ UNCHANGED <<db, floor, writing, wpc, wrote, settled, undropped, overdue>>
  BY DEF Store, writing
<1>2. Built(r) \in Versions /\ \A t \in Tables : Usable(t, Built(r)[t])
  BY BuiltIsUsable DEF Store
<1>3. /\ rpc' \in [Readers -> {"idle", "fast", "wait", "build", "direct", "done", "failed"}]
      /\ stage' \in [Readers -> 1 .. Len(Order)]
      /\ plan' \in [Readers -> Seq(Nat)]
      /\ rpc'[r] \in {"fast", "done"}
      /\ \A q \in Readers \ {r} : rpc'[q] = rpc[q]
      /\ Planning'
  BY <1>1, <1>2, TakeEffect DEF Usable
<1>4. \A q \in Readers : rpc'[q] # "build" /\ lock' # q /\ built'[q] = <<>>
  BY <1>1, <1>3, NothingBuilt
<1>5. TypeOK'
  <2>1. built' \in [Readers -> Seq(Nat)]
    BY <1>1 DEF TypeOK
  <2>2. snapshot' \in Versions
    BY <1>1, <1>2
  <2> QED
    BY <1>1, <2>1, <2>2, <1>3 DEF TypeOK, writing
<1>6. Building'
  <2>1. \A t \in Tables : Usable(t, snapshot[t])'
    BY <1>1, <1>2 DEF Usable, Covered, writing
  <2> QED
    BY <1>1, <1>4, <2>1, OrderFacts DEF Building
<1> QED
  BY <1>1, <1>3, <1>5, <1>6, CommittingKept

LEMMA QueryFailsStep ==
  ASSUME CacheInv, NEW r \in Readers, QueryFails(r)
  PROVE  CacheInv'
<1> USE DEF CacheInv
<1>1. /\ rpc[r] = "build" /\ lock' = NoOne /\ built' = [built EXCEPT ![r] = <<>>]
      /\ UNCHANGED <<db, snapshot, expired, floor, writing, wpc, wrote, settled, undropped, overdue>>
  BY DEF QueryFails, writing
<1>2. /\ rpc' \in [Readers -> {"idle", "fast", "wait", "build", "direct", "done", "failed"}]
      /\ stage' \in [Readers -> 1 .. Len(Order)]
      /\ plan' \in [Readers -> Seq(Nat)]
      /\ rpc'[r] # "build"
      /\ \A q \in Readers \ {r} : rpc'[q] = rpc[q]
      /\ Planning'
  <2>1. CASE snapshot # NoSnapshot /\ Take(r, snapshot)
    BY <1>1, <2>1, SnapshotServes, TakeEffect
  <2>2. CASE /\ rpc' = [rpc EXCEPT ![r] = IF stage[r] = 1 THEN "failed" ELSE "direct"]
             /\ UNCHANGED <<stage, plan>>
    <3>1. \A q \in Readers : rpc'[q] = IF q = r THEN IF stage[r] = 1 THEN "failed" ELSE "direct"
                                       ELSE rpc[q]
      BY <2>2 DEF TypeOK
    <3>2. /\ rpc' \in [Readers -> {"idle", "fast", "wait", "build", "direct", "done", "failed"}]
          /\ stage' \in [Readers -> 1 .. Len(Order)]
          /\ plan' \in [Readers -> Seq(Nat)]
      BY <2>2 DEF TypeOK
    <3>3. Planning'
      BY <1>1, <2>2, <3>1, PlanningKept
    <3> QED
      BY <3>1, <3>2, <3>3
  <2> QED
    BY <2>1, <2>2 DEF QueryFails
<1>3. \A q \in Readers : rpc'[q] # "build" /\ lock' # q /\ built'[q] = <<>>
  BY <1>1, <1>2, NothingBuilt
<1>4. TypeOK'
  <2>1. built' \in [Readers -> Seq(Nat)]
    BY <1>1 DEF TypeOK
  <2> QED
    BY <1>1, <2>1, <1>2 DEF TypeOK, writing
<1>5. Building'
  <2>1. snapshot' # NoSnapshot => \A t \in Tables : Usable(t, snapshot[t])'
    BY <1>1 DEF Building, Usable, Covered, writing
  <2> QED
    BY <1>1, <1>3, <2>1, OrderFacts DEF Building
<1> QED
  BY <1>1, <1>2, <1>4, <1>5, CommittingKept

-----------------------------------------------------------------------------
(* The steps of a writer. *)

\* A step of a writer that leaves the snapshot alone and keeps usable what is.
LEMMA WriterKeeps ==
  ASSUME CacheInv, UNCHANGED <<snapshot, lock, reading, settled>>,
         \A t \in Tables : \A n \in Nat : Usable(t, n) => Usable(t, n)'
  PROVE  Building' /\ Planning'
<1> USE DEF CacheInv
<1>1. snapshot' # NoSnapshot => \A t \in Tables : Usable(t, snapshot[t])'
  <2> SUFFICES ASSUME snapshot # NoSnapshot, NEW t \in Tables
               PROVE  Usable(t, snapshot[t])'
    OBVIOUS
  <2>1. snapshot[t] \in Nat /\ Usable(t, snapshot[t])
    BY DEF TypeOK, Versions, Building
  <2>2. PICK n \in Nat : n = snapshot[t]
    BY <2>1
  <2>3. Usable(t, n)'
    BY <2>1, <2>2
  <2> QED
    BY <2>2, <2>3
<1>2. ASSUME NEW q \in Readers, NEW i \in 1 .. Len(built[q])
      PROVE  Usable(Order[i], built[q][i])'
  <2>1. built[q] \in Seq(Nat) /\ Len(built[q]) <= 3
    BY OrderFacts DEF TypeOK, Building
  <2>2. Usable(Order[i], built[q][i])
    BY DEF Building
  <2>3. PICK n \in Nat : n = built[q][i]
    BY <2>1
  <2>4. Order[i] \in Tables
    BY <2>1, OrderFacts
  <2>5. Usable(Order[i], n)'
    BY <2>2, <2>3, <2>4
  <2> QED
    BY <2>3, <2>5 DEF reading
<1>3. Building'
  BY <1>1, <1>2 DEF Building, reading
<1>4. Planning'
  BY PlanningKept DEF reading
<1> QED
  BY <1>3, <1>4

\* A commit to tables the writer has not yet written to.
LEMMA CommitStep ==
  ASSUME CacheInv, NEW w \in Writers, NEW T \in SUBSET Tables, CommitTo(w, T),
         \A t \in T : wrote[w][t] = 0,
         NEW after \in {"half", "committed", "updated"}, wpc' = [wpc EXCEPT ![w] = after],
         after = "half" => T = {"routes"} /\ wpc[w] = "idle"
  PROVE  CacheInv'
<1> USE DEF CacheInv
<1>1. \A t \in Tables : db[t] \in Nat /\ db'[t] = IF t \in T THEN db[t] + 1 ELSE db[t]
  BY DEF CommitTo, Commit, TypeOK, Versions
<1>2. db' \in Versions /\ UNCHANGED <<snapshot, expired, lock, reading, settled, undropped, overdue>>
  BY <1>1 DEF CommitTo, Commit, Versions
<1>3. [t \in Tables |-> IF t \in T THEN db[t] + 1 ELSE wrote[w][t]] \in Versions
  BY <1>1 DEF TypeOK, Versions
<1>4. /\ wrote' = [wrote EXCEPT ![w] = [t \in Tables |-> IF t \in T THEN db[t] + 1 ELSE wrote[w][t]]]
      /\ wrote' \in [Writers -> Versions]
  BY <1>3 DEF CommitTo, TypeOK
<1>5. \A x \in Writers : \A t \in Tables :
         wrote'[x][t] = IF x = w /\ t \in T THEN db[t] + 1 ELSE wrote[x][t]
  BY <1>4 DEF TypeOK
<1>6. wpc' \in [Writers -> {"idle", "half", "committed", "updated", "switch"}]
      /\ \A x \in Writers : wpc'[x] = IF x = w THEN after ELSE wpc[x]
  BY DEF TypeOK
<1>7. TypeOK'
  BY <1>2, <1>4, <1>6 DEF TypeOK, reading
<1>8. Committing'
  <2>1. \A t \in Tables : settled'[t] <= db'[t]
    <3> TAKE t \in Tables
    <3>1. settled[t] \in Nat /\ settled[t] <= db[t]
      BY DEF TypeOK, Versions, Committing
    <3> QED
      BY <3>1, <1>1, <1>2
  <2> SUFFICES ASSUME NEW x \in Writers
               PROVE  /\ \A t \in Tables : wrote'[x][t] <= db'[t]
                      /\ wpc'[x] \in {"idle", "switch"} => \A t \in Tables : wrote'[x][t] = 0
                      /\ wpc'[x] = "half" => \A t \in Tables \ {"routes"} : wrote'[x][t] = 0
    BY <2>1 DEF Committing
  <2>2. \A t \in Tables : wrote'[x][t] <= db'[t]
    <3> TAKE t \in Tables
    <3>1. wrote[x][t] \in Nat /\ wrote[x][t] <= db[t]
      BY DEF TypeOK, Versions, Committing
    <3> QED
      BY <3>1, <1>1, <1>5
  <2>3. CASE x = w
    <3>1. wpc'[w] = after /\ after \notin {"idle", "switch"}
      BY <1>6
    <3>2. ASSUME after = "half", NEW t \in Tables \ {"routes"}
          PROVE  wrote'[w][t] = 0
      BY <3>2, <1>5 DEF Committing
    <3> QED
      BY <2>2, <2>3, <3>1, <3>2
  <2>4. CASE x # w
    BY <2>2, <2>4, <1>5, <1>6 DEF Committing
  <2> QED
    BY <2>3, <2>4
<1>9. \A t \in Tables : \A n \in Nat : Usable(t, n) => Usable(t, n)'
  BY CommitKeepsUsable
<1> QED
  BY <1>2, <1>7, <1>8, <1>9, WriterKeeps

\* A commit of a writer that does not drop the snapshot.
LEMMA CommitOnlyStep ==
  ASSUME CacheInv, NEW w \in Writers, NEW s \in Tables, CommitOnly(s),
         wpc[w] \in {"idle", "switch"}, wpc' = [wpc EXCEPT ![w] = "idle"]
  PROVE  CacheInv'
<1> USE DEF CacheInv
<1>1. \A t \in Tables : db[t] \in Nat /\ db'[t] = IF t = s THEN db[t] + 1 ELSE db[t]
  BY DEF CommitOnly, Commit, TypeOK, Versions
<1>2. db' \in Versions /\ UNCHANGED <<snapshot, expired, lock, reading, wrote, settled, overdue>>
  BY <1>1 DEF CommitOnly, Commit, Versions
<1>3. undropped' = undropped \cup {<<s, db[s] + 1>>} /\ db[s] + 1 \in Nat
  BY <1>1 DEF CommitOnly
<1>4. wpc' \in [Writers -> {"idle", "half", "committed", "updated", "switch"}]
      /\ \A x \in Writers : wpc'[x] = IF x = w THEN "idle" ELSE wpc[x]
  BY DEF TypeOK
<1>5. TypeOK'
  <2>1. undropped' \subseteq Tables \X Nat /\ overdue' \subseteq undropped'
    BY <1>2, <1>3 DEF TypeOK
  <2> QED
    BY <2>1, <1>2, <1>4 DEF TypeOK, reading
<1>6. Committing'
  <2>1. ASSUME NEW t \in Tables
        PROVE  settled'[t] <= db'[t] /\ \A x \in Writers : wrote'[x][t] <= db'[t]
    <3>1. settled[t] \in Nat /\ \A x \in Writers : wrote[x][t] \in Nat
      BY DEF TypeOK, Versions
    <3>2. settled[t] <= db[t] /\ \A x \in Writers : wrote[x][t] <= db[t]
      BY DEF Committing
    <3> QED
      BY <3>1, <3>2, <1>1, <1>2
  <2> QED
    BY <2>1, <1>2, <1>4 DEF Committing
<1>7. \A t \in Tables : \A n \in Nat : Usable(t, n) => Usable(t, n)'
  BY CommitOnlyKeepsUsable
<1> QED
  BY <1>2, <1>5, <1>6, <1>7, WriterKeeps

LEMMA SwitchProxyStep ==
  ASSUME CacheInv, NEW w \in Writers, SwitchProxy(w)
  PROVE  CacheInv'
<1>1. wpc[w] = "switch" /\ wpc' = [wpc EXCEPT ![w] = "idle"]
  BY DEF SwitchProxy
<1>2. CASE CommitOnly("providers")
  BY <1>1, <1>2, CommitOnlyStep DEF Tables
<1>3. CASE UNCHANGED <<db, snapshot, expired, lock, reading, wrote, settled, undropped, overdue>>
  <2> USE DEF CacheInv
  <2>1. wpc' \in [Writers -> {"idle", "half", "committed", "updated", "switch"}]
        /\ \A x \in Writers : wpc'[x] = IF x = w THEN "idle" ELSE wpc[x]
    BY <1>1 DEF TypeOK
  <2>2. TypeOK'
    BY <1>3, <2>1 DEF TypeOK, reading
  <2>3. Committing'
    BY <1>1, <1>3, <2>1 DEF Committing
  <2>4. \A t \in Tables : \A n \in Nat : Usable(t, n) => Usable(t, n)'
    BY <1>3 DEF Usable, Covered
  <2> QED
    BY <1>3, <2>2, <2>3, <2>4, WriterKeeps
<1> QED
  BY <1>2, <1>3 DEF SwitchProxy

LEMMA RestoreTableStep ==
  ASSUME CacheInv, NEW w \in Writers, NEW t \in Tables, RestoreTable(w, t)
  PROVE  CacheInv'
<1>1. wpc[w] = "idle" /\ CommitOnly(t) /\ wpc' = wpc
  BY DEF RestoreTable
<1>2. wpc' = [wpc EXCEPT ![w] = "idle"]
  BY <1>1 DEF CacheInv, TypeOK
<1> QED
  BY <1>1, <1>2, CommitOnlyStep

LEMMA DeleteTokenFailsStep ==
  ASSUME CacheInv, NEW w \in Writers, DeleteTokenFails(w)
  PROVE  CacheInv'
<1> USE DEF CacheInv
<1>1. UNCHANGED <<db, snapshot, expired, lock, reading, settled, overdue>>
  BY DEF DeleteTokenFails
<1>2. wrote' \in [Writers -> Versions]
      /\ \A x \in Writers : wrote'[x] = IF x = w THEN Zero ELSE wrote[x]
  BY DEF DeleteTokenFails, TypeOK, Zero, Versions
<1>3. wpc' \in [Writers -> {"idle", "half", "committed", "updated", "switch"}]
      /\ \A x \in Writers : wpc'[x] = IF x = w THEN "idle" ELSE wpc[x]
  BY DEF DeleteTokenFails, TypeOK
<1>4. undropped' \subseteq Tables \X Nat /\ overdue' \subseteq undropped'
  <2>1. wrote[w]["routes"] \in Nat /\ "routes" \in Tables
    BY DEF TypeOK, Versions, Tables
  <2>2. undropped' = undropped \cup {<<"routes", wrote[w]["routes"]>>}
    BY DEF DeleteTokenFails
  <2> QED
    BY <1>1, <2>1, <2>2 DEF TypeOK
<1>5. TypeOK'
  BY <1>1, <1>2, <1>3, <1>4 DEF TypeOK, reading
<1>6. Committing'
  <2>1. \A t \in Tables : db[t] \in Nat /\ Zero[t] = 0
    BY DEF TypeOK, Versions, Zero
  <2> QED
    BY <2>1, <1>1, <1>2, <1>3 DEF Committing
<1>7. \A t \in Tables : \A n \in Nat : Usable(t, n) => Usable(t, n)'
  BY NotingKeepsUsable
<1> QED
  BY <1>1, <1>5, <1>6, <1>7, WriterKeeps

\* Nobody builds while the lock is free, so nothing that could miss the
\* commits of w is left.
LEMMA InvalidateStep ==
  ASSUME CacheInv, NEW w \in Writers, Invalidate(w)
  PROVE  CacheInv'
<1> USE DEF CacheInv
<1>1. /\ lock = NoOne /\ snapshot' = NoSnapshot /\ expired' = FALSE /\ settled' = db
      /\ undropped' = {} /\ overdue' = {} /\ UNCHANGED <<db, lock, reading>>
  BY DEF Invalidate, Drop
<1>2. \A t \in Tables : db[t] \in Nat /\ settled[t] \in Nat
  BY DEF TypeOK, Versions
<1>3. wrote' \in [Writers -> Versions]
      /\ \A x \in Writers : wrote'[x] = IF x = w THEN Zero ELSE wrote[x]
  BY DEF Invalidate, Drop, TypeOK, Zero, Versions
<1>4. PICK after \in {"idle", "switch"} : wpc' = [wpc EXCEPT ![w] = after]
  BY DEF Invalidate, Drop
<1>5. wpc' \in [Writers -> {"idle", "half", "committed", "updated", "switch"}]
      /\ \A x \in Writers : wpc'[x] = IF x = w THEN after ELSE wpc[x]
  BY <1>4 DEF TypeOK
<1>6. TypeOK'
  BY <1>1, <1>3, <1>5 DEF TypeOK, reading
<1>7. Committing'
  <2>1. \A t \in Tables : Zero[t] = 0
    BY DEF Zero
  <2> QED
    BY <2>1, <1>1, <1>2, <1>3, <1>5 DEF Committing
<1>9. Building'
  <2>1. \A q \in Readers : rpc[q] # "build"
    BY <1>1, RouteCacheAssumption DEF Building
  <2>2. \A q \in Readers : built'[q] = <<>> /\ rpc'[q] # "build" /\ lock' # q
    BY <2>1, <1>1, RouteCacheAssumption DEF Building, reading
  <2> QED
    BY <2>2, <1>1, OrderFacts DEF Building
<1>10. Planning'
  <2>1. \A q \in Readers : \A t \in Tables : floor'[q][t] <= settled'[t]
    <3> TAKE q \in Readers
    <3> TAKE t \in Tables
    <3>1. floor[q][t] \in Nat /\ floor[q][t] <= settled[t]
      BY DEF TypeOK, Versions, Planning
    <3> QED
      BY <3>1, <1>1, <1>2 DEF reading, Committing
  <2> QED
    BY <2>1, <1>1 DEF Planning, reading
<1> QED
  BY <1>6, <1>7, <1>9, <1>10

-----------------------------------------------------------------------------
(* The invariant, and the properties that follow from it. *)

LEMMA InitCacheInv ==
  ASSUME Init
  PROVE  CacheInv
<1>1. TypeOK
  <2>1. Zero \in Versions
    BY DEF Zero, Versions
  <2>2. 1 \in 1 .. Len(Order) /\ <<>> \in Seq(Nat)
    BY OrderFacts
  <2> QED
    BY <2>1, <2>2 DEF Init, TypeOK
<1>2. \A t \in Tables : Zero[t] = 0
  BY DEF Zero
<1>3. Committing
  BY <1>2 DEF Init, Committing
<1>4. Building
  BY OrderFacts, RouteCacheAssumption DEF Init, Building
<1>5. Planning
  BY <1>2, OrderFacts DEF Init, Planning
<1> QED
  BY <1>1, <1>3, <1>4, <1>5 DEF CacheInv

LEMMA NextCacheInv ==
  ASSUME CacheInv, [Next]_cvars
  PROVE  CacheInv'
<1>1. ASSUME NEW r \in Readers, BeginPlan(r) \/ Plan(r)
      PROVE  CacheInv'
  BY <1>1, BeginPlanStep, FastPathStep, LockStep, QueryStep, QueryFailsStep, StoreStep,
     ReadDirectlyStep DEF Plan
<1>2. ASSUME NEW w \in Writers, Write(w)
      PROVE  CacheInv'
  <2>1. ASSUME NEW T \in Transactions, Save(w, T)
        PROVE  CacheInv'
    <3>1. T \in SUBSET Tables
      BY DEF Transactions, Tables
    <3>2. \A t \in T : wrote[w][t] = 0
      BY <2>1, <3>1 DEF Save, CacheInv, Committing
    <3>3. CommitTo(w, T) /\ wpc' = [wpc EXCEPT ![w] = "committed"]
      BY <2>1 DEF Save
    <3> QED
      BY <3>1, <3>2, <3>3, CommitStep
  <2>2. CASE UpdateProvider(w)
    <3>1. CommitTo(w, {"providers"}) /\ wpc' = [wpc EXCEPT ![w] = "updated"] /\ wpc[w] = "idle"
      BY <2>2 DEF UpdateProvider
    <3>2. {"providers"} \in SUBSET Tables /\ \A t \in {"providers"} : wrote[w][t] = 0
      BY <3>1 DEF Tables, CacheInv, Committing
    <3> QED
      BY <3>1, <3>2, CommitStep
  <2>3. CASE DeleteTokenRoutes(w)
    <3>1. CommitTo(w, {"routes"}) /\ wpc' = [wpc EXCEPT ![w] = "half"] /\ wpc[w] = "idle"
      BY <2>3 DEF DeleteTokenRoutes
    <3>2. {"routes"} \in SUBSET Tables /\ \A t \in {"routes"} : wrote[w][t] = 0
      BY <3>1 DEF Tables, CacheInv, Committing
    <3> QED
      BY <3>1, <3>2, CommitStep
  <2>4. CASE DeleteTokenRow(w)
    <3>1. CommitTo(w, {"tokens"}) /\ wpc' = [wpc EXCEPT ![w] = "committed"] /\ wpc[w] = "half"
      BY <2>4 DEF DeleteTokenRow
    <3>2. {"tokens"} \in SUBSET Tables /\ \A t \in {"tokens"} : wrote[w][t] = 0
      BY <3>1 DEF Tables, CacheInv, Committing
    <3> QED
      BY <3>1, <3>2, CommitStep
  <2> QED
    BY <1>2, <2>1, <2>2, <2>3, <2>4, SwitchProxyStep, RestoreTableStep, DeleteTokenFailsStep,
       InvalidateStep DEF Write
<1>3. CASE UNCHANGED cvars
  <2>1. UNCHANGED <<db, snapshot, expired, lock, rpc, stage, built, plan, floor,
                    wpc, wrote, settled, undropped, overdue>>
    BY <1>3 DEF cvars, reading, writing
  <2>2. TypeOK'
    BY <2>1 DEF CacheInv, TypeOK
  <2>3. Committing' /\ Planning'
    BY <2>1 DEF CacheInv, Committing, Planning
  <2>4. Building'
    <3>1. \A q \in Readers : (rpc'[q] = "build" <=> lock' = q)
                             /\ (rpc'[q] # "build" => built[q] = <<>>)
      BY <2>1 DEF CacheInv, Building
    <3> QED
      BY <2>1, <3>1, BuildingKept DEF CacheInv
  <2> QED
    BY <2>2, <2>3, <2>4 DEF CacheInv
<1> QED
  BY <1>1, <1>2, <1>3, ExpireStep DEF Next

\* The invariant holds whatever the tables, plans and writers do.
THEOREM CacheInvariant == SafeSpec => []CacheInv
<1>1. Init => CacheInv
  BY InitCacheInv
<1>2. CacheInv /\ [Next]_cvars => CacheInv'
  BY NextCacheInv
<1> QED
  BY <1>1, <1>2, PTL DEF SafeSpec

\* Every variable of the cache keeps its type.
THEOREM CacheTypeCorrect == SafeSpec => []TypeOK
<1>1. CacheInv => TypeOK
  BY DEF CacheInv
<1> QED
  BY <1>1, CacheInvariant, PTL

-----------------------------------------------------------------------------
(* What is overdue, next to the invariant.                                 *)

\* The versions in play are numbers.
LEMMA NumbersFacts ==
  ASSUME CacheInv
  PROVE  /\ \A t \in Tables : db[t] \in Nat
         /\ \A c \in undropped : c[1] \in Tables /\ c[2] \in Nat
         /\ \A c \in overdue : c \in undropped
         /\ \A q \in Readers : built[q] \in Seq(Nat) /\ Len(built[q]) <= 3
<1> USE DEF CacheInv
<1>1. \A c \in Tables \X Nat : c[1] \in Tables /\ c[2] \in Nat
  OBVIOUS
<1> QED
  BY <1>1, OrderFacts DEF TypeOK, Versions, Building

\* A step that leaves the database and what is overdue alone, builds nothing new
\* and makes no snapshot fresh.
LEMMA RenewingKept ==
  ASSUME Renewing, UNCHANGED <<db, undropped, overdue>>,
         \A q \in Readers : built'[q] \in {built[q], <<>>},
         Fresh' => Fresh /\ UNCHANGED <<snapshot, lock>>
  PROVE  Renewing'
<1>1. \A q \in Readers : \A i \in 1 .. Len(built'[q]) : i \in 1 .. Len(built[q]) /\ built'[q] = built[q]
  <2> TAKE q \in Readers
  <2>1. CASE built'[q] = built[q]
    BY <2>1
  <2>2. CASE built'[q] = <<>>
    BY <2>2
  <2> QED
    BY <2>1, <2>2
<1>2. \A q \in Readers : \A i \in 1 .. Len(built'[q]) : \A c \in overdue' :
         c[1] = Order[i] => c[2] <= built'[q][i]
  BY <1>1 DEF Renewing
<1> QED
  BY <1>2 DEF Renewing

\* A commit: the new numbers are greater, and nothing more is overdue.
LEMMA CommitRenews ==
  ASSUME CacheInv, Renewing, NEW T \in SUBSET Tables, Commit(T),
         UNCHANGED <<snapshot, expired, lock, built, overdue>>,
         \A c \in undropped' \ undropped : c[2] <= db'[c[1]]
  PROVE  Renewing'
<1>1. \A t \in Tables : db[t] \in Nat /\ db'[t] \in Nat /\ db[t] <= db'[t]
  BY NumbersFacts DEF Commit
<1>2. \A c \in undropped' : c[2] <= db'[c[1]]
  <2> TAKE c \in undropped'
  <2>1. CASE c \in undropped
    <3>1. c[1] \in Tables /\ c[2] \in Nat /\ c[2] <= db[c[1]]
      BY <2>1, NumbersFacts DEF Renewing
    <3> QED
      BY <3>1, <1>1
  <2> QED
    BY <2>1
<1> QED
  BY <1>2 DEF Renewing, Fresh

LEMMA QueryRenews ==
  ASSUME CacheInv, Renewing, NEW r \in Readers, Query(r)
  PROVE  Renewing'
<1> DEFINE k == Len(built[r]) + 1
           n == db[Order[k]]
<1>1. UNCHANGED <<db, snapshot, expired, lock, undropped, overdue>>
  BY DEF Query, writing
<1>2. built[r] \in Seq(Nat) /\ Len(built[r]) < 3 /\ Len(built[r]) \in Nat
  BY OrderFacts DEF Query, CacheInv, TypeOK
<1>3. k \in 1 .. 3 /\ Order[k] \in Tables /\ n \in Nat
  BY <1>2, OrderFacts, NumbersFacts
<1>4. built' = [built EXCEPT ![r] = Append(built[r], n)]
  BY DEF Query
<1>5. \A c \in overdue : c[1] = Order[k] => c[2] <= n
  BY NumbersFacts DEF Renewing
<1> HIDE DEF n
<1>6. built'[r] = Append(built[r], n) /\ \A q \in Readers \ {r} : built'[q] = built[q]
  BY <1>4 DEF CacheInv, TypeOK
<1>7. ASSUME NEW q \in Readers, NEW i \in 1 .. Len(built'[q]), NEW c \in overdue, c[1] = Order[i]
      PROVE  c[2] <= built'[q][i]
  <2>1. CASE q # r
    BY <2>1, <1>6, <1>7 DEF Renewing
  <2>2. CASE q = r /\ i = k
    <3>1. built'[r][k] = n
      BY <1>2, <1>3, <1>6
    <3> QED
      BY <2>2, <3>1, <1>5, <1>7
  <2>3. CASE q = r /\ i # k
    <3>1. i \in 1 .. Len(built[r]) /\ built'[r][i] = built[r][i]
      BY <2>3, <1>2, <1>3, <1>6
    <3> QED
      BY <2>3, <3>1, <1>7 DEF Renewing
  <2> QED
    BY <2>1, <2>2, <2>3
<1> QED
  BY <1>1, <1>7 DEF Renewing, Fresh

LEMMA StoreRenews ==
  ASSUME CacheInv, Renewing, NEW r \in Readers, Store(r)
  PROVE  Renewing'
<1>1. /\ rpc[r] = "build" /\ Len(built[r]) = 3 /\ snapshot' = Built(r) /\ lock' = NoOne
      /\ built' = [built EXCEPT ![r] = <<>>]
      /\ UNCHANGED <<db, undropped, overdue>>
  BY OrderFacts DEF Store, writing
<1> DEFINE at(t) == CHOOSE i \in 1 .. Len(Order) : Order[i] = t
<1>2. \A t \in Tables : at(t) \in 1 .. 3 /\ Order[at(t)] = t
  <2> TAKE t \in Tables
  <2>1. \E i \in 1 .. Len(Order) : Order[i] = t
    BY OrderFacts
  <2> QED
    BY <2>1, OrderFacts
<1>3. \A t \in Tables : Built(r)[t] = built[r][at(t)]
  BY DEF Built
<1> HIDE DEF at
<1>4. \A c \in overdue : c[2] <= snapshot'[c[1]]
  <2> TAKE c \in overdue
  <2>1. c[1] \in Tables
    BY NumbersFacts
  <2>2. at(c[1]) \in 1 .. Len(built[r]) /\ c[1] = Order[at(c[1])]
    BY <2>1, <1>1, <1>2
  <2> QED
    BY <2>1, <2>2, <1>1, <1>3 DEF Renewing
<1>5. \A q \in Readers : built'[q] = IF q = r THEN <<>> ELSE built[q]
  BY <1>1 DEF CacheInv, TypeOK
<1>6. ASSUME NEW q \in Readers, NEW i \in 1 .. Len(built'[q]), NEW c \in overdue, c[1] = Order[i]
      PROVE  c[2] <= built'[q][i]
  <2>1. q # r /\ built'[q] = built[q]
    BY <1>5, <1>6
  <2> QED
    BY <2>1, <1>6 DEF Renewing
<1> QED
  BY <1>1, <1>4, <1>6 DEF Renewing

\* A snapshot expires only while it is fresh, so nobody is building.
LEMMA ExpireRenews ==
  ASSUME CacheInv, Renewing, Expire
  PROVE  Renewing'
<1>1. Fresh /\ ~Fresh' /\ UNCHANGED <<db, undropped, built>>
  BY DEF Expire, Fresh, reading
<1>2. \A q \in Readers : rpc[q] # "build"
  BY <1>1, RouteCacheAssumption DEF Renewing, CacheInv, Building
<1>3. \A q \in Readers : built'[q] = <<>>
  BY <1>1, <1>2 DEF CacheInv, Building
<1> QED
  BY <1>1, <1>3 DEF Renewing

LEMMA PlanRenews ==
  ASSUME CacheInv, Renewing, NEW r \in Readers, BeginPlan(r) \/ Plan(r)
  PROVE  Renewing'
<1> USE DEF writing
<1>1. CASE BeginPlan(r)
  BY <1>1, RenewingKept DEF BeginPlan, Fresh
<1>2. CASE FastPath(r)
  BY <1>2, RenewingKept DEF FastPath, Fresh
<1>3. CASE Lock(r)
  <2>1. UNCHANGED <<db, snapshot, expired, built, undropped, overdue>> /\ (Fresh => UNCHANGED lock)
    BY <1>3 DEF Lock
  <2> QED
    BY <2>1, RenewingKept DEF Fresh
<1>4. CASE QueryFails(r)
  <2>1. /\ UNCHANGED <<db, snapshot, expired, undropped, overdue>> /\ rpc[r] = "build"
        /\ built' = [built EXCEPT ![r] = <<>>]
    BY <1>4 DEF QueryFails
  <2>2. ~Fresh
    BY <2>1, RouteCacheAssumption DEF Renewing, CacheInv, Building
  <2>3. \A q \in Readers : built'[q] \in {built[q], <<>>}
    BY <2>1 DEF CacheInv, TypeOK
  <2> QED
    BY <2>1, <2>2, <2>3, RenewingKept DEF Fresh
<1>5. CASE ReadDirectly(r)
  BY <1>5, RenewingKept DEF ReadDirectly, Fresh
<1> QED
  BY <1>1, <1>2, <1>3, <1>4, <1>5, QueryRenews, StoreRenews DEF Plan

LEMMA WriteRenews ==
  ASSUME CacheInv, Renewing, NEW w \in Writers, Write(w)
  PROVE  Renewing'
<1> USE DEF reading
<1>1. ASSUME NEW T \in SUBSET Tables, CommitTo(w, T)
      PROVE  Renewing'
  BY <1>1, CommitRenews DEF CommitTo
<1>2. ASSUME NEW t \in Tables, CommitOnly(t)
      PROVE  Renewing'
  <2>1. {t} \in SUBSET Tables /\ db'[t] = db[t] + 1
    BY <1>2 DEF CommitOnly, Commit
  <2>2. db[t] \in Nat
    BY NumbersFacts
  <2>3. undropped' = undropped \cup {<<t, db[t] + 1>>}
    BY <1>2 DEF CommitOnly
  <2>4. \A c \in undropped' \ undropped : c[1] = t /\ c[2] = db[t] + 1
    BY <2>3
  <2>5. \A c \in undropped' \ undropped : c[2] <= db'[c[1]]
    BY <2>1, <2>2, <2>4
  <2> QED
    BY <1>2, <2>1, <2>5, CommitRenews DEF CommitOnly
<1>3. ASSUME NEW T \in Transactions, Save(w, T)
      PROVE  Renewing'
  <2>1. T \in SUBSET Tables
    BY DEF Transactions, Tables
  <2> QED
    BY <1>1, <1>3, <2>1 DEF Save
<1>4. CASE UpdateProvider(w) \/ DeleteTokenRoutes(w) \/ DeleteTokenRow(w)
  BY <1>1, <1>4 DEF UpdateProvider, DeleteTokenRoutes, DeleteTokenRow, Tables
<1>5. CASE SwitchProxy(w)
  <2>1. CASE CommitOnly("providers")
    BY <1>2, <2>1 DEF Tables
  <2>2. CASE UNCHANGED <<db, snapshot, expired, lock, reading, wrote, settled, undropped, overdue>>
    BY <2>2, RenewingKept DEF Fresh
  <2> QED
    BY <1>5, <2>1, <2>2 DEF SwitchProxy
<1>6. CASE DeleteTokenFails(w)
  <2>1. /\ undropped' = undropped \cup {<<"routes", wrote[w]["routes"]>>}
        /\ UNCHANGED <<db, snapshot, expired, lock, built, overdue>>
    BY <1>6 DEF DeleteTokenFails
  <2>2. wrote[w]["routes"] <= db["routes"]
    BY DEF CacheInv, Committing, Tables
  <2>3. \A c \in undropped' : c[2] <= db'[c[1]]
    BY <2>1, <2>2 DEF Renewing
  <2> QED
    BY <2>1, <2>3 DEF Renewing, Fresh
<1>7. CASE \E t \in Tables : RestoreTable(w, t)
  BY <1>2, <1>7 DEF RestoreTable
<1>8. CASE Invalidate(w)
  <2>1. undropped' = {} /\ overdue' = {} /\ ~Fresh'
    BY <1>8 DEF Invalidate, Drop, Fresh
  <2> QED
    BY <2>1 DEF Renewing
<1> QED
  BY <1>3, <1>4, <1>5, <1>6, <1>7, <1>8 DEF Write

\* A fresh snapshot, and one that is being built, hold what is overdue.
THEOREM RenewingHolds == SafeSpec => []Renewing
<1>1. Init => Renewing
  BY DEF Init, Renewing, Fresh
<1>2. CacheInv /\ Renewing /\ [Next]_cvars => Renewing'
  <2> SUFFICES ASSUME CacheInv, Renewing, [Next]_cvars
               PROVE  Renewing'
    OBVIOUS
  <2>1. CASE UNCHANGED cvars
    BY <2>1, RenewingKept DEF cvars, reading, writing, Fresh
  <2> QED
    BY <2>1, PlanRenews, WriteRenews, ExpireRenews DEF Next
<1> QED
  BY <1>1, <1>2, CacheInvariant, PTL DEF SafeSpec

\* A commit the cached snapshot misses is one whose writer has yet to drop the
\* snapshot (getRoutingStaticSnapshot holds the lock while it builds, and
\* invalidateModelRouteCaches waits for it), or one of those that are written
\* without a drop, and then the snapshot's minute is not over or it has expired.
THEOREM StaleOnlyWhileWritingHolds == SafeSpec => []StaleOnlyWhileWriting
<1>1. CacheInv /\ Renewing => StaleOnlyWhileWriting
  <2> SUFFICES ASSUME CacheInv, Renewing, snapshot # NoSnapshot, NEW t \in Tables,
                      NEW v \in snapshot[t] + 1 .. db[t]
               PROVE  \/ \E w \in Writers : wrote[w][t] = v
                      \/ <<t, v>> \in undropped /\ (Fresh => <<t, v>> \notin overdue)
    BY DEF StaleOnlyWhileWriting
  <2>1. snapshot[t] \in Nat /\ db[t] \in Nat
    BY DEF CacheInv, TypeOK, Versions
  <2>2. \/ \E w \in Writers : wrote[w][t] = v
        \/ <<t, v>> \in undropped
    BY DEF CacheInv, Building, Usable, Covered
  <2>3. ASSUME Fresh, <<t, v>> \in overdue
        PROVE  FALSE
    <3>1. v <= snapshot[t]
      BY <2>3 DEF Renewing
    <3> QED
      BY <3>1, <2>1
  <2> QED
    BY <2>2, <2>3
<1> QED
  BY <1>1, CacheInvariant, RenewingHolds, PTL

\* A plan begun after a writer has dropped the snapshot sees what was committed
\* before, in each of the tables it asks for.
THEOREM PlanSeesSettledWritesHolds == SafeSpec => []PlanSeesSettledWrites
<1>1. CacheInv => PlanSeesSettledWrites
  BY DEF CacheInv, Planning, PlanSeesSettledWrites
<1> QED
  BY <1>1, CacheInvariant, PTL
=============================================================================
