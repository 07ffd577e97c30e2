----------------------------- MODULE RouteCache -----------------------------
(***************************************************************************)
(* The routing snapshot (model/model_route_cache.go) between the plans     *)
(* that read it and the writers of the tables it was built from.  A plan   *)
(* asks for it three times: for its candidate routes, for their providers  *)
(* and for their tokens.  Whoever finds it missing or expired builds a new *)
(* one from three separate queries, holding the cache's lock all the time. *)
(* A writer commits to the database first and drops the snapshot then.     *)
(* Three of them leave a commit behind after which nobody drops it: an     *)
(* update of a provider with the proxy switch, a deletion of a token that  *)
(* fails half way, and a restored backup.                                  *)
(*                                                                         *)
(* Abstracted: the content of a table is the number of commits to it, and  *)
(* a snapshot is the numbers its queries saw.  Pricings and the catalogue  *)
(* are built with the routes.  Left out: a database without an enabled     *)
(* route, which has no plans; a new provider, which has no routes yet, and *)
(* which loadProvidersByIDs looks up in the database; and the columns of   *)
(* the daily check-in, which no plan reads.                                *)
(***************************************************************************)
EXTENDS Integers, Sequences, FiniteSets

CONSTANTS Readers,     \* requests that build a plan
          Writers,     \* goroutines that change a table
          NoOne,       \* nobody, for the lock
          NoSnapshot,  \* the nil snapshot
          MaxCommits   \* bound: nothing is committed after so many commits

Tables == {"routes", "providers", "tokens"}

\* The tables in the order in which a snapshot is built from them, and in
\* which a plan asks for them.
Order == <<"routes", "providers", "tokens">>

ASSUME RouteCacheAssumption ==
  /\ NoOne \notin Readers
  /\ NoSnapshot \notin [Tables -> Nat]
  /\ MaxCommits \in Nat

VARIABLES
  db,         \* db[t]: the commits to table t
  snapshot,   \* the cached snapshot, or NoSnapshot
  expired,    \* the snapshot's minute is over
  lock,       \* who builds a snapshot, or NoOne
  rpc,        \* rpc[r]: where the plan of r is
  stage,      \* stage[r]: the table r is asking for, by its place in Order
  built,      \* built[r]: what the snapshot r builds has seen so far
  plan,       \* plan[r]: what the plan of r is made of, table after table
  floor,      \* floor[r]: what was settled when the plan of r was begun
  wpc,        \* wpc[w]: where the writer w is
  wrote,      \* wrote[w][t]: the commit of w to t, or 0
  settled,    \* settled[t]: the commits to t before a writer last dropped the snapshot
  undropped,  \* the commits <<t, v>> since then whose writer returned and dropped nothing
  overdue     \* those of them that the snapshot has expired after

reading == <<rpc, stage, built, plan, floor>>
writing == <<wpc, wrote, settled, undropped, overdue>>
cvars   == <<db, snapshot, expired, lock, reading, writing>>

Versions == [Tables -> Nat]

TypeOK ==
  /\ db       \in Versions
  /\ snapshot \in Versions \cup {NoSnapshot}
  /\ expired  \in BOOLEAN
  /\ lock     \in Readers \cup {NoOne}
  /\ rpc      \in [Readers -> {"idle", "fast", "wait", "build", "direct", "done", "failed"}]
  /\ stage    \in [Readers -> 1 .. Len(Order)]
  /\ built    \in [Readers -> Seq(Nat)]
  /\ plan     \in [Readers -> Seq(Nat)]
  /\ floor    \in [Readers -> Versions]
  /\ wpc      \in [Writers -> {"idle", "half", "committed", "updated", "switch"}]
  /\ wrote    \in [Writers -> Versions]
  /\ settled  \in Versions
  /\ undropped \subseteq Tables \X Nat
  /\ overdue   \subseteq undropped

Zero == [t \in Tables |-> 0]

Init ==
  /\ db = Zero
  /\ snapshot = NoSnapshot
  /\ expired = FALSE
  /\ lock = NoOne
  /\ rpc   = [r \in Readers |-> "idle"]
  /\ stage = [r \in Readers |-> 1]
  /\ built = [r \in Readers |-> <<>>]
  /\ plan  = [r \in Readers |-> <<>>]
  /\ floor = [r \in Readers |-> Zero]
  /\ wpc   = [w \in Writers |-> "idle"]
  /\ wrote = [w \in Writers |-> Zero]
  /\ settled = Zero
  /\ undropped = {}
  /\ overdue = {}

-----------------------------------------------------------------------------
(* A plan: getRoutingStaticSnapshot, three times. *)

Fresh == snapshot # NoSnapshot /\ ~expired

\* The call of r gives it a snapshot, from which it takes its table.
Take(r, versions) ==
  /\ plan' = [plan EXCEPT ![r] = Append(@, versions[Order[stage[r]]])]
  /\ IF stage[r] = Len(Order)
     THEN /\ rpc' = [rpc EXCEPT ![r] = "done"]
          /\ UNCHANGED stage
     ELSE /\ rpc' = [rpc EXCEPT ![r] = "fast"]
          /\ stage' = [stage EXCEPT ![r] = @ + 1]

BeginPlan(r) ==
  /\ rpc[r] = "idle"
  /\ rpc'   = [rpc EXCEPT ![r] = "fast"]
  /\ floor' = [floor EXCEPT ![r] = settled]
  /\ UNCHANGED <<db, snapshot, expired, lock, stage, built, plan, writing>>

\* The look under the read lock, which waits for whoever holds the lock.
FastPath(r) ==
  /\ rpc[r] = "fast"
  /\ lock = NoOne
  /\ \/ Fresh /\ Take(r, snapshot)
     \/ ~Fresh /\ rpc' = [rpc EXCEPT ![r] = "wait"] /\ UNCHANGED <<stage, plan>>
  /\ UNCHANGED <<db, snapshot, expired, lock, built, floor, writing>>

\* The lock is taken and the snapshot looked at again.
Lock(r) ==
  /\ rpc[r] = "wait"
  /\ lock = NoOne
  /\ \/ Fresh /\ Take(r, snapshot) /\ UNCHANGED lock
     \/ /\ ~Fresh
        /\ lock' = r
        /\ rpc'  = [rpc EXCEPT ![r] = "build"]
        /\ UNCHANGED <<stage, plan>>
  /\ UNCHANGED <<db, snapshot, expired, built, floor, writing>>

\* One query of buildRoutingStaticSnapshot.
Query(r) ==
  /\ rpc[r] = "build"
  /\ Len(built[r]) < Len(Order)
  /\ built' = [built EXCEPT ![r] = Append(@, db[Order[Len(@) + 1]])]
  /\ UNCHANGED <<db, snapshot, expired, lock, rpc, stage, plan, floor, writing>>

\* What the queries of r saw, as a snapshot.
Built(r) == [t \in Tables |-> built[r][CHOOSE i \in 1 .. Len(Order) : Order[i] = t]]

Store(r) ==
  /\ rpc[r] = "build"
  /\ Len(built[r]) = Len(Order)
  /\ snapshot' = Built(r)
  /\ expired'  = FALSE
  /\ lock' = NoOne
  /\ Take(r, Built(r))
  /\ built' = [built EXCEPT ![r] = <<>>]
  /\ UNCHANGED <<db, floor, writing>>

\* Mutant of QueryFails: the lock is not released on an error.
QueryFailsLocked(r) ==
  /\ rpc[r] = "build"
  /\ Len(built[r]) < Len(Order)
  /\ \/ snapshot # NoSnapshot /\ Take(r, snapshot)
     \/ /\ snapshot = NoSnapshot
        /\ rpc' = [rpc EXCEPT ![r] = IF stage[r] = 1 THEN "failed" ELSE "direct"]
        /\ UNCHANGED <<stage, plan>>
  /\ built' = [built EXCEPT ![r] = <<>>]
  /\ UNCHANGED <<db, snapshot, expired, lock, floor, writing>>

\* A query fails: an old snapshot is better than none.  Without one there are
\* no candidates, and the plan fails; providers and tokens are then looked up
\* in the database.
QueryFails(r) ==
  /\ rpc[r] = "build"
  /\ Len(built[r]) < Len(Order)
  /\ lock' = NoOne
  /\ \/ snapshot # NoSnapshot /\ Take(r, snapshot)
     \/ /\ snapshot = NoSnapshot
        /\ rpc' = [rpc EXCEPT ![r] = IF stage[r] = 1 THEN "failed" ELSE "direct"]
        /\ UNCHANGED <<stage, plan>>
  /\ built' = [built EXCEPT ![r] = <<>>]
  /\ UNCHANGED <<db, snapshot, expired, floor, writing>>

\* The look-up in the database, which may fail as well.
ReadDirectly(r) ==
  /\ rpc[r] = "direct"
  /\ \/ Take(r, db)
     \/ rpc' = [rpc EXCEPT ![r] = "failed"] /\ UNCHANGED <<stage, plan>>
  /\ UNCHANGED <<db, snapshot, expired, lock, built, floor, writing>>

\* The minute of the snapshot is over.
Expire ==
  /\ snapshot # NoSnapshot
  /\ ~expired
  /\ expired' = TRUE
  /\ overdue' = undropped
  /\ UNCHANGED <<db, snapshot, lock, reading, wpc, wrote, settled, undropped>>

-----------------------------------------------------------------------------
(* The writers: Provider, ProviderToken, ModelRoute and a restore.         *)

Commit(T) ==
  /\ db["routes"] + db["providers"] + db["tokens"] < MaxCommits
  /\ db' = [t \in Tables |-> IF t \in T THEN db[t] + 1 ELSE db[t]]

\* A commit after which w is to drop the snapshot.
CommitTo(w, T) ==
  /\ Commit(T)
  /\ wrote' = [wrote EXCEPT ![w] = [t \in Tables |-> IF t \in T THEN db[t] + 1 ELSE @[t]]]
  /\ UNCHANGED <<snapshot, expired, lock, reading, settled, undropped, overdue>>

\* A commit to t after which its writer does not drop the snapshot.
CommitOnly(t) ==
  /\ Commit({t})
  /\ undropped' = undropped \cup {<<t, db[t] + 1>>}
  /\ UNCHANGED <<snapshot, expired, lock, reading, wrote, settled, overdue>>

\* One statement or one transaction over the tables of T.
Save(w, T) ==
  /\ wpc[w] = "idle"
  /\ CommitTo(w, T)
  /\ wpc' = [wpc EXCEPT ![w] = "committed"]

\* The handler UpdateProvider: Provider.Update commits what the request sets,
\* and drops the snapshot,
UpdateProvider(w) ==
  /\ wpc[w] = "idle"
  /\ CommitTo(w, {"providers"})
  /\ wpc' = [wpc EXCEPT ![w] = "updated"]

\* and then the proxy is switched by a statement of the handler's own, unless
\* the request has no switch or a statement fails.
SwitchProxy(w) ==
  /\ wpc[w] = "switch"
  /\ wpc' = [wpc EXCEPT ![w] = "idle"]
  /\ CommitOnly("providers") \/ UNCHANGED <<db, snapshot, expired, lock, reading, wrote,
                                            settled, undropped, overdue>>

\* A token is deleted in two statements without a transaction: its routes,
DeleteTokenRoutes(w) ==
  /\ wpc[w] = "idle"
  /\ CommitTo(w, {"routes"})
  /\ wpc' = [wpc EXCEPT ![w] = "half"]

\* then itself,
DeleteTokenRow(w) ==
  /\ wpc[w] = "half"
  /\ CommitTo(w, {"tokens"})
  /\ wpc' = [wpc EXCEPT ![w] = "committed"]

\* and when that fails the snapshot is not dropped.
DeleteTokenFails(w) ==
  /\ wpc[w] = "half"
  /\ undropped' = undropped \cup {<<"routes", wrote[w]["routes"]>>}
  /\ wpc'   = [wpc EXCEPT ![w] = "idle"]
  /\ wrote' = [wrote EXCEPT ![w] = Zero]
  /\ UNCHANGED <<db, snapshot, expired, lock, reading, settled, overdue>>

\* A restore puts other rows into the tables, one table after the other, and
\* drops no snapshot.
RestoreTable(w, t) ==
  /\ wpc[w] = "idle"
  /\ CommitOnly(t)
  /\ UNCHANGED wpc

\* The snapshot is gone, and every commit is settled, whoever made it.
Drop(w) ==
  /\ wpc[w] \in {"committed", "updated"}
  /\ snapshot' = NoSnapshot
  /\ expired'  = FALSE
  /\ settled'  = db
  /\ wpc'   = [wpc EXCEPT ![w] = IF @ = "updated" THEN "switch" ELSE "idle"]
  /\ wrote' = [wrote EXCEPT ![w] = Zero]
  /\ undropped' = {}
  /\ overdue'   = {}
  /\ UNCHANGED <<db, lock, reading>>

\* Mutant of Invalidate: the snapshot is dropped without waiting for the lock.
InvalidateUnlocked(w) == Drop(w)

\* The writer waits for the lock, drops the snapshot and goes on.
Invalidate(w) == lock = NoOne /\ Drop(w)

-----------------------------------------------------------------------------
\* The tables a statement or a transaction changes together.
Transactions ==
  {{"providers"},   \* Provider.Update, UpdateBalance, MarkHealthFailure, ...
   {"tokens"},      \* ProviderToken.Update, UpsertProviderToken, ...
   {"routes"},      \* UpdateModelRouteFields, BatchUpdateModelRoutes, RebuildRoutesForProvider
   Tables}          \* Provider.Delete

Plan(r) ==
  FastPath(r) \/ Lock(r) \/ Query(r) \/ QueryFails(r) \/ Store(r) \/ ReadDirectly(r)

Write(w) ==
  \/ \E T \in Transactions : Save(w, T)
  \/ \E t \in Tables : RestoreTable(w, t)
  \/ UpdateProvider(w) \/ SwitchProxy(w)
  \/ DeleteTokenRoutes(w) \/ DeleteTokenRow(w) \/ DeleteTokenFails(w)
  \/ Invalidate(w)

Next ==
  \/ \E r \in Readers : BeginPlan(r) \/ Plan(r)
  \/ \E w \in Writers : Write(w)
  \/ Expire

SafeSpec == Init /\ [][Next]_cvars

\* Goroutines run, queries return, and Go's mutex starves no one who waits for
\* it.  Plans being finite, weak fairness is enough.
Spec ==
  /\ SafeSpec
  /\ \A r \in Readers : WF_cvars(Plan(r))
  /\ \A w \in Writers : WF_cvars(Invalidate(w))

-----------------------------------------------------------------------------
(* Properties. *)

\* A snapshot other goroutines may be given misses a commit only as long as the
\* writer of that commit is on its way to drop the snapshot: even one that was
\* built while the writer was busy, from queries before and after the commit,
\* is dropped.  Three kinds of commit are excepted, for their writer returns
\* without dropping the snapshot: the proxy switch, which UpdateProvider writes
\* after Provider.Update has dropped it, the routes of a token whose deletion
\* failed half way, and a restored backup.  They are missed until another writer
\* drops the snapshot or its minute is over; after that only an expired snapshot
\* misses them, which is used just when a query fails.
StaleOnlyWhileWriting ==
  snapshot # NoSnapshot =>
    \A t \in Tables : \A v \in snapshot[t] + 1 .. db[t] :
       \/ \E w \in Writers : wrote[w][t] = v
       \/ <<t, v>> \in undropped /\ (Fresh => <<t, v>> \notin overdue)

\* A plan begun after a writer has dropped the snapshot sees that writer's change
\* and every earlier commit, whoever made it, in whichever of its three calls the
\* plan meets the table, and although a failing database makes it fall back on
\* an old snapshot.  Of a change that is acknowledged without a drop, the proxy
\* switch and a restore among them, only StaleOnlyWhileWriting speaks.
PlanSeesSettledWrites ==
  \A r \in Readers : \A i \in 1 .. Len(plan[r]) :
     plan[r][i] >= floor[r][Order[i]]

\* No one waits for ever for the cache's lock: again and again every plan that
\* was begun has ended and every writer has dropped the snapshot.
EveryoneGetsThrough ==
  []<>(/\ \A r \in Readers : rpc[r] \in {"idle", "done", "failed"}
       /\ \A w \in Writers : wpc[w] \notin {"committed", "updated"})

-----------------------------------------------------------------------------
(* The inductive invariant.  A builder is the lock's owner, so a writer    *)
(* that drops the snapshot drops all there is: while it has not, the       *)
(* snapshot and what has been built so far miss only covered commits.      *)

\* Every commit to t after the first n is one whose writer is still to drop the
\* snapshot, or has returned without.
Covered(t, n) ==
  \A v \in n + 1 .. db[t] :
     \/ \E w \in Writers : wrote[w][t] = v
     \/ <<t, v>> \in undropped

\* n is what a snapshot may hold of the table t.
Usable(t, n) == settled[t] <= n /\ n <= db[t] /\ Covered(t, n)

Committing ==
  /\ \A t \in Tables : settled[t] <= db[t]
  /\ \A w \in Writers :
        /\ \A t \in Tables : wrote[w][t] <= db[t]
        /\ wpc[w] \in {"idle", "switch"} => \A t \in Tables : wrote[w][t] = 0
        /\ wpc[w] = "half" => \A t \in Tables \ {"routes"} : wrote[w][t] = 0

Building ==
  /\ snapshot # NoSnapshot => \A t \in Tables : Usable(t, snapshot[t])
  /\ \A r \in Readers :
        /\ rpc[r] = "build" <=> lock = r
        /\ rpc[r] # "build" => built[r] = <<>>
        /\ Len(built[r]) <= Len(Order)
        /\ \A i \in 1 .. Len(built[r]) : Usable(Order[i], built[r][i])

Planning ==
  \A r \in Readers :
     /\ \A t \in Tables : floor[r][t] <= settled[t]
     /\ rpc[r] = "idle" => stage[r] = 1
     /\ rpc[r] # "done" => Len(plan[r]) = stage[r] - 1
     /\ Len(plan[r]) <= Len(Order)
     /\ \A i \in 1 .. Len(plan[r]) : plan[r][i] >= floor[r][Order[i]]

CacheInv == TypeOK /\ Committing /\ Building /\ Planning

\* Nobody builds next to a fresh snapshot, so what is built, and a fresh
\* snapshot, hold the commits that are overdue.
Renewing ==
  /\ \A c \in undropped : c[2] <= db[c[1]]
  /\ Fresh => lock = NoOne /\ \A c \in overdue : c[2] <= snapshot[c[1]]
  /\ \A r \in Readers : \A i \in 1 .. Len(built[r]) : \A c \in overdue :
        c[1] = Order[i] => c[2] <= built[r][i]
=============================================================================
