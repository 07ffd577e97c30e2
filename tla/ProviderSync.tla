---------------------------- MODULE ProviderSync ----------------------------
(***************************************************************************)
(* Synchronisation with one provider: service/sync.go and the tables of    *)
(* model/provider_token.go and model/model_route.go.  A cycle every five   *)
(* minutes does not wait for the last one, and the administrator's         *)
(* handlers (synchronise, create a token, delete a token, rebuild the      *)
(* routes, delete the provider) run beside it, each in a goroutine.        *)
(*                                                                         *)
(* A token of the upstream is its number; a row is its id and whether it    *)
(* holds a usable key.  The id of a row is the token it stands for and the  *)
(* row's place among the rows made for that token, as the order of ids is   *)
(* asked for only there.  Whether the upstream shows keys (in the list, by *)
(* the key endpoint or by the detail) is one switch.  A token has one      *)
(* group, which is priced or not.  Quotas, names, weights and the switch   *)
(* of a single route are left out, and a token is enabled.  The health of  *)
(* the provider, which a synchronisation marks too, is the subject of      *)
(* HealthAlert; here a cycle may find the provider usable at any time.     *)
(* The transaction that exchanges the routes is one step, as is the one    *)
(* that deletes a provider.                                                *)
(***************************************************************************)
EXTENDS Integers, FiniteSets

CONSTANTS Cycles,     \* cycles of the ticker at work on the provider at one time
          Admins,     \* requests of administrators
          MaxTokens,  \* bound on the tokens ever made on the upstream
          PageSize,   \* tokens in a page of the list
          Counted,    \* the list says how many tokens there are
          MaxFaults   \* bound on failing calls and on whims of the upstream

ASSUME SyncAssumption ==
  /\ {MaxTokens, MaxFaults} \subseteq Nat
  /\ PageSize \in Nat \ {0}
  /\ Counted \in BOOLEAN
  /\ IsFiniteSet(Cycles \cup Admins) /\ Cycles \cap Admins = {}

VARIABLES
  exists,    \* the provider has not been deleted
  priced,    \* the group of the tokens is in the provider's pricing rows
  rows,      \* provider_tokens of the provider
  routes,    \* the rows that have routes
  upstream,  \* the tokens of the account on the upstream
  made,      \* tokens made so far
  reveals,   \* the upstream shows keys
  task,      \* task[k]: where goroutine k is, and its locals
  faults     \* failing calls and whims so far

db    == <<exists, priced, rows, routes>>
there == <<upstream, made, reveals>>
vars  == <<db, there, task, faults>>

Workers == Cycles \cup Admins
Tokens == 1 .. MaxTokens
Ids    == Tokens \X (Nat \ {0})
None   == <<0, 0>>
Rows   == [id : Ids, ready : BOOLEAN]
Places == {"idle", "over", "before", "make", "list", "lookup", "find", "write", "clean",
           "read", "commit", "identify", "gone", "unroute", "unrow"}
Tasks == [kind : {"none", "sync", "create", "delete", "rebuild"}, at : Places,
          page : 0 .. MaxTokens,     \* pages read
          got : SUBSET Tokens,       \* allTokens
          todo : SUBSET Tokens,      \* those not yet reconciled
          key : BOOLEAN,             \* localToken holds one
          hit : Ids \cup {None},      \* the row that UpsertProviderToken or the handler found
          list : SUBSET Ids,         \* the rows the routes are made for
          before : SUBSET Tokens, own : 0 .. MaxTokens,  \* creation
          blind : BOOLEAN,   \* a look-up failed
          shared : BOOLEAN,  \* since the look-up another has written the token's row
          moved : BOOLEAN]   \* since the list began a token came or went

Idle == [kind |-> "none", at |-> "idle", page |-> 0, got |-> {}, todo |-> {}, key |-> FALSE,
         hit |-> None, list |-> {}, before |-> {}, own |-> 0, blind |-> FALSE,
         shared |-> FALSE, moved |-> FALSE]

Init ==
  /\ exists = TRUE /\ priced = FALSE
  /\ rows = {} /\ routes = {}
  /\ made \in 0 .. MaxTokens /\ upstream = 1 .. made
  /\ reveals \in BOOLEAN
  /\ task = [k \in Workers |-> Idle]
  /\ faults = 0

----------------------------------------------------------------------------
(* What a goroutine sees                                                    *)

Greatest(S) == CHOOSE x \in S : \A y \in S : y <= x
Cur(k)      == Greatest(task[k].todo)
RowOf(id)   == {r \in rows : r.id = id}
OfTokens(U) == {r \in rows : r.id[1] \in U}
Least(ids)  == IF ids = {} THEN None ELSE CHOOSE i \in ids : \A j \in ids : i[2] <= j[2]
FirstId(u)  == Least({r.id : r \in OfTokens({u})})
FirstReady(u) == \E r \in RowOf(FirstId(u)) : r.ready

\* Page p of the list, the newest token first.
Rank(u) == Cardinality({v \in upstream : v >= u})
Page(p) == {u \in upstream : Rank(u) \in p * PageSize + 1 .. (p + 1) * PageSize}

\* Mutant of LastPage: a full page is taken for the last one.
LastPageWhenFull(items, got) == items = {} \/ Cardinality(items) <= PageSize

\* fetchAllUpstreamTokens stops after the page that makes the list "got".
LastPage(items, got) ==
  \/ items = {}
  \/ IF Counted /\ upstream # {} THEN Cardinality(got) >= Cardinality(upstream)
                                 ELSE Cardinality(items) < PageSize

\* An id above all that are in use: autoincrement.
FreshId(u) ==
  LET used == {r.id : r \in rows} \cup routes
              \cup UNION {task[k].list \cup {task[k].hit} : k \in Workers}
  IN <<u, 1 + Greatest({0} \cup {i[2] : i \in {j \in used : j[1] = u}})>>

Runnable == {r.id : r \in {s \in rows : s.ready}}

----------------------------------------------------------------------------
(* Steps                                                                    *)

\* A cycle goes back to the ticker; a request is answered once.
Over(k)      == IF k \in Admins THEN [Idle EXCEPT !.at = "over"] ELSE Idle
At(k, place) == task[k].at = place
Put(k, t)    == task' = [task EXCEPT ![k] = t]
Go(k, place) == Put(k, [task[k] EXCEPT !.at = place])
Stop(k)      == Put(k, Over(k))

Working == UNCHANGED faults
Failing == faults < MaxFaults /\ faults' = faults + 1

\* Others that have looked a token up find its row written or gone.
Touch(k, ups, t) ==
  task' = [j \in Workers |->
             IF j = k THEN t
             ELSE IF task[j].at \in {"find", "write"} /\ Cur(j) \in ups
                  THEN [task[j] EXCEPT !.shared = TRUE] ELSE task[j]]

\* Those who have begun their list are passed by the change of the upstream.
Passed(tasks) ==
  [j \in Workers |->
     IF tasks[j].at \in {"list", "lookup", "find", "write", "clean"}
     THEN [tasks[j] EXCEPT !.moved = TRUE] ELSE tasks[j]]

\* runProviderSyncCycle, or SyncProviderHandler, and the first step of the
\* synchronisation: syncPricing.  What fails of it is logged, and the tokens are
\* next.
Start(k) ==
  /\ At(k, "idle") /\ exists
  /\ Put(k, [Idle EXCEPT !.kind = "sync", !.at = "list"])
  /\ \/ Working /\ priced' = TRUE
     \/ Failing /\ UNCHANGED priced
  /\ UNCHANGED <<exists, rows, routes, there>>

RebuildStart(k) ==
  /\ At(k, "idle") /\ exists
  /\ Put(k, [Idle EXCEPT !.kind = "rebuild", !.at = "read"])
  /\ UNCHANGED <<db, there, faults>>

\* CreateProviderToken refuses a group that no pricing row has.
CreateStart(k) ==
  /\ At(k, "idle") /\ exists /\ priced /\ made < MaxTokens
  /\ Put(k, [Idle EXCEPT !.kind = "create", !.at = "before"])
  /\ UNCHANGED <<db, there, faults>>

DeleteStart(k) ==
  /\ At(k, "idle")
  /\ \E r \in rows :
       Put(k, [Idle EXCEPT !.kind = "delete", !.at = "gone", !.hit = r.id, !.got = {r.id[1]}])
  /\ UNCHANGED <<db, there, faults>>

\* One page of fetchAllUpstreamTokens.
ReadPage(k) ==
  LET items == Page(task[k].page)
      all   == task[k].got \cup items
  IN /\ At(k, "list") /\ Working
     /\ IF LastPage(items, all)
        THEN Put(k, [task[k] EXCEPT !.at = IF all = {} THEN "clean" ELSE "lookup",
                                    !.page = 0, !.got = all, !.todo = all])
        ELSE Put(k, [task[k] EXCEPT !.page = @ + 1, !.got = all])
     /\ UNCHANGED <<db, there>>

\* The list that CreateProviderTokenWithReconciliation asks for first.
ReadBefore(k) ==
  LET items == Page(task[k].page)
      all   == task[k].before \cup items
  IN /\ At(k, "before") /\ Working
     /\ IF LastPage(items, all)
        THEN Put(k, [task[k] EXCEPT !.at = "make", !.page = 0, !.before = all])
        ELSE Put(k, [task[k] EXCEPT !.page = @ + 1, !.before = all])
     /\ UNCHANGED <<db, there>>

\* After an error of its tokens SyncProvider goes on to the routes; a creation
\* does not.
GiveUp(k) == Put(k, IF task[k].kind = "sync" THEN [Idle EXCEPT !.kind = "sync", !.at = "read"]
                                             ELSE Over(k))

ListFails(k) ==
  /\ task[k].at \in {"list", "before"} /\ Failing /\ GiveUp(k)
  /\ UNCHANGED <<db, there>>

\* What the upstream shows of the key of u; the list may have had the key of a
\* token that has gone since.
Shown(u) == IF ~reveals THEN {FALSE} ELSE IF u \in upstream THEN {TRUE} ELSE BOOLEAN

\* reconcileProviderToken: the row is looked up, where a failed query counts as
\* no row; then the upstream is asked for the key, and failing that the key of
\* the row is kept.
Reconcile(k) ==
  LET held == FirstReady(Cur(k))
      With(key, blind) == Put(k, [task[k] EXCEPT !.at = "find", !.key = key, !.blind = blind])
  IN /\ At(k, "lookup")
     /\ \/ \E shown \in Shown(Cur(k)) : Working /\ With(shown \/ held, FALSE)
        \/ Failing /\ With(held, FALSE)
        \/ \E shown \in Shown(Cur(k)) : Failing /\ With(shown, TRUE)
     /\ UNCHANGED <<db, there>>

\* Mutant of Find: the row is looked for by its key, and a token without one
\* gets a row more each time.
FindByKey(k) ==
  /\ At(k, "find") /\ Working
  /\ Put(k, [task[k] EXCEPT !.at = "write", !.hit = IF task[k].key THEN FirstId(Cur(k)) ELSE None])
  /\ UNCHANGED <<db, there>>

\* UpsertProviderToken looks for the row again, and again takes an error for none.
Find(k) ==
  /\ At(k, "find")
  /\ \/ Working /\ Put(k, [task[k] EXCEPT !.at = "write", !.hit = FirstId(Cur(k))])
     \/ /\ Failing /\ FirstId(Cur(k)) # None
        /\ Put(k, [task[k] EXCEPT !.at = "write", !.blind = TRUE])
  /\ UNCHANGED <<db, there>>

\* Mutant of AfterWrite: the tokens are not seen to be through.
AfterWriteGoesOn(k) ==
  [task[k] EXCEPT !.at = "lookup", !.todo = @ \ {Cur(k)},
                  !.key = FALSE, !.hit = None, !.blind = FALSE, !.shared = FALSE]

AfterWrite(k) ==
  LET left == task[k].todo \ {Cur(k)}
  IN [task[k] EXCEPT !.at = IF left = {} THEN "clean" ELSE "lookup", !.todo = left,
                     !.key = FALSE, !.hit = None, !.blind = FALSE, !.shared = FALSE]

\* A row that has gone since is not written, and nobody is told.
Write(k) ==
  /\ At(k, "write") /\ Working
  /\ rows' = IF task[k].hit = None
             THEN rows \cup {[id |-> FreshId(Cur(k)), ready |-> task[k].key]}
             ELSE {IF r.id = task[k].hit THEN [r EXCEPT !.ready = task[k].key] ELSE r : r \in rows}
  /\ Touch(k, {Cur(k)}, AfterWrite(k))
  /\ UNCHANGED <<exists, priced, routes, there>>

WriteFails(k) ==
  /\ At(k, "write") /\ Failing /\ GiveUp(k)
  /\ UNCHANGED <<db, there>>

\* Mutant of Clean: an empty list is taken for a list that could not be had.
CleanUnlessEmpty(k) ==
  LET gone == IF task[k].got = {} THEN {} ELSE rows \ OfTokens(task[k].got)
      next == IF task[k].kind = "sync" THEN [Idle EXCEPT !.kind = "sync", !.at = "read"]
                                       ELSE [task[k] EXCEPT !.at = "read", !.moved = FALSE]
  IN /\ At(k, "clean")
     /\ Working /\ rows' = rows \ gone /\ Touch(k, {r.id[1] : r \in gone}, next)
     /\ UNCHANGED <<exists, priced, routes, there>>

\* DeleteProviderTokensNotInIds leaves the routes of the rows it deletes.
Clean(k) ==
  LET gone == rows \ OfTokens(task[k].got)
      next == IF task[k].kind = "sync" THEN [Idle EXCEPT !.kind = "sync", !.at = "read"]
                                       ELSE [task[k] EXCEPT !.at = "read", !.moved = FALSE]
  IN /\ At(k, "clean")
     /\ \/ Working /\ rows' = rows \ gone /\ Touch(k, {r.id[1] : r \in gone}, next)
        \/ Failing /\ gone # {} /\ UNCHANGED rows /\ Put(k, next)
     /\ UNCHANGED <<exists, priced, routes, there>>

\* RebuildProviderRoutes reads the tokens and their prices, and exchanges the
\* routes afterwards.  An error is logged by every caller.
EndRoutes(k) == Put(k, IF task[k].kind = "create"
                       THEN [task[k] EXCEPT !.at = "identify", !.list = {}] ELSE Over(k))

ReadTables(k) ==
  /\ At(k, "read")
  /\ \/ Working /\ Put(k, [task[k] EXCEPT !.at = "commit", !.list = IF priced THEN Runnable ELSE {}])
     \/ Failing /\ EndRoutes(k)
  /\ UNCHANGED <<db, there>>

Commit(k) ==
  /\ At(k, "commit")
  /\ \/ Working /\ routes' = task[k].list
     \/ Failing /\ UNCHANGED routes
  /\ EndRoutes(k)
  /\ UNCHANGED <<exists, priced, rows, there>>

----------------------------------------------------------------------------
(* Creation and deletion of a token by the administrator                    *)

Appears(u, tasks) ==
  /\ made' = u /\ upstream' = upstream \cup {u}
  /\ task' = tasks

\* CreateUpstreamToken, whose answer may be lost.
Make(k) ==
  LET u == made + 1
  IN /\ At(k, "make") /\ UNCHANGED <<db, reveals>>
     /\ \/ /\ Working /\ made < MaxTokens
           /\ Appears(u, [Passed(task) EXCEPT ![k] = [@ EXCEPT !.at = "list", !.own = u]])
        \/ Failing /\ made < MaxTokens /\ Appears(u, [Passed(task) EXCEPT ![k] = Over(k)])
        \/ /\ IF made = MaxTokens THEN Working ELSE Failing
           /\ Stop(k) /\ UNCHANGED <<made, upstream>>

\* Mutant of Identified: the newest of the new tokens is the own one.
IdentifiedNewest(k, alike, told) ==
  LET new == task[k].got \ task[k].before
  IN IF new = {} THEN 0 ELSE Greatest(new)

\* identifyCreatedUpstreamTokenID.  "alike" are the tokens with the attributes
\* asked for; the answer of CreateUpstreamToken has told the new one or not.
Identified(k, alike, told) ==
  LET new == task[k].got \ task[k].before
      fit == new \cap alike
  IN IF Cardinality(new) = 1 THEN Greatest(new)
     ELSE IF Cardinality(fit) = 1 THEN Greatest(fit)
     ELSE IF told /\ task[k].own \in task[k].got THEN task[k].own
     ELSE 0

\* The administrator is answered.
Identify(k) ==
  /\ At(k, "identify") /\ Working /\ Stop(k)
  /\ UNCHANGED <<db, there>>

\* DeleteUpstreamToken tries two paths and fails when both do: also when the
\* token is gone, or when it has just gone and the answer was lost.
Remove(k) ==
  LET u == Greatest(task[k].got)
  IN /\ At(k, "gone")
     /\ UNCHANGED <<db, made, reveals>>
     /\ \/ /\ Working /\ exists /\ u \in upstream
           /\ upstream' = upstream \ {u}
           /\ task' = Passed([task EXCEPT ![k] = [@ EXCEPT !.at = "unroute", !.got = {}]])
        \/ /\ Failing /\ exists /\ u \in upstream
           /\ upstream' \in {upstream, upstream \ {u}}
           /\ task' = IF upstream' = upstream THEN [task EXCEPT ![k] = Over(k)]
                                              ELSE Passed([task EXCEPT ![k] = Over(k)])
        \/ /\ Working /\ ~(exists /\ u \in upstream)
           /\ Stop(k) /\ UNCHANGED upstream

\* ProviderToken.Delete: two statements, no transaction.
Unroute(k) ==
  /\ At(k, "unroute")
  /\ \/ Working /\ routes' = routes \ {task[k].hit} /\ Go(k, "unrow")
     \/ Failing /\ UNCHANGED routes /\ Stop(k)
  /\ UNCHANGED <<exists, priced, rows, there>>

Unrow(k) ==
  LET gone == RowOf(task[k].hit)
  IN /\ At(k, "unrow")
     /\ \/ Working /\ rows' = rows \ gone /\ Touch(k, {r.id[1] : r \in gone}, Over(k))
        \/ Failing /\ UNCHANGED rows /\ Stop(k)
     /\ UNCHANGED <<exists, priced, routes, there>>

\* Provider.Delete, one transaction.
RemoveProvider ==
  /\ exists
  /\ exists' = FALSE /\ priced' = FALSE
  /\ rows' = {} /\ routes' = {}
  /\ task' = [k \in Workers |->
                IF task[k].at \in {"find", "write"}
                THEN [task[k] EXCEPT !.shared = TRUE] ELSE task[k]]
  /\ UNCHANGED <<there, faults>>

----------------------------------------------------------------------------
(* The upstream and the clock                                               *)

TokenAppears ==
  /\ made < MaxTokens
  /\ Appears(made + 1, Passed(task))
  /\ UNCHANGED <<db, reveals, faults>>

TokenVanishes ==
  /\ Failing
  /\ \E u \in upstream : upstream' = upstream \ {u}
  /\ task' = Passed(task)
  /\ UNCHANGED <<db, made, reveals>>

UpstreamChangesMind ==
  /\ Failing /\ reveals' = ~reveals
  /\ UNCHANGED <<db, upstream, made, task>>

Step(k) ==
  \/ ReadPage(k) \/ ReadBefore(k) \/ ListFails(k)
  \/ Reconcile(k) \/ Find(k) \/ Write(k) \/ WriteFails(k) \/ Clean(k)
  \/ ReadTables(k) \/ Commit(k)
  \/ Make(k) \/ Identify(k) \/ Remove(k) \/ Unroute(k) \/ Unrow(k)

Next ==
  \/ \E k \in Workers : Step(k) \/ Start(k)
  \/ \E k \in Admins : RebuildStart(k) \/ CreateStart(k) \/ DeleteStart(k)
  \/ RemoveProvider
  \/ TokenAppears \/ TokenVanishes \/ UpstreamChangesMind

SafeSpec == Init /\ [][Next]_vars

\* A goroutine goes on (the client has a time limit), and the ticker ticks: a
\* provider that is out of use is taken up again when its cooldown ends.
Fairness ==
  /\ \A k \in Workers : WF_vars(Step(k))
  /\ \A k \in Cycles : WF_vars(Start(k))

Spec == SafeSpec /\ Fairness

----------------------------------------------------------------------------
(* Properties                                                               *)

\* The rows stand for tokens that were made, every worker is where the code can
\* be, and one that reconciles has a token to reconcile.
TypeOK ==
  /\ {exists, priced, reveals} \subseteq BOOLEAN
  /\ rows \subseteq Rows /\ routes \subseteq Ids
  /\ made \in 0 .. MaxTokens
  /\ upstream \subseteq 1 .. made
  /\ task \in [Workers -> Tasks]
  /\ \A k \in Workers : task[k].at \in {"lookup", "find", "write"} => task[k].todo # {}
  /\ faults \in 0 .. MaxFaults

\* A row loses the key it holds (sync.go:290), and a token that has a row gets
\* one more, only from a synchronisation whose look-up failed, or that has been
\* overtaken by another since its look-up: a key that the upstream has begun to
\* hide is otherwise kept, and the row is found again.
RowsKept ==
  [][\A s \in rows' :
       \/ \E r \in rows : r.id = s.id /\ ~(r.ready /\ ~s.ready)
       \/ OfTokens({s.id[1]}) = {}
       \/ \E k \in Workers : /\ At(k, "write") /\ task'[k].at # "write" /\ Cur(k) = s.id[1]
                             /\ task[k].blind \/ task[k].shared]_vars

\* The clean-up of a synchronisation (sync.go:328) deletes the row of a token
\* that the upstream still has only when a token came or went while it was at
\* work: the pages of the list, however they end, leave nothing out.
CleanupTakesTheGone ==
  [][\A k \in Workers :
       At(k, "clean") /\ ~task[k].moved /\ task'[k].at # "clean" /\ exists' = exists =>
         \A r \in rows \ rows' : r.id[1] \notin upstream]_vars

\* A creation may say that it does not know which token is the new one
\* (sync.go:354), and when its own is in the list it names no other.
IdentifiedIsOwn ==
  \A k \in Workers :
    At(k, "identify") /\ task[k].own \in task[k].got =>
      \A others \in SUBSET task[k].got, told \in BOOLEAN :
        Identified(k, others \cup {task[k].own}, told) \in {0, task[k].own}

\* Once nothing fails, nothing changes and no two goroutines are at work on the
\* provider at once, the rows come to stand for the tokens of the upstream, and
\* the rows with a key, no others, to have routes: whatever failed or was
\* overtaken before in sync.go:43 is made good by a later cycle.
Settled ==
  exists => /\ {r.id[1] : r \in rows} = upstream
            /\ routes = Runnable
Apart     == \A j, k \in Workers : j = k \/ {task[j].at, task[k].at} \cap {"idle", "over"} # {}
Converges == <>[]Apart => <>[]Settled
=============================================================================
