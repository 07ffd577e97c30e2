---------------------------- MODULE RelayProofs ----------------------------
(***************************************************************************)
(* Proofs about Relay, for any number of requests, routes, providers and   *)
(* stream lines.                                                           *)
(***************************************************************************)
EXTENDS Relay, FiniteSetTheorems, TLAPS

(***************************************************************************)
(* A plan is a sequence of routes without repetition, highest priority     *)
(* first: what BuildRouteAttemptsByPriority returns for a set of routes.   *)
(***************************************************************************)
LEMMA PlansAreSorted ==
  ASSUME NEW S \in SUBSET Routes, NEW p \in Plans(S)
  PROVE  /\ p \in Seq(Routes)
         /\ \A i, j \in 1 .. Len(p) : i < j => PriorityOf[p[i]] >= PriorityOf[p[j]]
<1>1. Cardinality(S) \in Nat
  BY RelayAssumption, FS_Subset, FS_CardinalityType
<1>2. p \in [1 .. Cardinality(S) -> Routes]
  BY DEF Plans
<1>3. p \in Seq(Routes) /\ Len(p) = Cardinality(S)
  BY <1>1, <1>2
<1> QED
  BY <1>3 DEF Plans

LEMMA NotEmpty ==
  ASSUME NEW s, Len(s) # 0
  PROVE  s # <<>>
OBVIOUS

(* What the helpers do to the sequences they extend. *)
LEMMA WriteEffect ==
  ASSUME TypeOK, NEW r \in Requests, NEW from \in Nat,
         NEW whats \in Seq(Kinds \cup {"head", "error"}),
         Write(r, from, whats)
  PROVE  /\ client' \in [Requests -> Seq(Writes)]
         /\ \A q \in Requests \ {r} : client'[q] = client[q]
         /\ Len(client'[r]) = Len(client[r]) + Len(whats)
         /\ \A i \in 1 .. Len(client[r]) : client'[r][i] = client[r][i]
         /\ \A i \in 1 .. Len(whats) :
               client'[r][Len(client[r]) + i] = [from |-> from, what |-> whats[i]]
<1> DEFINE new == [i \in 1 .. Len(whats) |-> [from |-> from, what |-> whats[i]]]
<1>1. new \in Seq(Writes) /\ Len(new) = Len(whats)
  BY DEF Writes
<1>2. client[r] \in Seq(Writes)
  BY DEF TypeOK
<1>3. client' = [client EXCEPT ![r] = client[r] \o new]
  BY DEF Write, TypeOK
<1>4. /\ client[r] \o new \in Seq(Writes)
      /\ Len(client[r] \o new) = Len(client[r]) + Len(whats)
      /\ \A i \in 1 .. Len(client[r]) : (client[r] \o new)[i] = client[r][i]
      /\ \A i \in 1 .. Len(whats) : (client[r] \o new)[Len(client[r]) + i] = new[i]
  <2> HIDE DEF new
  <2> QED BY <1>1, <1>2
<1>5. client'[r] = client[r] \o new
  BY <1>3 DEF TypeOK
<1> HIDE DEF new
<1>6. \A i \in 1 .. Len(whats) : new[i] = [from |-> from, what |-> whats[i]]
  BY DEF new
<1> QED
  BY <1>3, <1>4, <1>5, <1>6 DEF TypeOK

LEMMA LogEffect ==
  ASSUME TypeOK, NEW r \in Requests, NEW status \in {0, 1}, NEW category \in Categories,
         idx[r] \in 1 .. Len(plan[r]),
         Log(r, status, category)
  PROVE  /\ logs' \in [Requests -> Seq(Records)]
         /\ \A q \in Requests \ {r} : logs'[q] = logs[q]
         /\ Len(logs'[r]) = Len(logs[r]) + 1
         /\ \A k \in 1 .. Len(logs[r]) : logs'[r][k] = logs[r][k]
         /\ logs'[r][Len(logs[r]) + 1] =
               [index |-> idx[r], route |-> Route(r), status |-> status,
                category |-> category, mode |-> vmode[r]]
<1> DEFINE rec == [index |-> idx[r], route |-> Route(r), status |-> status,
                   category |-> category, mode |-> vmode[r]]
<1>1. rec \in Records
  BY DEF TypeOK, Records, Route
<1>2. logs[r] \in Seq(Records)
  BY DEF TypeOK
<1>3. logs' = [logs EXCEPT ![r] = Append(logs[r], rec)]
  BY DEF Log, TypeOK
<1> HIDE DEF rec
<1>4. logs'[r] = Append(logs[r], rec)
  BY <1>3 DEF TypeOK
<1> QED
  BY <1>1, <1>2, <1>3, <1>4 DEF TypeOK, rec

-----------------------------------------------------------------------------
(***************************************************************************)
(* Frames.  A step of one request leaves the others as they were, and no   *)
(* step forgets a usage record.                                            *)
(***************************************************************************)
Untouched(q) ==
  /\ pc'[q] = pc[q] /\ idx'[q] = idx[q] /\ plan'[q] = plan[q] /\ vmode'[q] = vmode[q]
  /\ committed'[q] = committed[q] /\ meaningful'[q] = meaningful[q]
  /\ buffer'[q] = buffer[q] /\ client'[q] = client[q] /\ logs'[q] = logs[q]

LEMMA LocalFrame ==
  ASSUME NEW q \in Requests, Local(q), Untouched(q)
  PROVE  Local(q)'
<1>1. Progress(q)'
  BY SMTT(20) DEF Local, Untouched, Progress
<1>2. Answering(q)'
  BY SMTT(20) DEF Local, Untouched, Answering
<1>3. Streaming(q)'
  BY SMTT(20) DEF Local, Untouched, Streaming
<1>4. Recorded(q)'
  BY SMTT(20) DEF Local, Untouched, Recorded
<1> QED
  BY <1>1, <1>2, <1>3, <1>4 DEF Local

RecordsKept ==
  \A q \in Requests :
     /\ Len(logs[q]) <= Len(logs'[q])
     /\ \A k \in 1 .. Len(logs[q]) : logs'[q][k] = logs[q][k]

LEMMA EvidenceFrame ==
  ASSUME TypeOK, TypeOK', UnreachableHasEvidence, RecordsKept,
         \A p \in Providers : health'[p] = "healthy" \/ health[p] # "healthy"
  PROVE  UnreachableHasEvidence'
<1> SUFFICES ASSUME NEW p \in Providers, health'[p] # "healthy"
             PROVE  \E r \in Requests : \E k \in 1 .. Len(logs'[r]) :
                       /\ ProviderOf[logs'[r][k].route] = p
                       /\ logs'[r][k].category \in {"transport", "upstream"}
  BY DEF UnreachableHasEvidence
<1> DEFINE Shows(r, k) == /\ ProviderOf[logs[r][k].route] = p
                        /\ logs[r][k].category \in {"transport", "upstream"}
<1>0. PICK r \in Requests : \E k \in 1 .. Len(logs[r]) : Shows(r, k)
  BY DEF UnreachableHasEvidence
<1>1. PICK k \in 1 .. Len(logs[r]) : Shows(r, k)
  BY <1>0
<1>2. Len(logs[r]) \in Nat /\ Len(logs'[r]) \in Nat
  BY DEF TypeOK
<1>3. k \in 1 .. Len(logs'[r]) /\ logs'[r][k] = logs[r][k]
  BY <1>2 DEF RecordsKept
<1> QED
  BY <1>1, <1>3

\* What a step of r has to show besides leaving the other requests alone.
LEMMA StepOfOne ==
  ASSUME IInv, NEW r \in Requests, TypeOK', Local(r)', RecordsKept,
         \A q \in Requests \ {r} : Untouched(q),
         \A p \in Providers : health'[p] = "healthy" \/ health[p] # "healthy"
  PROVE  IInv'
<1>1. \A q \in Requests : Local(q)'
  BY LocalFrame DEF IInv
<1>2. UnreachableHasEvidence'
  BY EvidenceFrame DEF IInv
<1> QED
  BY <1>1, <1>2 DEF IInv

LEMMA SameRecordsKept ==
  ASSUME TypeOK, logs' = logs
  PROVE  RecordsKept
BY DEF RecordsKept, TypeOK

LEMMA SameHealth ==
  ASSUME TypeOK, health' = health
  PROVE  \A p \in Providers : health'[p] = "healthy" \/ health[p] # "healthy"
OBVIOUS

(***************************************************************************)
(* The two ways an attempt ends without an answer: it is recorded and the  *)
(* next route is tried, or the handler gives up with an error document.    *)
(***************************************************************************)
LEMMA RetryStep ==
  ASSUME IInv, NEW r \in Requests, pc[r] \in {"send", "stream"}, client[r] = <<>>,
         NEW category \in Categories, NEW next \in {"attempt", "markFailure"},
         next = "markFailure" => category \in {"transport", "upstream"},
         Retry(r, category, next), ReturnFromStream(r),
         UNCHANGED <<guardMode, legacyGuard, health, request, idx, vmode, client>>
  PROVE  IInv'
<1>1. /\ idx[r] \in 1 .. Len(plan[r]) /\ idx[r] \in Nat
      /\ Len(logs[r]) = idx[r] - 1 /\ Len(logs[r]) \in Nat
  BY DEF IInv, Local, Progress, Recorded, TypeOK
<1>2. /\ logs' \in [Requests -> Seq(Records)]
      /\ \A q \in Requests \ {r} : logs'[q] = logs[q]
      /\ Len(logs'[r]) = Len(logs[r]) + 1
      /\ \A k \in 1 .. Len(logs[r]) : logs'[r][k] = logs[r][k]
      /\ logs'[r][Len(logs[r]) + 1] =
            [index |-> idx[r], route |-> Route(r), status |-> 0,
             category |-> category, mode |-> vmode[r]]
  BY <1>1, LogEffect DEF IInv, Retry
<1>3. pc' = [pc EXCEPT ![r] = next]
  BY DEF Retry, GoTo
<1>4. TypeOK'
  BY <1>2, <1>3 DEF IInv, TypeOK, ReturnFromStream, request, Labels
<1>5. Local(r)'
  <2>0. /\ pc'[r] = next
        /\ idx'[r] = idx[r] /\ plan'[r] = plan[r] /\ vmode'[r] = vmode[r]
        /\ client'[r] = <<>>
        /\ committed'[r] = FALSE /\ meaningful'[r] = FALSE /\ buffer'[r] = <<>>
    BY <1>3 DEF IInv, TypeOK, ReturnFromStream, request
  <2>1. Progress(r)' /\ Answering(r)' /\ Streaming(r)'
    <3>1. Progress(r)
      BY DEF IInv, Local
    <3>2. Progress(r)'
      BY <1>1, <2>0, <3>1 DEF Progress
    <3>3. Answering(r)'
      BY <2>0 DEF Answering
    <3>4. Streaming(r)'
      BY <2>0 DEF Streaming
    <3> QED
      BY <3>2, <3>3, <3>4
  <2>2. /\ Len(logs'[r]) = idx[r]
        /\ \A k \in 1 .. Len(logs[r]) :
              /\ logs[r][k].index = k
              /\ logs[r][k].route = plan[r][k]
              /\ logs[r][k].status # 1
    <3>1. \A k \in 1 .. Len(logs[r]) :
              /\ logs[r][k].index = k
              /\ logs[r][k].route = plan[r][k]
              /\ logs[r][k].status # 1
      BY DEF IInv, Local, Recorded
    <3> QED
      BY <1>1, <1>2, <3>1
  <2>3. \A k \in 1 .. Len(logs'[r]) :
              /\ logs'[r][k].index = k
              /\ logs'[r][k].route = plan[r][k]
              /\ logs'[r][k].status # 1
    <3> SUFFICES ASSUME NEW k \in 1 .. Len(logs'[r])
                 PROVE  /\ logs'[r][k].index = k
                        /\ logs'[r][k].route = plan[r][k]
                        /\ logs'[r][k].status # 1
      OBVIOUS
    <3>1. k \in 1 .. Len(logs[r]) \/ k = Len(logs[r]) + 1
      BY <1>1, <1>2
    <3>2. CASE k \in 1 .. Len(logs[r])
      BY <1>2, <2>2, <3>2
    <3>3. CASE k = Len(logs[r]) + 1
      BY <1>1, <1>2, <3>3 DEF Route
    <3> QED
      BY <3>1, <3>2, <3>3
  <2>4. logs'[r][idx[r]].category = category
    BY <1>1, <1>2 DEF IInv, TypeOK
  <2>7. Recorded(r)'
    BY <1>1, <2>0, <2>2, <2>3, <2>4 DEF Recorded
  <2> QED
    BY <2>1, <2>7 DEF Local
<1>6. \A q \in Requests \ {r} : Untouched(q)
  BY <1>2, <1>3 DEF IInv, TypeOK, Untouched, ReturnFromStream, request
<1>7. RecordsKept
  <2>1. \A q \in Requests : Len(logs[q]) \in Nat
    BY DEF IInv, TypeOK
  <2> QED
    BY <1>2, <2>1 DEF RecordsKept
<1> QED
  BY <1>4, <1>5, <1>6, <1>7, StepOfOne, SameHealth

LEMMA RefuseStep ==
  ASSUME IInv, NEW r \in Requests,
         pc[r] \in {"check", "plan", "attempt", "send"},
         Refuse(r),
         UNCHANGED <<guardMode, legacyGuard, health, request, idx, vmode, stream, logs>>
  PROVE  IInv'
<1>1. Local(r) /\ client[r] = <<>> /\ Len(client[r]) = 0
  BY DEF IInv, Local, Answering
<1>3. /\ client' \in [Requests -> Seq(Writes)]
      /\ \A q \in Requests \ {r} : client'[q] = client[q]
      /\ Len(client'[r]) = 1
      /\ client'[r][1] = [from |-> 0, what |-> "error"]
  <2> DEFINE whats == <<"error">>
  <2>1. Write(r, 0, whats)
    BY DEF Refuse
  <2>2. whats \in Seq(Kinds \cup {"head", "error"}) /\ Len(whats) = 1 /\ whats[1] = "error"
    OBVIOUS
  <2> HIDE DEF whats
  <2>3. /\ client' \in [Requests -> Seq(Writes)]
        /\ \A q \in Requests \ {r} : client'[q] = client[q]
        /\ Len(client'[r]) = Len(client[r]) + Len(whats)
        /\ \A i \in 1 .. Len(whats) :
              client'[r][Len(client[r]) + i] = [from |-> 0, what |-> whats[i]]
    <3>1. TypeOK /\ 0 \in Nat
      BY DEF IInv
    <3> QED
      BY <2>1, <2>2, <3>1, WriteEffect, Zenon
  <2>4. 1 \in 1 .. Len(whats)
    BY <2>2
  <2>5. client'[r][Len(client[r]) + 1] = [from |-> 0, what |-> whats[1]]
    BY <2>3, <2>4, Zenon
  <2>6. Len(client[r]) + 1 = 1
    BY <1>1
  <2> QED
    BY <1>1, <2>2, <2>3, <2>5, <2>6
<1>4. pc' = [pc EXCEPT ![r] = "done"]
  BY DEF Refuse, GoTo
<1>5. TypeOK'
  BY <1>3, <1>4 DEF IInv, TypeOK, request, stream, Labels
<1>6. Local(r)'
  <2>1. /\ pc'[r] = "done"
        /\ idx'[r] = idx[r] /\ plan'[r] = plan[r] /\ vmode'[r] = vmode[r] /\ logs'[r] = logs[r]
        /\ ~committed'[r] /\ ~meaningful'[r] /\ buffer'[r] = <<>>
    BY <1>1, <1>4 DEF IInv, TypeOK, request, stream, Local, Streaming
  <2>2. client'[r] # <<>>
    <3>1. Len(client'[r]) # 0
      BY <1>3
    <3> QED
      BY <3>1, NotEmpty, Zenon
  <2>3. Progress(r)'
    BY <1>1, <2>1 DEF Local, Progress
  <2>4. Answering(r)'
    BY <1>3, <2>1, <2>2 DEF Answering
  <2>5. Streaming(r)'
    BY <1>3, <2>1 DEF Streaming
  <2>6. Recorded(r)'
    BY <1>1, <1>3, <2>1 DEF Local, Recorded
  <2> QED
    BY <2>3, <2>4, <2>5, <2>6 DEF Local
<1>7. \A q \in Requests \ {r} : Untouched(q)
  BY <1>3, <1>4 DEF IInv, TypeOK, Untouched, request, stream
<1> QED
  BY <1>5, <1>6, <1>7, StepOfOne, SameRecordsKept, SameHealth DEF IInv

(***************************************************************************)
(* The steps that write nothing and record nothing.                        *)
(***************************************************************************)
BlamesOnlyRoute(r) ==
  \A p \in Providers :
     \/ health'[p] = "healthy"
     \/ health[p] # "healthy"
     \/ (pc[r] = "markFailure" /\ p = ProviderOf[Route(r)])

LEMMA QuietStep ==
  ASSUME IInv, NEW r \in Requests, TypeOK',
         pc[r] \in {"idle", "check", "plan", "attempt", "markFailure"},
         pc'[r] \in {"check", "plan", "attempt", "send"},
         Progress(r)',
         idx'[r] = IF pc'[r] = "send" THEN idx[r] + 1 ELSE idx[r],
         \A i \in 1 .. idx[r] : plan'[r][i] = plan[r][i],
         \A q \in Requests \ {r} : Untouched(q),
         BlamesOnlyRoute(r),
         UNCHANGED <<stream, client, logs>>
  PROVE  IInv'
<1>1. /\ Local(r) /\ client[r] = <<>> /\ Len(client[r]) = 0
      /\ idx[r] \in Nat /\ Len(logs[r]) \in Nat
  BY DEF IInv, TypeOK, Local, Answering
<1>2. /\ client'[r] = <<>> /\ logs'[r] = logs[r]
      /\ ~committed'[r] /\ ~meaningful'[r] /\ buffer'[r] = <<>>
  BY <1>1 DEF stream, Local, Streaming
<1>3. Answering(r)'
  BY <1>2 DEF Answering
<1>4. Streaming(r)'
  BY <1>2 DEF Streaming
<1>5. Recorded(r)'
  <2>1. Recorded(r) /\ Len(logs[r]) = idx[r]
    BY <1>1 DEF Local, Recorded
  <2>2. \A k \in 1 .. Len(logs'[r]) :
           logs'[r][k].index = k /\ logs'[r][k].route = plan'[r][k] /\ logs'[r][k].status # 1
    BY <1>2, <2>1 DEF Recorded
  <2> QED
    BY <1>1, <1>2, <2>1, <2>2 DEF Recorded
<1>6. Local(r)'
  BY <1>3, <1>4, <1>5 DEF Local
<1>7. \A q \in Requests : Local(q)'
  BY <1>6, LocalFrame DEF IInv
<1>8. UnreachableHasEvidence'
  <2>1. logs' = logs /\ (\A q \in Requests : Len(logs[q]) \in Nat)
    BY DEF IInv, TypeOK
  <2>2. CASE pc[r] # "markFailure"
    BY <2>1, <2>2, EvidenceFrame, SameRecordsKept DEF IInv, BlamesOnlyRoute
  <2>3. CASE pc[r] = "markFailure"
    <3>1. /\ idx[r] \in 1 .. Len(logs[r])
          /\ logs[r][idx[r]].route = Route(r)
          /\ logs[r][idx[r]].category \in {"transport", "upstream"}
      BY <1>1, <2>3 DEF Local, Progress, Recorded, Route
    <3> QED
      BY <2>1, <3>1 DEF IInv, UnreachableHasEvidence, BlamesOnlyRoute
  <2> QED
    BY <2>2, <2>3
<1> QED
  BY <1>7, <1>8 DEF IInv

LEMMA ArriveStep ==
  ASSUME IInv, NEW r \in Requests, Arrive(r)
  PROVE  IInv'
<1>1. TypeOK'
  BY RelayAssumption DEF IInv, TypeOK, Arrive, GoTo, Labels, stream
<1>2. /\ pc[r] = "idle" /\ pc'[r] = "check"
      /\ idx' = idx /\ plan' = plan /\ health' = health
      /\ UNCHANGED <<stream, client, logs>>
      /\ \A q \in Requests \ {r} : Untouched(q)
  BY DEF IInv, TypeOK, Arrive, GoTo, Untouched, stream
<1>3. Progress(r)'
  BY <1>2 DEF IInv, Local, Progress
<1>4. /\ idx'[r] = IF pc'[r] = "send" THEN idx[r] + 1 ELSE idx[r]
      /\ \A i \in 1 .. idx[r] : plan'[r][i] = plan[r][i]
      /\ BlamesOnlyRoute(r)
      /\ pc[r] \in {"idle", "check", "plan", "attempt", "markFailure"}
      /\ pc'[r] \in {"check", "plan", "attempt", "send"}
  BY <1>2 DEF BlamesOnlyRoute
<1> QED
  BY <1>1, <1>2, <1>3, <1>4, QuietStep, Zenon

LEMMA CheckWhitelistStep ==
  ASSUME IInv, NEW r \in Requests, CheckWhitelist(r)
  PROVE  IInv'
<1>1. CASE Refuse(r)
  BY <1>1, RefuseStep DEF CheckWhitelist
<1>2. CASE GoTo(r, "plan") /\ UNCHANGED client
  <2>1. TypeOK'
    BY <1>2 DEF IInv, TypeOK, CheckWhitelist, GoTo, Labels, stream, request
  <2>2. /\ pc[r] = "check" /\ pc'[r] = "plan"
        /\ idx' = idx /\ plan' = plan /\ health' = health
        /\ UNCHANGED <<stream, client, logs>>
        /\ \A q \in Requests \ {r} : Untouched(q)
    BY <1>2 DEF IInv, TypeOK, CheckWhitelist, GoTo, Untouched, stream, request
  <2>3. Progress(r)'
    BY <2>2 DEF IInv, Local, Progress
  <2>4. /\ idx'[r] = IF pc'[r] = "send" THEN idx[r] + 1 ELSE idx[r]
        /\ \A i \in 1 .. idx[r] : plan'[r][i] = plan[r][i]
        /\ BlamesOnlyRoute(r)
        /\ pc[r] \in {"idle", "check", "plan", "attempt", "markFailure"}
        /\ pc'[r] \in {"check", "plan", "attempt", "send"}
    BY <2>2 DEF BlamesOnlyRoute
  <2> QED
    BY <2>1, <2>2, <2>3, <2>4, QuietStep, Zenon
<1> QED
  BY <1>1, <1>2 DEF CheckWhitelist

LEMMA BuildPlanStep ==
  ASSUME IInv, NEW r \in Requests, BuildPlan(r)
  PROVE  IInv'
<1> DEFINE candidates == RoutesOf[planName[r]]
           eligible(excluded) ==
             {x \in candidates \ excluded : ~HealthBlocked(ProviderOf[x])}
<1>0. candidates \in SUBSET Routes
  BY RelayAssumption DEF IInv, TypeOK
<1>1. CASE Refuse(r) /\ UNCHANGED <<planName, plan>>
  <2>1. pc[r] = "plan" /\ UNCHANGED <<guardMode, legacyGuard, health, request, idx, vmode, stream, logs>>
    BY <1>1 DEF BuildPlan, request
  <2> QED
    BY <1>1, <2>1, RefuseStep
<1>2. ASSUME NEW excluded \in SUBSET candidates, NEW p \in Plans(eligible(excluded)),
             plan' = [plan EXCEPT ![r] = p], GoTo(r, "attempt"),
             UNCHANGED <<planName, client>>
      PROVE  IInv'
  <2> DEFINE S == eligible(excluded)
  <2>1. S \in SUBSET Routes
    BY <1>0
  <2> HIDE DEF S
  <2>2. p \in Plans(S)
    BY <1>2 DEF S
  <2>3. /\ p \in Seq(Routes)
        /\ \A i, j \in 1 .. Len(p) : i < j => PriorityOf[p[i]] >= PriorityOf[p[j]]
    BY <2>1, <2>2, PlansAreSorted
  <2>4. TypeOK'
    BY <1>2, <2>3 DEF IInv, TypeOK, BuildPlan, GoTo, Labels, stream
  <2>5. /\ pc[r] = "plan" /\ pc'[r] = "attempt" /\ plan'[r] = p
        /\ idx' = idx /\ health' = health /\ idx[r] = 0
        /\ UNCHANGED <<stream, client, logs>>
        /\ \A q \in Requests \ {r} : Untouched(q)
    BY <1>2 DEF IInv, TypeOK, BuildPlan, GoTo, Untouched, stream, Local, Progress
  <2>6. Progress(r)'
    BY <2>3, <2>5 DEF Progress
  <2>7. /\ idx'[r] = IF pc'[r] = "send" THEN idx[r] + 1 ELSE idx[r]
        /\ \A i \in 1 .. idx[r] : plan'[r][i] = plan[r][i]
        /\ BlamesOnlyRoute(r)
        /\ pc[r] \in {"idle", "check", "plan", "attempt", "markFailure"}
        /\ pc'[r] \in {"check", "plan", "attempt", "send"}
    BY <2>5 DEF BlamesOnlyRoute
  <2> QED
    BY <2>4, <2>5, <2>6, <2>7, QuietStep, Zenon
<1>3. CASE planName' = [planName EXCEPT ![r] = requested[r]] /\ UNCHANGED <<pc, plan, client>>
  <2>1. TypeOK'
    BY <1>3 DEF IInv, TypeOK, BuildPlan, stream
  <2>2. /\ pc[r] = "plan" /\ pc'[r] = "plan"
        /\ idx' = idx /\ plan' = plan /\ health' = health
        /\ UNCHANGED <<stream, client, logs>>
        /\ \A q \in Requests \ {r} : Untouched(q)
    BY <1>3 DEF IInv, TypeOK, BuildPlan, Untouched, stream
  <2>3. Progress(r)'
    BY <2>2 DEF IInv, Local, Progress
  <2>4. /\ idx'[r] = IF pc'[r] = "send" THEN idx[r] + 1 ELSE idx[r]
        /\ \A i \in 1 .. idx[r] : plan'[r][i] = plan[r][i]
        /\ BlamesOnlyRoute(r)
        /\ pc[r] \in {"idle", "check", "plan", "attempt", "markFailure"}
        /\ pc'[r] \in {"check", "plan", "attempt", "send"}
    BY <2>2 DEF BlamesOnlyRoute
  <2> QED
    BY <2>1, <2>2, <2>3, <2>4, QuietStep, Zenon
<1> QED
  BY <1>1, <1>2, <1>3 DEF BuildPlan

LEMMA StartAttemptStep ==
  ASSUME IInv, NEW r \in Requests, StartAttempt(r)
  PROVE  IInv'
<1>1. ValidityMode \in Modes
  BY DEF IInv, TypeOK, ValidityMode, Modes
<1>2. TypeOK'
  BY <1>1 DEF IInv, TypeOK, StartAttempt, GoTo, Labels, stream, request
<1>3. /\ pc[r] = "attempt" /\ pc'[r] = "send" /\ idx[r] < Len(plan[r])
      /\ idx'[r] = idx[r] + 1 /\ plan' = plan /\ health' = health
      /\ idx[r] \in Nat /\ Len(plan[r]) \in Nat
      /\ UNCHANGED <<stream, client, logs>>
      /\ \A q \in Requests \ {r} : Untouched(q)
  BY DEF IInv, TypeOK, StartAttempt, GoTo, Untouched, stream, request
<1>4. Progress(r)'
  BY <1>3 DEF IInv, Local, Progress
<1>5. /\ idx'[r] = IF pc'[r] = "send" THEN idx[r] + 1 ELSE idx[r]
      /\ \A i \in 1 .. idx[r] : plan'[r][i] = plan[r][i]
      /\ BlamesOnlyRoute(r)
      /\ pc[r] \in {"idle", "check", "plan", "attempt", "markFailure"}
      /\ pc'[r] \in {"check", "plan", "attempt", "send"}
  BY <1>3 DEF BlamesOnlyRoute
<1> QED
  BY <1>2, <1>3, <1>4, <1>5, QuietStep, Zenon

LEMMA MarkHealthFailureStep ==
  ASSUME IInv, NEW r \in Requests, MarkHealthFailure(r)
  PROVE  IInv'
<1>1. TypeOK'
  BY DEF IInv, TypeOK, MarkHealthFailure, GoTo, Labels, Healths, stream, request
<1>2. /\ pc[r] = "markFailure" /\ pc'[r] = "attempt"
      /\ idx' = idx /\ plan' = plan
      /\ UNCHANGED <<stream, client, logs>>
      /\ \A q \in Requests \ {r} : Untouched(q)
  BY DEF IInv, TypeOK, MarkHealthFailure, GoTo, Untouched, stream, request
<1>3. Progress(r)'
  BY <1>2 DEF IInv, Local, Progress
<1>4. BlamesOnlyRoute(r)
  BY <1>2 DEF MarkHealthFailure, BlamesOnlyRoute, IInv, TypeOK
<1>5. /\ idx'[r] = IF pc'[r] = "send" THEN idx[r] + 1 ELSE idx[r]
      /\ \A i \in 1 .. idx[r] : plan'[r][i] = plan[r][i]
      /\ pc[r] \in {"idle", "check", "plan", "attempt", "markFailure"}
      /\ pc'[r] \in {"check", "plan", "attempt", "send"}
  BY <1>2
<1> QED
  BY <1>1, <1>2, <1>3, <1>4, <1>5, QuietStep, Zenon

(***************************************************************************)
(* The steps of an attempt.                                                *)
(***************************************************************************)
LEMMA SendingIsSilent ==
  ASSUME IInv, NEW r \in Requests, pc[r] = "send"
  PROVE  /\ client[r] = <<>>
         /\ UNCHANGED stream => ReturnFromStream(r)
<1>1. /\ client[r] = <<>>
      /\ ~committed[r] /\ ~meaningful[r] /\ buffer[r] = <<>>
  BY DEF IInv, Local, Answering, Streaming
<1>2. /\ committed \in [Requests -> BOOLEAN]
      /\ meaningful \in [Requests -> BOOLEAN]
      /\ buffer \in [Requests -> Seq(Kinds)]
  BY DEF IInv, TypeOK
<1>3. /\ committed = [committed EXCEPT ![r] = FALSE]
      /\ meaningful = [meaningful EXCEPT ![r] = FALSE]
      /\ buffer = [buffer EXCEPT ![r] = <<>>]
  BY <1>1, <1>2
<1> QED
  BY <1>1, <1>3 DEF ReturnFromStream, stream

LEMMA FailedBeforeStreamStep ==
  ASSUME IInv, NEW r \in Requests, pc[r] = "send",
         NEW category \in Categories, NEW next \in {"attempt", "markFailure"},
         next = "markFailure" => category \in {"transport", "upstream"},
         Retry(r, category, next),
         UNCHANGED <<guardMode, legacyGuard, health, request, idx, vmode, stream, client>>
  PROVE  IInv'
<1>1. client[r] = <<>> /\ ReturnFromStream(r)
  BY SendingIsSilent
<1> QED
  BY <1>1, RetryStep

\* The failures between the start of an attempt and the first line of a stream.
LEMMA SendFailureSteps ==
  ASSUME IInv, NEW r \in Requests,
         CannotForward(r) \/ NoHTTPClient(r) \/ TransportError(r) \/ UpstreamStatus(r)
  PROVE  IInv'
<1>1. CASE CannotForward(r)
  BY <1>1, RefuseStep DEF CannotForward
<1>2. CASE NoHTTPClient(r)
  BY <1>2, FailedBeforeStreamStep DEF NoHTTPClient, Categories
<1>3. CASE TransportError(r)
  BY <1>3, FailedBeforeStreamStep DEF TransportError, Categories
<1>4. CASE UpstreamStatus(r)
  <2>1. /\ pc[r] = "send"
        /\ UNCHANGED <<guardMode, legacyGuard, health, request, idx, vmode, stream, client>>
    BY <1>4 DEF UpstreamStatus
  <2>2. CASE Retry(r, "read_error", "attempt")
    BY <2>1, <2>2, FailedBeforeStreamStep DEF Categories
  <2>3. CASE Retry(r, "upstream", "attempt")
    BY <2>1, <2>3, FailedBeforeStreamStep DEF Categories
  <2>4. CASE Retry(r, "upstream", "markFailure")
    BY <2>1, <2>4, FailedBeforeStreamStep DEF Categories
  <2> QED
    BY <1>4, <2>2, <2>3, <2>4 DEF UpstreamStatus
<1> QED
  BY <1>1, <1>2, <1>3, <1>4

(***************************************************************************)
(* Ends of an attempt that leave an answer with the caller.                *)
(***************************************************************************)

\* The record of the current attempt is the last one, and all others are of
\* failures.
LEMMA FinalRecord ==
  ASSUME IInv, NEW r \in Requests, pc[r] \in {"send", "stream"},
         NEW status \in {0, 1}, NEW category \in Categories,
         status = 1 \/ category = "read_error",
         Log(r, status, category), pc'[r] = "markSuccess",
         UNCHANGED <<request, idx>>,
         client'[r][1].from = idx[r]
  PROVE  /\ Recorded(r)'
         /\ logs' \in [Requests -> Seq(Records)]
         /\ \A q \in Requests \ {r} : logs'[q] = logs[q]
         /\ RecordsKept
<1>1. /\ idx[r] \in 1 .. Len(plan[r]) /\ idx[r] \in Nat
      /\ Len(logs[r]) = idx[r] - 1 /\ Len(logs[r]) \in Nat
      /\ plan' = plan /\ idx' = idx
  BY DEF IInv, Local, Progress, Recorded, TypeOK, request
<1>2. TypeOK
  BY DEF IInv
<1>3. /\ logs' \in [Requests -> Seq(Records)]
      /\ \A q \in Requests \ {r} : logs'[q] = logs[q]
      /\ Len(logs'[r]) = Len(logs[r]) + 1
      /\ \A k \in 1 .. Len(logs[r]) : logs'[r][k] = logs[r][k]
      /\ logs'[r][Len(logs[r]) + 1] =
            [index |-> idx[r], route |-> Route(r), status |-> status,
             category |-> category, mode |-> vmode[r]]
  BY <1>1, <1>2, LogEffect
<1>4. Len(logs'[r]) = idx[r]
  BY <1>1, <1>3
<1>5. \A k \in 1 .. Len(logs[r]) :
              /\ logs[r][k].index = k
              /\ logs[r][k].route = plan[r][k]
              /\ logs[r][k].status # 1
  <2>1. Recorded(r)
    BY DEF IInv, Local
  <2> QED
    BY <2>1 DEF Recorded
<1>6. /\ logs'[r][idx[r]].index = idx[r]
      /\ logs'[r][idx[r]].route = plan[r][idx[r]]
      /\ logs'[r][idx[r]].status = 1 \/ logs'[r][idx[r]].category = "read_error"
  BY <1>1, <1>3 DEF Route
<1>7. \A k \in 1 .. Len(logs'[r]) :
        /\ logs'[r][k].index = k
        /\ logs'[r][k].route = plan[r][k]
        /\ logs'[r][k].status = 1 => k = idx[r]
  <2> SUFFICES ASSUME NEW k \in 1 .. Len(logs'[r])
               PROVE  /\ logs'[r][k].index = k
                      /\ logs'[r][k].route = plan[r][k]
                      /\ logs'[r][k].status = 1 => k = idx[r]
    OBVIOUS
  <2>1. k \in 1 .. Len(logs[r]) \/ k = idx[r]
    BY <1>1, <1>4
  <2>2. CASE k \in 1 .. Len(logs[r])
    BY <1>3, <1>5, <2>2
  <2>3. CASE k = idx[r]
    BY <1>6, <2>3
  <2> QED
    BY <2>1, <2>2, <2>3
<1>8. Recorded(r)'
  BY <1>1, <1>4, <1>6, <1>7 DEF Recorded
<1>9. RecordsKept
  <2>1. \A q \in Requests : Len(logs[q]) \in Nat
    BY DEF IInv, TypeOK
  <2> QED
    BY <1>3, <2>1 DEF RecordsKept
<1> QED
  BY <1>3, <1>8, <1>9

OneSourceAt(r) ==
  \A i \in 1 .. Len(client[r]) :
     /\ client[r][i].from = client[r][1].from
     /\ client[r][i].what \in {"head", "error"} <=> i = 1
     /\ client[r][i].what = "error" <=> client[r][i].from = 0

\* The current attempt is the first to write, and begins with a head.
LEMMA BeginAnswer ==
  ASSUME IInv, NEW r \in Requests, pc[r] \in {"send", "stream"}, client[r] = <<>>,
         NEW whats \in Seq(Kinds \cup {"head", "error"}), Len(whats) # 0,
         whats[1] = "head", \A i \in 2 .. Len(whats) : whats[i] \in Kinds,
         Write(r, idx[r], whats)
  PROVE  /\ client' \in [Requests -> Seq(Writes)]
         /\ \A q \in Requests \ {r} : client'[q] = client[q]
         /\ client'[r] # <<>>
         /\ client'[r][1].from = idx[r]
         /\ Len(client'[r]) = Len(whats)
         /\ \A i \in 1 .. Len(whats) : client'[r][i].what = whats[i]
         /\ OneSourceAt(r)'
<1>1. idx[r] \in Nat /\ idx[r] >= 1 /\ Len(client[r]) = 0 /\ TypeOK /\ Len(whats) \in Nat
  BY DEF IInv, TypeOK, Local, Progress
<1>2. /\ client' \in [Requests -> Seq(Writes)]
      /\ \A q \in Requests \ {r} : client'[q] = client[q]
      /\ Len(client'[r]) = Len(client[r]) + Len(whats)
      /\ \A i \in 1 .. Len(whats) :
            client'[r][Len(client[r]) + i] = [from |-> idx[r], what |-> whats[i]]
  BY <1>1, WriteEffect, ZenonT(60)
<1>3. /\ Len(client'[r]) = Len(whats)
      /\ \A i \in 1 .. Len(whats) : client'[r][i] = [from |-> idx[r], what |-> whats[i]]
  BY <1>1, <1>2
<1>4. client'[r] # <<>>
  BY <1>3, NotEmpty, Zenon
<1>5. /\ \A i \in 1 .. Len(whats) :
            /\ client'[r][i].from = idx[r]
            /\ client'[r][i].what = whats[i]
      /\ client'[r][1].from = idx[r]
  <2>1. \A i \in 1 .. Len(whats) :
            /\ client'[r][i].from = idx[r]
            /\ client'[r][i].what = whats[i]
    <3> TAKE i \in 1 .. Len(whats)
    <3>1. client'[r][i] = [from |-> idx[r], what |-> whats[i]]
      BY <1>3, Zenon
    <3> QED
      BY ONLY <3>1
  <2>2. 1 \in 1 .. Len(whats)
    BY <1>1
  <2> QED
    BY <2>1, <2>2
<1>6. \A i \in 1 .. Len(whats) : whats[i] # "error" /\ (whats[i] = "head" <=> i = 1)
  BY <1>1 DEF Kinds
<1>7. OneSourceAt(r)'
  BY <1>1, <1>3, <1>5, <1>6 DEF OneSourceAt
<1> QED
  BY <1>2, <1>3, <1>4, <1>5, <1>7

\* One more line after the head.
LEMMA ContinueAnswer ==
  ASSUME IInv, NEW r \in Requests, pc[r] = "stream", client[r] # <<>>,
         NEW kind \in Kinds, Write(r, idx[r], <<kind>>)
  PROVE  /\ client' \in [Requests -> Seq(Writes)]
         /\ \A q \in Requests \ {r} : client'[q] = client[q]
         /\ client'[r] # <<>>
         /\ client'[r][1].from = idx[r]
         /\ Len(client'[r]) = Len(client[r]) + 1
         /\ \A i \in 1 .. Len(client[r]) : client'[r][i] = client[r][i]
         /\ client'[r][Len(client[r]) + 1].what = kind
         /\ OneSourceAt(r)'
<1> DEFINE whats == <<kind>>
<1>1. idx[r] \in Nat /\ idx[r] >= 1 /\ TypeOK /\ client[r] \in Seq(Writes)
  BY DEF IInv, TypeOK, Local, Progress
<1>2. /\ whats \in Seq(Kinds \cup {"head", "error"}) /\ Len(whats) = 1 /\ whats[1] = kind
      /\ Write(r, idx[r], whats)
  OBVIOUS
<1> HIDE DEF whats
<1>3. /\ client' \in [Requests -> Seq(Writes)]
      /\ \A q \in Requests \ {r} : client'[q] = client[q]
      /\ Len(client'[r]) = Len(client[r]) + Len(whats)
      /\ \A i \in 1 .. Len(client[r]) : client'[r][i] = client[r][i]
      /\ \A i \in 1 .. Len(whats) :
            client'[r][Len(client[r]) + i] = [from |-> idx[r], what |-> whats[i]]
  BY <1>1, <1>2, WriteEffect, Zenon
<1>4. Len(client[r]) \in Nat /\ Len(client[r]) >= 1
  BY <1>1
<1>5. /\ Len(client'[r]) = Len(client[r]) + 1
      /\ client'[r][Len(client[r]) + 1] = [from |-> idx[r], what |-> kind]
      /\ client'[r][Len(client[r]) + 1].from = idx[r]
      /\ client'[r][Len(client[r]) + 1].what = kind
      /\ client'[r][1] = client[r][1]
  <2>1. 1 \in 1 .. Len(whats) /\ 1 \in 1 .. Len(client[r])
    BY <1>2, <1>4
  <2>2. client'[r][Len(client[r]) + 1] = [from |-> idx[r], what |-> kind]
    BY <1>2, <1>3, <2>1, Zenon
  <2> QED
    BY <1>2, <1>3, <2>1, <2>2
<1>6. client[r][1].from = idx[r] /\ OneSourceAt(r)
  BY DEF IInv, Local, Answering, OneSourceAt
<1>7. \A i \in 1 .. Len(client'[r]) :
        /\ client'[r][i].from = client'[r][1].from
        /\ client'[r][i].what \in {"head", "error"} <=> i = 1
        /\ client'[r][i].what = "error" <=> client'[r][i].from = 0
  <2> SUFFICES ASSUME NEW i \in 1 .. Len(client'[r])
               PROVE  /\ client'[r][i].from = client'[r][1].from
                      /\ client'[r][i].what \in {"head", "error"} <=> i = 1
                      /\ client'[r][i].what = "error" <=> client'[r][i].from = 0
    OBVIOUS
  <2>1. i \in 1 .. Len(client[r]) \/ i = Len(client[r]) + 1
    BY <1>4, <1>5
  <2>2. CASE i \in 1 .. Len(client[r])
    BY <1>3, <1>5, <1>6, <2>2 DEF OneSourceAt
  <2>3. CASE i = Len(client[r]) + 1
    BY <1>1, <1>4, <1>5, <1>6, <2>3 DEF Kinds
  <2> QED
    BY <2>1, <2>2, <2>3
<1>8. client'[r] # <<>>
  <2>1. Len(client'[r]) # 0
    BY <1>4, <1>5
  <2> QED
    BY <2>1, NotEmpty, Zenon
<1> QED
  BY <1>3, <1>5, <1>6, <1>7, <1>8 DEF OneSourceAt

\* A whole answer: its head, its body and its record, in one step.
LEMMA NonStreamResponseStep ==
  ASSUME IInv, NEW r \in Requests, NonStreamResponse(r)
  PROVE  IInv'
<1>0. /\ pc[r] = "send" /\ client[r] = <<>>
      /\ UNCHANGED <<guardMode, legacyGuard, health, request, idx, vmode, stream>>
  BY SendingIsSilent DEF NonStreamResponse
<1>1. CASE Retry(r, "read_error", "attempt") /\ UNCHANGED client
  BY <1>0, <1>1, FailedBeforeStreamStep DEF Categories
<1>2. CASE Retry(r, "invalid", "attempt") /\ UNCHANGED client
  BY <1>0, <1>2, FailedBeforeStreamStep DEF Categories
<1>3. ASSUME NEW kind \in Kinds, NEW category \in Categories,
             vmode[r] = "enforce" => kind = "output",
             Write(r, idx[r], <<"head", kind>>), Log(r, 1, category), GoTo(r, "markSuccess")
      PROVE  IInv'
  <2> DEFINE whats == <<"head", kind>>
  <2>1. /\ whats \in Seq(Kinds \cup {"head", "error"}) /\ Len(whats) = 2
        /\ whats[1] = "head" /\ whats[2] = kind
        /\ Write(r, idx[r], whats)
    BY <1>3
  <2> HIDE DEF whats
  <2>2. Len(whats) # 0 /\ \A i \in 2 .. Len(whats) : whats[i] \in Kinds
    BY <2>1
  <2>3. /\ client' \in [Requests -> Seq(Writes)]
        /\ \A q \in Requests \ {r} : client'[q] = client[q]
        /\ client'[r] # <<>>
        /\ client'[r][1].from = idx[r]
        /\ Len(client'[r]) = Len(whats)
        /\ \A i \in 1 .. Len(whats) : client'[r][i].what = whats[i]
        /\ OneSourceAt(r)'
    <3>1. pc[r] \in {"send", "stream"}
      BY <1>0
    <3> QED
      BY <1>0, <2>1, <2>2, <3>1, BeginAnswer, Zenon
  <2>4. 2 \in 1 .. Len(client'[r]) /\ client'[r][2].what = kind
    BY <2>1, <2>3
  <2>5. pc' = [pc EXCEPT ![r] = "markSuccess"] /\ pc'[r] = "markSuccess"
    BY <1>3 DEF GoTo, IInv, TypeOK
  <2>6. /\ Recorded(r)'
        /\ logs' \in [Requests -> Seq(Records)]
        /\ \A q \in Requests \ {r} : logs'[q] = logs[q]
        /\ RecordsKept
    BY <1>0, <1>3, <2>3, <2>5, FinalRecord
  <2>7. TypeOK'
    BY <1>0, <2>3, <2>5, <2>6 DEF IInv, TypeOK, request, stream, Labels
  <2>8. Local(r)'
    <3>1. Progress(r)'
      BY <1>0, <2>5 DEF IInv, Local, Progress, request
    <3>2. Answering(r)'
      BY <1>0, <2>3, <2>5 DEF Answering, OneSourceAt
    <3>3. ~committed'[r] /\ ~meaningful'[r] /\ buffer'[r] = <<>>
      BY <1>0 DEF IInv, Local, Streaming, stream
    <3>4. Streaming(r)'
      BY <1>0, <1>3, <2>4, <2>5, <3>3 DEF Streaming
    <3> QED
      BY <2>6, <3>1, <3>2, <3>4 DEF Local
  <2>9. \A q \in Requests \ {r} : Untouched(q)
    BY <1>0, <2>3, <2>5, <2>6 DEF IInv, TypeOK, Untouched, request, stream
  <2> QED
    BY <1>0, <2>6, <2>7, <2>8, <2>9, StepOfOne, SameHealth DEF IInv
<1>4. CASE \E kind \in Kinds :
             /\ vmode[r] = "enforce" => kind = "output"
             /\ Write(r, idx[r], <<"head", kind>>)
             /\ Log(r, 1, IF vmode[r] = "observe" /\ kind = "noise" THEN "invalid" ELSE "none")
             /\ GoTo(r, "markSuccess")
  <2>1. PICK kind \in Kinds :
             /\ vmode[r] = "enforce" => kind = "output"
             /\ Write(r, idx[r], <<"head", kind>>)
             /\ Log(r, 1, IF vmode[r] = "observe" /\ kind = "noise" THEN "invalid" ELSE "none")
             /\ GoTo(r, "markSuccess")
    BY <1>4
  <2> DEFINE category == IF vmode[r] = "observe" /\ kind = "noise" THEN "invalid" ELSE "none"
  <2>2. category \in Categories
    BY DEF Categories
  <2>3. Log(r, 1, category)
    BY <2>1
  <2> HIDE DEF category
  <2> QED
    BY <1>3, <2>1, <2>2, <2>3
<1> QED
  BY <1>1, <1>2, <1>4 DEF NonStreamResponse

\* A step of the stream that passes something on, or keeps it.
LEMMA StreamingStep ==
  ASSUME IInv, NEW r \in Requests, TypeOK',
         pc[r] \in {"send", "stream"}, pc'[r] = "stream",
         Answering(r)', Streaming(r)',
         \A q \in Requests \ {r} : Untouched(q),
         UNCHANGED <<health, plan, idx, logs>>
  PROVE  IInv'
<1>1. Progress(r)' /\ Recorded(r)'
  BY DEF IInv, Local, Progress, Recorded
<1> QED
  BY <1>1, StepOfOne, SameRecordsKept, SameHealth DEF IInv, Local

LEMMA StreamStartStep ==
  ASSUME IInv, NEW r \in Requests, StreamStart(r)
  PROVE  IInv'
<1>0. /\ pc[r] = "send" /\ client[r] = <<>>
      /\ UNCHANGED <<guardMode, legacyGuard, health, request, idx, vmode, meaningful, buffer, logs>>
      /\ pc' = [pc EXCEPT ![r] = "stream"]
      /\ ~committed[r] /\ ~meaningful[r]
  BY SendingIsSilent DEF StreamStart, GoTo, IInv, Local, Streaming
<1>1. CASE vmode[r] = "enforce" /\ UNCHANGED <<committed, client>>
  <2>1. TypeOK'
    BY <1>0, <1>1 DEF IInv, TypeOK, request, Labels
  <2>2. Answering(r)'
    BY <1>0, <1>1 DEF Answering, IInv, TypeOK
  <2>3. Streaming(r)'
    BY <1>0, <1>1 DEF Streaming, IInv, TypeOK
  <2>4. \A q \in Requests \ {r} : Untouched(q)
    BY <1>0, <1>1 DEF IInv, TypeOK, Untouched, request
  <2> QED
    BY <1>0, <2>1, <2>2, <2>3, <2>4, StreamingStep DEF IInv, TypeOK, request
<1>2. CASE /\ vmode[r] # "enforce"
           /\ committed' = [committed EXCEPT ![r] = TRUE]
           /\ Write(r, idx[r], <<"head">>)
  <2> DEFINE whats == <<"head">>
  <2>1. /\ whats \in Seq(Kinds \cup {"head", "error"}) /\ Len(whats) = 1
        /\ whats[1] = "head" /\ Write(r, idx[r], whats)
    BY <1>2
  <2> HIDE DEF whats
  <2>2. /\ Len(whats) # 0 /\ \A i \in 2 .. Len(whats) : whats[i] \in Kinds
        /\ pc[r] \in {"send", "stream"}
    BY <1>0, <2>1
  <2>3. /\ client' \in [Requests -> Seq(Writes)]
        /\ \A q \in Requests \ {r} : client'[q] = client[q]
        /\ client'[r] # <<>>
        /\ client'[r][1].from = idx[r]
        /\ OneSourceAt(r)'
    BY <1>0, <2>1, <2>2, BeginAnswer, Zenon
  <2>4. TypeOK'
    BY <1>0, <1>2, <2>3 DEF IInv, TypeOK, request, Labels
  <2>5. /\ pc'[r] = "stream" /\ committed'[r] = TRUE /\ meaningful'[r] = meaningful[r]
        /\ vmode'[r] # "enforce" /\ idx'[r] = idx[r]
    BY <1>0, <1>2 DEF IInv, TypeOK
  <2>6. Answering(r)'
    BY <2>3, <2>5 DEF Answering, OneSourceAt
  <2>7. Streaming(r)'
    BY <2>3, <2>5 DEF Streaming
  <2>8. \A q \in Requests \ {r} : Untouched(q)
    BY <1>0, <1>2, <2>3 DEF IInv, TypeOK, Untouched, request
  <2> QED
    BY <1>0, <2>4, <2>5, <2>6, <2>7, <2>8, StreamingStep DEF request
<1> QED
  BY <1>1, <1>2 DEF StreamStart

LEMMA StreamLineStep ==
  ASSUME IInv, NEW r \in Requests, NEW kind \in Kinds, StreamLine(r, kind)
  PROVE  IInv'
<1> DEFINE usable == vmode[r] # "off" /\ kind = "output"
           lines  == Append(buffer[r], kind)
<1>0. /\ pc[r] = "stream"
      /\ pc'[r] = "stream"
      /\ UNCHANGED <<guardMode, legacyGuard, health, pc, request, idx, vmode, logs>>
      /\ meaningful' = [meaningful EXCEPT ![r] = @ \/ usable]
      /\ meaningful'[r] = (meaningful[r] \/ usable)
      /\ vmode'[r] = vmode[r] /\ idx'[r] = idx[r]
      /\ Streaming(r) /\ Answering(r)
      /\ buffer[r] \in Seq(Kinds) /\ vmode[r] \in Modes
  BY DEF StreamLine, IInv, TypeOK, Local
<1>1. CASE committed[r] /\ Write(r, idx[r], <<kind>>) /\ UNCHANGED <<committed, buffer>>
  <2>1. client[r] # <<>>
    BY <1>0, <1>1 DEF Streaming
  <2>2. /\ client' \in [Requests -> Seq(Writes)]
        /\ \A q \in Requests \ {r} : client'[q] = client[q]
        /\ client'[r] # <<>>
        /\ client'[r][1].from = idx[r]
        /\ Len(client'[r]) = Len(client[r]) + 1
        /\ \A i \in 1 .. Len(client[r]) : client'[r][i] = client[r][i]
        /\ client'[r][Len(client[r]) + 1].what = kind
        /\ OneSourceAt(r)'
    BY <1>0, <1>1, <2>1, ContinueAnswer, Zenon
  <2>3. TypeOK'
    BY <1>0, <1>1, <2>2 DEF IInv, TypeOK, request, Modes
  <2>4. Answering(r)'
    BY <1>0, <2>2 DEF Answering, OneSourceAt
  <2>5. Streaming(r)'
    <3>1. committed'[r] <=> meaningful'[r] \/ vmode'[r] # "enforce"
      BY <1>0, <1>1 DEF Streaming
    <3>2. client[r][1].from > 0 /\ vmode[r] = "enforce"
             => \E i \in 1 .. Len(client'[r]) : client'[r][i].what = "output"
      <4>1. SUFFICES ASSUME client[r][1].from > 0, vmode[r] = "enforce"
                     PROVE  \E i \in 1 .. Len(client'[r]) : client'[r][i].what = "output"
        OBVIOUS
      <4>2. PICK i \in 1 .. Len(client[r]) : client[r][i].what = "output"
        BY <1>0, <2>1, <4>1 DEF Streaming
      <4>3. Len(client[r]) \in Nat
        BY DEF IInv, TypeOK
      <4> QED
        BY <2>2, <4>2, <4>3
    <3>3. client'[r][1].from = client[r][1].from
      BY <1>0, <2>1, <2>2 DEF Answering
    <3> QED
      BY <1>0, <1>1, <2>2, <3>1, <3>2, <3>3 DEF Streaming
  <2>6. \A q \in Requests \ {r} : Untouched(q)
    BY <1>0, <1>1, <2>2 DEF IInv, TypeOK, Untouched, request
  <2> QED
    BY <1>0, <2>3, <2>4, <2>5, <2>6, StreamingStep DEF request
<1>2. CASE /\ ~committed[r] /\ ~usable
           /\ buffer' = [buffer EXCEPT ![r] = lines]
           /\ UNCHANGED <<committed, client>>
  <2>1. lines \in Seq(Kinds)
    BY <1>0
  <2>2. client[r] = <<>> /\ ~meaningful[r] /\ vmode[r] = "enforce"
    BY <1>0, <1>2 DEF Streaming
  <2> HIDE DEF lines
  <2>3. TypeOK'
    BY <1>0, <1>2, <2>1 DEF IInv, TypeOK, request, Modes
  <2>4. Answering(r)' /\ Streaming(r)'
    BY <1>0, <1>2, <2>2 DEF Answering, Streaming
  <2>5. \A q \in Requests \ {r} : Untouched(q)
    BY <1>0, <1>2 DEF IInv, TypeOK, Untouched, request
  <2> QED
    BY <1>0, <2>3, <2>4, <2>5, StreamingStep DEF request
<1>3. CASE /\ ~committed[r] /\ usable
           /\ Write(r, idx[r], <<"head">> \o lines)
           /\ buffer' = [buffer EXCEPT ![r] = <<>>]
           /\ committed' = [committed EXCEPT ![r] = TRUE]
  <2> DEFINE whats == <<"head">> \o lines
  <2>1. /\ lines \in Seq(Kinds) /\ Len(lines) = Len(buffer[r]) + 1
        /\ lines[Len(lines)] = kind /\ Len(lines) \in Nat
    BY <1>0
  <2>2. client[r] = <<>>
    BY <1>0, <1>3 DEF Streaming
  <2> HIDE DEF lines
  <2>3. /\ whats \in Seq(Kinds \cup {"head", "error"})
        /\ Len(whats) = Len(lines) + 1 /\ whats[1] = "head"
        /\ \A i \in 1 .. Len(lines) : whats[i + 1] = lines[i]
    BY <2>1
  <2>4. Write(r, idx[r], whats)
    BY <1>3
  <2> HIDE DEF whats
  <2>5. \A i \in 2 .. Len(whats) : whats[i] \in Kinds
    <3> TAKE i \in 2 .. Len(whats)
    <3>1. i - 1 \in 1 .. Len(lines) /\ (i - 1) + 1 = i
      BY <2>1, <2>3
    <3>2. whats[(i - 1) + 1] = lines[i - 1] /\ lines[i - 1] \in Kinds
      BY <2>1, <2>3, <3>1
    <3> QED
      BY <3>1, <3>2
  <2>6. Len(whats) # 0 /\ pc[r] \in {"send", "stream"}
    BY <1>0, <2>1, <2>3
  <2>7. /\ client' \in [Requests -> Seq(Writes)]
        /\ \A q \in Requests \ {r} : client'[q] = client[q]
        /\ client'[r] # <<>>
        /\ client'[r][1].from = idx[r]
        /\ Len(client'[r]) = Len(whats)
        /\ \A i \in 1 .. Len(whats) : client'[r][i].what = whats[i]
        /\ OneSourceAt(r)'
    BY <2>2, <2>3, <2>4, <2>5, <2>6, BeginAnswer, Zenon
  <2>8. \E i \in 1 .. Len(client'[r]) : client'[r][i].what = "output"
    <3>1. Len(lines) >= 1
      BY <1>0, <2>1
    <3>2. Len(lines) + 1 \in 1 .. Len(whats) /\ whats[Len(lines) + 1] = kind
      BY <2>1, <2>3, <3>1
    <3>3. kind = "output"
      BY <1>3
    <3> QED
      BY <2>7, <3>2, <3>3
  <2>9. TypeOK'
    <3>1. committed' \in [Requests -> BOOLEAN] /\ buffer' \in [Requests -> Seq(Kinds)]
      BY <1>3 DEF IInv, TypeOK
    <3>2. meaningful' \in [Requests -> BOOLEAN]
      BY <1>0 DEF IInv, TypeOK
    <3> QED
      BY <1>0, <2>7, <3>1, <3>2 DEF IInv, TypeOK, request
  <2>10. committed'[r] = TRUE /\ meaningful'[r]
    BY <1>0, <1>3 DEF IInv, TypeOK
  <2>11. Answering(r)'
    BY <1>0, <2>7 DEF Answering, OneSourceAt
  <2>12. Streaming(r)'
    BY <1>0, <2>7, <2>8, <2>10 DEF Streaming
  <2>13. \A q \in Requests \ {r} : Untouched(q)
    BY <1>0, <1>3, <2>7 DEF IInv, TypeOK, Untouched, request
  <2> QED
    BY <1>0, <2>9, <2>11, <2>12, <2>13, StreamingStep DEF request
<1> QED
  BY <1>1, <1>2, <1>3 DEF StreamLine

\* A committed stream that is over: the caller keeps what it was sent.
LEMMA FinishStep ==
  ASSUME IInv, NEW r \in Requests, pc[r] = "stream", committed[r],
         NEW status \in {0, 1}, NEW category \in Categories,
         status = 1 \/ category = "read_error",
         Log(r, status, category), GoTo(r, "markSuccess"), ReturnFromStream(r),
         UNCHANGED <<guardMode, legacyGuard, health, request, idx, vmode, client>>
  PROVE  IInv'
<1>1. /\ client[r] # <<>> /\ client[r][1].from = idx[r]
      /\ Streaming(r) /\ Answering(r) /\ Progress(r)
  BY DEF IInv, Local, Streaming, Answering
<1>2. pc' = [pc EXCEPT ![r] = "markSuccess"] /\ pc'[r] = "markSuccess"
  BY DEF GoTo, IInv, TypeOK
<1>3. /\ Recorded(r)'
      /\ logs' \in [Requests -> Seq(Records)]
      /\ \A q \in Requests \ {r} : logs'[q] = logs[q]
      /\ RecordsKept
  <2>1. /\ pc[r] \in {"send", "stream"} /\ pc'[r] = "markSuccess"
        /\ client'[r][1].from = idx[r] /\ UNCHANGED <<request, idx>>
    BY <1>1, <1>2
  <2> QED
    BY <2>1, FinalRecord, Zenon
<1>4. TypeOK'
  <2>1. /\ committed' \in [Requests -> BOOLEAN] /\ meaningful' \in [Requests -> BOOLEAN]
        /\ buffer' \in [Requests -> Seq(Kinds)]
    BY DEF IInv, TypeOK, ReturnFromStream
  <2>2. pc' \in [Requests -> Labels]
    BY <1>2 DEF IInv, TypeOK, Labels
  <2> QED
    BY <1>3, <2>1, <2>2 DEF IInv, TypeOK, request
<1>5. ~committed'[r] /\ ~meaningful'[r] /\ buffer'[r] = <<>>
  BY DEF ReturnFromStream, IInv, TypeOK
<1>6. Progress(r)' /\ Answering(r)' /\ Streaming(r)'
  <2>1. Progress(r)'
    BY <1>1, <1>2 DEF Progress, request
  <2>2. Answering(r)'
    BY <1>1, <1>2 DEF Answering
  <2>3. Streaming(r)'
    BY <1>1, <1>2, <1>5 DEF Streaming
  <2> QED
    BY <2>1, <2>2, <2>3
<1>7. \A q \in Requests \ {r} : Untouched(q)
  BY <1>2, <1>3 DEF IInv, TypeOK, Untouched, ReturnFromStream, request
<1> QED
  BY <1>3, <1>4, <1>6, <1>7, StepOfOne, SameHealth DEF IInv, Local

LEMMA StreamReadErrorStep ==
  ASSUME IInv, NEW r \in Requests, StreamReadError(r)
  PROVE  IInv'
<1>0. /\ pc[r] = "stream" /\ ReturnFromStream(r) /\ Streaming(r)
      /\ UNCHANGED <<guardMode, legacyGuard, health, request, idx, vmode, client>>
  BY DEF StreamReadError, IInv, Local
<1>1. CASE ~committed[r] /\ Retry(r, "read_error", "attempt")
  <2>1. client[r] = <<>> /\ "read_error" \in Categories
    BY <1>0, <1>1 DEF Streaming, Categories
  <2> QED
    BY <1>0, <1>1, <2>1, RetryStep
<1>2. CASE committed[r] /\ Retry(r, "read_error", "markSuccess")
  BY <1>0, <1>2, FinishStep DEF Categories, Retry
<1> QED
  BY <1>1, <1>2 DEF StreamReadError

LEMMA StreamEndStep ==
  ASSUME IInv, NEW r \in Requests, StreamEnd(r)
  PROVE  IInv'
<1>0. /\ pc[r] = "stream" /\ ReturnFromStream(r) /\ Streaming(r)
      /\ UNCHANGED <<guardMode, legacyGuard, health, request, idx, vmode, client>>
  BY DEF StreamEnd, IInv, Local
<1>1. CASE vmode[r] = "enforce" /\ ~meaningful[r] /\ Retry(r, "invalid", "attempt")
  <2>1. client[r] = <<>> /\ "invalid" \in Categories
    BY <1>0, <1>1 DEF Streaming, Categories
  <2> QED
    BY <1>0, <1>1, <2>1, RetryStep
<1>2. CASE vmode[r] = "observe" /\ Log(r, 1, "invalid") /\ GoTo(r, "markSuccess")
  <2>1. committed[r] /\ "invalid" \in Categories
    BY <1>0, <1>2 DEF Streaming, Categories
  <2> QED
    BY <1>0, <1>2, <2>1, FinishStep
<1>3. CASE (vmode[r] = "off" \/ meaningful[r]) /\ Log(r, 1, "none") /\ GoTo(r, "markSuccess")
  <2>1. committed[r] /\ "none" \in Categories
    BY <1>0, <1>3 DEF Streaming, Categories
  <2> QED
    BY <1>0, <1>3, <2>1, FinishStep
<1> QED
  BY <1>1, <1>2, <1>3 DEF StreamEnd

LEMMA MarkHealthSuccessStep ==
  ASSUME IInv, NEW r \in Requests, MarkHealthSuccess(r)
  PROVE  IInv'
<1>1. TypeOK'
  BY DEF IInv, TypeOK, MarkHealthSuccess, GoTo, Labels, Healths, stream, request
<1>2. /\ pc[r] = "markSuccess" /\ pc'[r] = "done"
      /\ UNCHANGED <<plan, idx, vmode, committed, meaningful, buffer, client, logs>>
      /\ \A q \in Requests \ {r} : Untouched(q)
  BY DEF IInv, TypeOK, MarkHealthSuccess, GoTo, Untouched, stream, request
<1>3. Local(r)'
  <2>1. Progress(r)' /\ Answering(r)' /\ Streaming(r)'
    BY <1>2 DEF IInv, Local, Progress, Answering, Streaming
  <2>2. Recorded(r)'
    BY <1>2 DEF IInv, Local, Recorded
  <2> QED
    BY <2>1, <2>2 DEF Local
<1>4. \A p \in Providers : health'[p] = "healthy" \/ health[p] # "healthy"
  BY DEF MarkHealthSuccess, IInv, TypeOK
<1> QED
  BY <1>1, <1>2, <1>3, <1>4, StepOfOne, SameRecordsKept DEF IInv

LEMMA SurroundingsStep ==
  ASSUME IInv, Surroundings
  PROVE  IInv'
<1>1. /\ UNCHANGED <<pc, request, idx, vmode, stream, client, logs>>
      /\ \A p \in Providers : health'[p] = "healthy" \/ health[p] # "healthy"
  BY DEF Surroundings, CooldownExpires, SetGuardMode, SetLegacyGuard, IInv, TypeOK
<1>2. TypeOK'
  BY RelayAssumption
     DEF IInv, TypeOK, Surroundings, CooldownExpires, SetGuardMode, SetLegacyGuard,
         request, stream, Healths, Modes
<1>3. \A q \in Requests : Untouched(q)
  BY <1>1 DEF Untouched, request, stream
<1>4. \A q \in Requests : Local(q)'
  BY <1>3, LocalFrame DEF IInv
<1>5. UnreachableHasEvidence'
  BY <1>1, <1>2, EvidenceFrame, SameRecordsKept DEF IInv
<1> QED
  BY <1>2, <1>4, <1>5 DEF IInv

-----------------------------------------------------------------------------
(***************************************************************************)
(* The inductive invariant and what follows from it.                       *)
(***************************************************************************)
LEMMA InitInvariant ==
  ASSUME Init
  PROVE  IInv
<1>1. TypeOK
  BY DEF Init, TypeOK, Modes, Healths, Labels
<1>2. \A r \in Requests : Local(r)
  BY DEF Init, Local, Progress, Answering, Streaming, Recorded
<1>3. UnreachableHasEvidence
  BY DEF Init, UnreachableHasEvidence
<1> QED
  BY <1>1, <1>2, <1>3 DEF IInv

LEMMA NextInvariant ==
  ASSUME IInv, [Next]_vars
  PROVE  IInv'
<1>1. CASE UNCHANGED vars
  <2>1. TypeOK'
    BY <1>1 DEF IInv, TypeOK, vars, request, stream
  <2>2. \A q \in Requests : Untouched(q)
    BY <1>1 DEF Untouched, vars, request, stream
  <2>3. \A q \in Requests : Local(q)'
    BY <2>2, LocalFrame DEF IInv
  <2>4. UnreachableHasEvidence'
    BY <1>1 DEF IInv, UnreachableHasEvidence, vars
  <2> QED
    BY <2>1, <2>3, <2>4 DEF IInv
<1>2. ASSUME NEW r \in Requests, Arrive(r) \/ Handle(r)
      PROVE  IInv'
  <2>1. CASE Attempt(r)
    BY <2>1, SendFailureSteps, NonStreamResponseStep, StreamStartStep,
       StreamLineStep, StreamReadErrorStep, StreamEndStep DEF Attempt
  <2>2. CASE Exhausted(r)
    BY <2>2, RefuseStep DEF Exhausted
  <2>3. CASE Arrive(r) \/ CheckWhitelist(r) \/ BuildPlan(r) \/ StartAttempt(r)
    BY <2>3, ArriveStep, CheckWhitelistStep, BuildPlanStep, StartAttemptStep
  <2>4. CASE MarkHealthFailure(r) \/ MarkHealthSuccess(r)
    BY <2>4, MarkHealthFailureStep, MarkHealthSuccessStep
  <2> QED
    BY <1>2, <2>1, <2>2, <2>3, <2>4 DEF Handle
<1>3. CASE Surroundings
  BY <1>3, SurroundingsStep
<1> QED
  BY <1>1, <1>2, <1>3 DEF Next

\* In every reachable state the handler of every request knows what IInv says
\* it knows, whatever the other requests and the administrator do.
THEOREM Invariant == SafeSpec => []IInv
<1>1. Init => IInv
  BY InitInvariant
<1>2. IInv /\ [Next]_vars => IInv'
  BY NextInvariant
<1> QED
  BY <1>1, <1>2, PTL DEF SafeSpec

\* Every variable keeps its type.
THEOREM TypeCorrect == Spec => []TypeOK
<1>1. IInv => TypeOK
  BY DEF IInv
<1> QED
  BY <1>1, Invariant, PTL DEF Spec

\* A caller hears one source only, and at most one head or error document: no
\* route is tried and no error is written once a part of an answer is out.
THEOREM OneSourceHolds == Spec => []OneSource
<1>1. IInv => OneSource
  BY DEF IInv, Local, Answering, OneSource
<1> QED
  BY <1>1, Invariant, PTL DEF Spec

\* Under "enforce" no caller receives an upstream's answer without output.
THEOREM EnforcedAnswerHasOutputHolds == Spec => []EnforcedAnswerHasOutput
<1>1. IInv => EnforcedAnswerHasOutput
  BY DEF IInv, Local, Streaming, EnforcedAnswerHasOutput
<1> QED
  BY <1>1, Invariant, PTL DEF Spec

\* The records of a request are those of its attempts, in their order.
THEOREM AttemptsRecordedHolds == Spec => []AttemptsRecorded
<1>1. IInv => AttemptsRecorded
  BY DEF IInv, Local, Recorded, AttemptsRecorded
<1> QED
  BY <1>1, Invariant, PTL DEF Spec

\* A record of success is the last record and is about the answer the caller got.
THEOREM SuccessIsTheAnswerHolds == Spec => []SuccessIsTheAnswer
<1>1. IInv => SuccessIsTheAnswer
  <2> SUFFICES ASSUME IInv, NEW r \in Requests
               PROVE  /\ \A k \in 1 .. Len(logs[r]) : logs[r][k].status = 1 =>
                           /\ k = Len(logs[r])
                           /\ pc[r] \in {"markSuccess", "done"}
                           /\ client[r] # <<>>
                           /\ client[r][1].from = k
                      /\ pc[r] = "done" /\ client[r][1].from > 0 =>
                           LET last == logs[r][Len(logs[r])]
                           IN last.status = 1 \/ last.category = "read_error"
    BY DEF SuccessIsTheAnswer
  <2>1. Answering(r) /\ Recorded(r)
    BY DEF IInv, Local
  <2>2. ASSUME NEW k \in 1 .. Len(logs[r]), logs[r][k].status = 1
        PROVE  /\ k = Len(logs[r])
               /\ pc[r] \in {"markSuccess", "done"}
               /\ client[r] # <<>>
               /\ client[r][1].from = k
    BY <2>1, <2>2 DEF Answering, Recorded
  <2>3. ASSUME pc[r] = "done", client[r][1].from > 0
        PROVE  \/ logs[r][Len(logs[r])].status = 1
               \/ logs[r][Len(logs[r])].category = "read_error"
    BY <2>1, <2>3 DEF Recorded
  <2> QED
    BY <2>2, <2>3, Zenon
<1> QED
  BY <1>1, Invariant, PTL DEF Spec

\* No tier is entered before every route of the higher tiers has failed.
THEOREM DowngradeAfterTierFailedHolds == Spec => []DowngradeAfterTierFailed
<1>1. IInv => DowngradeAfterTierFailed
  <2> SUFFICES ASSUME IInv, NEW r \in Requests, pc[r] \in {"send", "stream"},
                      NEW i \in 1 .. Len(plan[r]),
                      PriorityOf[plan[r][i]] > PriorityOf[Route(r)]
               PROVE  \E k \in 1 .. Len(logs[r]) :
                         logs[r][k].route = plan[r][i] /\ logs[r][k].status = 0
    BY DEF DowngradeAfterTierFailed
  <2>1. /\ idx[r] \in 1 .. Len(plan[r]) /\ Len(logs[r]) = idx[r] - 1
        /\ \A j, k \in 1 .. Len(plan[r]) :
              j < k => PriorityOf[plan[r][j]] >= PriorityOf[plan[r][k]]
        /\ \A k \in 1 .. Len(logs[r]) :
              logs[r][k].route = plan[r][k] /\ logs[r][k].status # 1
    BY DEF IInv, TypeOK, Local, Progress, Recorded
  <2>2. plan[r] \in Seq(Routes) /\ Len(plan[r]) \in Nat
    BY DEF IInv, TypeOK
  <2>3. PriorityOf[plan[r][i]] \in Int /\ PriorityOf[plan[r][idx[r]]] \in Int
    BY <2>1, <2>2, RelayAssumption
  <2>4. i < idx[r]
    <3>1. ~(idx[r] < i)
      BY <2>1, <2>3 DEF Route
    <3>2. i # idx[r]
      BY <2>3 DEF Route
    <3> QED
      BY <2>1, <2>2, <3>1, <3>2
  <2>5. i \in 1 .. Len(logs[r])
    BY <2>1, <2>2, <2>4
  <2>6. logs[r][i].status \in {0, 1}
    <3>1. logs[r] \in Seq(Records)
      BY DEF IInv, TypeOK
    <3>2. logs[r][i] \in Records
      BY <2>5, <3>1
    <3> QED
      BY ONLY <3>2 DEF Records
  <2>7. logs[r][i].route = plan[r][i] /\ logs[r][i].status # 1
    BY <2>1, <2>5, Zenon
  <2>8. logs[r][i].status = 0
    BY ONLY <2>6, <2>7
  <2> QED
    BY <2>5, <2>7, <2>8, Zenon
<1> QED
  BY <1>1, Invariant, PTL DEF Spec

\* A provider that is held to be unreachable was unreachable, or answered with
\* an error status, for some request; a bad body or a broken stream is no ground.
THEOREM UnreachableHasEvidenceHolds == Spec => []UnreachableHasEvidence
<1>1. IInv => UnreachableHasEvidence
  BY DEF IInv
<1> QED
  BY <1>1, Invariant, PTL DEF Spec

-----------------------------------------------------------------------------
(***************************************************************************)
(* The relay implements OneAnswer: every step is a step of the promise or  *)
(* changes nothing of it.  The liveness of the promise is not proved.      *)
(***************************************************************************)

\* A plan holds no route twice, and so an attempt index is a source.
PlanFits == \A r \in Requests : Len(plan[r]) <= Cardinality(Routes)

LEMMA PlanFitsKept ==
  ASSUME IInv, PlanFits, [Next]_vars
  PROVE  PlanFits'
<1>1. Cardinality(Routes) \in Nat
  BY RelayAssumption, FS_CardinalityType
<1>2. CASE plan' = plan
  BY <1>2 DEF PlanFits
<1>3. ASSUME NEW r \in Requests, BuildPlan(r) PROVE PlanFits'
  <2>1. CASE plan' = plan
    BY <1>2, <2>1
  <2>2. CASE plan' # plan
    <3>0. PICK eligible \in SUBSET Routes : \E p \in Plans(eligible) : plan' = [plan EXCEPT ![r] = p]
      <4>1. RoutesOf[planName[r]] \in SUBSET Routes
        BY RelayAssumption DEF IInv, TypeOK
      <4>2. PICK excluded \in SUBSET RoutesOf[planName[r]] :
              \E p \in Plans({x \in RoutesOf[planName[r]] \ excluded : ~HealthBlocked(ProviderOf[x])}) :
                plan' = [plan EXCEPT ![r] = p]
        BY <1>3, <2>2 DEF BuildPlan
      <4> QED
        BY <4>1, <4>2
    <3>1. PICK p \in Plans(eligible) : plan' = [plan EXCEPT ![r] = p]
      BY <3>0
    <3>2. Cardinality(eligible) \in Nat /\ Cardinality(eligible) <= Cardinality(Routes)
      BY RelayAssumption, FS_Subset, FS_CardinalityType
    <3>3. Len(p) = Cardinality(eligible)
      BY <3>2 DEF Plans
    <3>4. \A q \in Requests : plan'[q] \in {plan[q], p}
      BY <3>1 DEF IInv, TypeOK
    <3> QED
      BY <3>2, <3>3, <3>4 DEF PlanFits
  <2> QED
    BY <2>1, <2>2
<1>4. ASSUME NEW r \in Requests, Arrive(r) \/ Handle(r), ~BuildPlan(r) PROVE plan' = plan
  BY <1>4 DEF Arrive, Handle, CheckWhitelist, StartAttempt, Exhausted, Attempt, MarkHealthFailure,
     MarkHealthSuccess, CannotForward, NoHTTPClient, TransportError, UpstreamStatus,
     NonStreamResponse, StreamStart, StreamReadError, StreamEnd, StreamLine, request
<1>5. CASE Surroundings \/ UNCHANGED vars
  BY <1>5 DEF Surroundings, CooldownExpires, SetGuardMode, SetLegacyGuard, vars, request, PlanFits
<1> QED
  BY <1>2, <1>3, <1>4, <1>5 DEF Next

\* What a step of r does to the labels and to what callers have been sent.
LEMMA WhatIsSentStays ==
  ASSUME IInv, NEW r \in Requests, Handle(r)
  PROVE  /\ pc[r] \notin {"idle", "done"} /\ pc'[r] # "idle"
         /\ client[r] # <<>> => client'[r] # <<>> /\ client'[r][1] = client[r][1]
         /\ \A q \in Requests \ {r} : pc'[q] = pc[q] /\ client'[q] = client[q]
<1>0. TypeOK /\ pc \in [Requests -> Labels] /\ client[r] \in Seq(Writes) /\ idx[r] \in Nat
  BY DEF IInv, TypeOK
<1>1. pc[r] \notin {"idle", "done"} /\ pc'[r] # "idle"
      /\ \A q \in Requests \ {r} : pc'[q] = pc[q]
  BY <1>0 DEF Handle, CheckWhitelist, BuildPlan, StartAttempt, Exhausted, Attempt, MarkHealthFailure,
     MarkHealthSuccess, CannotForward, NoHTTPClient, TransportError, UpstreamStatus,
     NonStreamResponse, StreamStart, StreamReadError, StreamEnd, StreamLine, Refuse, Retry, GoTo
<1>2. \/ client' = client
      \/ \E from \in Nat, whats \in Seq(Kinds \cup {"head", "error"}) : Write(r, from, whats)
  <2>1. CASE CannotForward(r) \/ Exhausted(r) \/ CheckWhitelist(r) \/ BuildPlan(r)
    <3>1. client' = client \/ Write(r, 0, <<"error">>)
      BY <2>1 DEF CannotForward, Exhausted, CheckWhitelist, BuildPlan, Refuse
    <3>2. 0 \in Nat /\ <<"error">> \in Seq(Kinds \cup {"head", "error"})
      OBVIOUS
    <3> QED
      BY <3>1, <3>2
  <2>2. CASE NonStreamResponse(r)
    <3>1. client' = client \/ \E kind \in Kinds : Write(r, idx[r], <<"head", kind>>)
      BY <2>2 DEF NonStreamResponse
    <3>2. \A kind \in Kinds : <<"head", kind>> \in Seq(Kinds \cup {"head", "error"})
      OBVIOUS
    <3> QED
      BY <1>0, <3>1, <3>2
  <2>3. CASE StreamStart(r)
    <3>1. client' = client \/ Write(r, idx[r], <<"head">>)
      BY <2>3 DEF StreamStart
    <3>2. <<"head">> \in Seq(Kinds \cup {"head", "error"})
      OBVIOUS
    <3> QED
      BY <1>0, <3>1, <3>2
  <2>4. ASSUME NEW kind \in Kinds, StreamLine(r, kind)
        PROVE  \/ client' = client
               \/ \E from \in Nat, whats \in Seq(Kinds \cup {"head", "error"}) : Write(r, from, whats)
    <3>1. \/ client' = client
          \/ Write(r, idx[r], <<kind>>)
          \/ Write(r, idx[r], <<"head">> \o Append(buffer[r], kind))
      BY <2>4 DEF StreamLine
    <3>2. buffer[r] \in Seq(Kinds)
      BY <1>0 DEF TypeOK
    <3>3. /\ <<kind>> \in Seq(Kinds \cup {"head", "error"})
          /\ <<"head">> \o Append(buffer[r], kind) \in Seq(Kinds \cup {"head", "error"})
      <4>1. Append(buffer[r], kind) \in Seq(Kinds \cup {"head", "error"})
        BY <3>2
      <4>2. <<"head">> \in Seq(Kinds \cup {"head", "error"})
        OBVIOUS
      <4> QED
        BY <4>1, <4>2
    <3> QED
      BY <1>0, <3>1, <3>3
  <2>5. CASE \/ StartAttempt(r) \/ NoHTTPClient(r) \/ TransportError(r) \/ UpstreamStatus(r)
             \/ StreamReadError(r) \/ StreamEnd(r) \/ MarkHealthFailure(r) \/ MarkHealthSuccess(r)
    BY <2>5 DEF StartAttempt, NoHTTPClient, TransportError, UpstreamStatus, StreamReadError, StreamEnd,
       MarkHealthFailure, MarkHealthSuccess
  <2> QED
    BY <2>1, <2>2, <2>3, <2>4, <2>5 DEF Handle, Attempt
<1>3. CASE client' = client
  BY <1>1, <1>3
<1>4. ASSUME NEW from \in Nat, NEW whats \in Seq(Kinds \cup {"head", "error"}), Write(r, from, whats)
      PROVE  /\ client[r] # <<>> => client'[r] # <<>> /\ client'[r][1] = client[r][1]
             /\ \A q \in Requests \ {r} : client'[q] = client[q]
  <2>1. /\ client' \in [Requests -> Seq(Writes)]
        /\ \A q \in Requests \ {r} : client'[q] = client[q]
        /\ Len(client'[r]) = Len(client[r]) + Len(whats)
        /\ \A i \in 1 .. Len(client[r]) : client'[r][i] = client[r][i]
    BY <1>0, <1>4, WriteEffect
  <2>2. client[r] # <<>> => Len(client[r]) \in Nat \ {0}
    BY <1>0
  <2>3. Len(whats) \in Nat /\ (client'[r] = <<>> => Len(client'[r]) = 0)
    OBVIOUS
  <2> QED
    BY <2>1, <2>2, <2>3
<1> QED
  BY <1>1, <1>2, <1>3, <1>4

\* The phase and the source of one request, as the refinement maps them.
Phase(r)  == IF pc[r] = "idle" THEN "idle"
             ELSE IF pc[r] = "done" THEN "answered"
             ELSE IF answering(r) THEN "answering" ELSE "waiting"
Source(r) == IF answering(r) THEN client[r][1].from ELSE -1

LEMMA SourceFacts ==
  ASSUME IInv, PlanFits, NEW r \in Requests
  PROVE  /\ answering(r) => Source(r) \in 0 .. Cardinality(Routes)
         /\ Phase(r) \in {"answering", "answered"} <=> answering(r)
<1>1. /\ idx[r] \in Nat /\ idx[r] <= Len(plan[r]) /\ Len(plan[r]) \in Nat
      /\ Len(plan[r]) <= Cardinality(Routes) /\ Cardinality(Routes) \in Nat
  BY RelayAssumption, FS_CardinalityType DEF IInv, TypeOK, Local, Progress, PlanFits
<1>2. answering(r) => client[r][1].from \in {0, idx[r]}
  BY DEF IInv, Local, Answering, answering
<1>3. answering(r) => pc[r] \in {"stream", "markSuccess", "done"}
  BY DEF IInv, Local, Answering, answering
<1>4. pc[r] = "done" => answering(r)
  BY DEF IInv, Local, Answering, answering
<1> QED
  BY <1>1, <1>2, <1>3, <1>4 DEF Source, Phase

LEMMA StepRefines ==
  ASSUME IInv, IInv', PlanFits, PlanFits', NEW r \in Requests, Arrive(r) \/ Handle(r)
  PROVE  [Promise!ANext]_(Promise!avars)
<1> DEFINE phase  == [q \in Requests |-> Phase(q)]
           source == [q \in Requests |-> Source(q)]
<1>1. \A q \in Requests \ {r} : pc'[q] = pc[q] /\ client'[q] = client[q]
  BY WhatIsSentStays DEF Arrive, GoTo, IInv, TypeOK
<1>2. \A q \in Requests \ {r} : Phase(q)' = Phase(q) /\ Source(q)' = Source(q)
  BY <1>1 DEF Phase, Source, answering
<1>3. /\ phase' = [phase EXCEPT ![r] = Phase(r)']
      /\ source' = [source EXCEPT ![r] = Source(r)']
  BY <1>2
<1>4. \/ Phase(r)' = Phase(r) /\ Source(r)' = Source(r)
      \/ Phase(r) = "idle" /\ Phase(r)' = "waiting" /\ Source(r)' = Source(r)
      \/ /\ Phase(r) = "waiting" /\ Phase(r)' \in {"answering", "answered"}
         /\ Source(r)' \in 0 .. Cardinality(Routes)
      \/ Phase(r) = "answering" /\ Phase(r)' = "answered" /\ Source(r)' = Source(r)
  <2>1. CASE Arrive(r)
    <3>1. pc[r] = "idle" /\ pc'[r] = "check" /\ client' = client
      BY <2>1 DEF Arrive, GoTo, IInv, TypeOK
    <3>2. client[r] = <<>>
      BY <3>1 DEF IInv, Local, Answering
    <3> QED
      BY <3>1, <3>2 DEF Phase, Source, answering
  <2>2. CASE Handle(r)
    <3>1. /\ pc[r] \notin {"idle", "done"} /\ pc'[r] # "idle"
          /\ answering(r) => answering(r)' /\ Source(r)' = Source(r)
      BY <2>2, WhatIsSentStays DEF answering, Source
    <3>2. /\ answering(r)' => Source(r)' \in 0 .. Cardinality(Routes)
          /\ Phase(r)' \in {"answering", "answered"} <=> answering(r)'
      <4>1. /\ (answering(r) => Source(r) \in 0 .. Cardinality(Routes))'
            /\ (Phase(r) \in {"answering", "answered"} <=> answering(r))'
        BY SourceFacts, PTL
      <4> QED
        BY <4>1
    <3>3. ~answering(r) => Phase(r) = "waiting" /\ Source(r) = -1
      BY <3>1 DEF Phase, Source
    <3>4. answering(r) => Phase(r) = "answering"
      BY <3>1 DEF Phase
    <3>5. Phase(r)' \in {"waiting", "answering", "answered"} /\ (~answering(r)' => Source(r)' = -1)
      BY <3>1 DEF Phase, Source
    <3> QED
      BY <3>1, <3>2, <3>3, <3>4, <3>5
  <2> QED
    BY <2>1, <2>2
<1>5. phase[r] = Phase(r) /\ source[r] = Source(r)
  OBVIOUS
<1>6. \/ phase' = phase /\ source' = source
      \/ phase[r] = "idle" /\ phase' = [phase EXCEPT ![r] = "waiting"] /\ source' = source
      \/ \E s \in 0 .. Cardinality(Routes) :
           /\ phase[r] = "waiting" /\ source' = [source EXCEPT ![r] = s]
           /\ phase' = [phase EXCEPT ![r] = "answering"] \/ phase' = [phase EXCEPT ![r] = "answered"]
      \/ phase[r] = "answering" /\ phase' = [phase EXCEPT ![r] = "answered"] /\ source' = source
  BY <1>3, <1>4, <1>5
<1> QED
  BY <1>6 DEF Promise!ANext, Promise!avars, Promise!Call, Promise!Serve, Promise!Begin, Promise!End,
     Promise!Reply, Phase, Source

\* A caller's request is answered by one source, whose answer begins once and
\* ends: the relay implements the safety part of OneAnswer, for any number of
\* requests and routes (controller/relay.go).
THEOREM AnswersAsPromised == SafeSpec => Promise!ASafeSpec
<1>1. Init => PlanFits /\ Promise!AInit
  <2>1. Cardinality(Routes) \in Nat
    BY RelayAssumption, FS_CardinalityType
  <2> QED
    BY <2>1 DEF Init, PlanFits, Promise!AInit, answering
<1>2. IInv /\ PlanFits /\ [Next]_vars => PlanFits'
  BY PlanFitsKept
<1>3. IInv /\ IInv' /\ PlanFits /\ PlanFits' /\ [Next]_vars => [Promise!ANext]_(Promise!avars)
  <2> SUFFICES ASSUME IInv, IInv', PlanFits, PlanFits', [Next]_vars
               PROVE  [Promise!ANext]_(Promise!avars)
    OBVIOUS
  <2>1. CASE Surroundings \/ UNCHANGED vars
    <3>1. pc' = pc /\ client' = client
      BY <2>1 DEF Surroundings, CooldownExpires, SetGuardMode, SetLegacyGuard, vars
    <3> QED
      BY <3>1 DEF Promise!avars, answering
  <2> QED
    BY <2>1, StepRefines DEF Next
<1> QED
  BY <1>1, <1>2, <1>3, Invariant, PTL DEF SafeSpec, Promise!ASafeSpec
=============================================================================
