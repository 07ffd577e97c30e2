------------------------------- MODULE Relay -------------------------------
(***************************************************************************)
(* The relay endpoint: controller/relay.go and the proxy of                *)
(* service/proxy.go.  Every request runs in a goroutine of its own: it     *)
(* resolves the model name, checks the token's whitelist, asks for a plan  *)
(* of routes and tries the routes one after the other until one of them    *)
(* answers.  The requests share the providers' health, which decides the   *)
(* plans made later, and the validity options, which an administrator may  *)
(* change at any moment and an attempt reads once, when it starts.         *)
(*                                                                         *)
(* Abstracted: bodies and stream lines are kinds, "output" for one that    *)
(* carries usable model output and "noise" for any other (empty, malformed,*)
(* an error envelope, a comment); the weights of a tier only say which     *)
(* orders are likely, so every order is possible; what excludes a route    *)
(* besides its provider's health (disabled, no key, stale balance,         *)
(* suppressed) is a choice made when the plan is built; a usage record is  *)
(* what logUsage is called with (a goroutine nobody waits for inserts it). *)
(***************************************************************************)
EXTENDS Integers, Sequences, FiniteSets

CONSTANTS Requests,     \* relay requests, each handled once
          Providers,    \* upstream providers
          Routes,       \* enabled model routes
          ProviderOf,   \* ProviderOf[x]: the provider of route x
          PriorityOf,   \* PriorityOf[x]: the priority of route x, larger first
          Models,       \* model names a request may carry
          CanonicalOf,  \* CanonicalOf[m]: the catalogue's canonical name of m
          RoutesOf,     \* RoutesOf[m]: the candidate routes of m
          Whitelist,    \* the names the aggregated token allows
          MaxLines,     \* bound on the lines of one event stream
          AdminModes,   \* bound on the modes the administrator switches to
          AdminLegacy   \* bound on the values given to the legacy switch

ASSUME RelayAssumption ==
  /\ IsFiniteSet(Routes)
  /\ ProviderOf  \in [Routes -> Providers]
  /\ PriorityOf  \in [Routes -> Int]
  /\ CanonicalOf \in [Models -> Models]
  /\ RoutesOf    \in [Models -> SUBSET Routes]
  /\ MaxLines    \in Nat
  /\ AdminModes  \subseteq {"off", "observe", "enforce"}
  /\ AdminLegacy \subseteq BOOLEAN

VARIABLES
  guardMode,    \* option RelayResponseValidityGuardMode
  legacyGuard,  \* option RelayResponseValidityGuardEnabled
  health,       \* health[p]: "healthy", "unreachable", or "cooled" once the cooldown of an unreachable provider is over
  pc,           \* pc[r]: where the handler of r is
  requested,    \* requested[r]: the model name r carries
  planName,     \* planName[r]: the name the plan of r is built for
  plan,         \* plan[r]: the routes to try, tier after tier
  idx,          \* idx[r]: relay_attempt_index
  vmode,        \* vmode[r]: validityMode of the current attempt
  committed,    \* committed[r]: the stream's head went to the client
  meaningful,   \* meaningful[r]: the stream carried output
  buffer,       \* buffer[r]: pendingLines
  client,       \* client[r]: what was written to the caller of r
  logs          \* logs[r]: the usage records of r, in the order of the calls

request == <<requested, planName, plan>>
stream  == <<committed, meaningful, buffer>>
vars    == <<guardMode, legacyGuard, health, pc, request, idx, vmode, stream, client, logs>>

Modes      == {"off", "observe", "enforce"}
Kinds      == {"output", "noise"}
Categories == {"none", "transport", "upstream", "read_error", "invalid"}
Healths    == {"healthy", "unreachable", "cooled"}
Labels     == {"idle", "check", "plan", "attempt", "send", "stream",
               "markFailure", "markSuccess", "done"}

\* One write to the caller: who it comes from (an attempt, or 0 for the
\* gateway) and what it is.
Writes == [from : Nat, what : Kinds \cup {"head", "error"}]

\* A usage record.  "mode" is no column: it is the mode the attempt read.
Records == [index : Nat, route : Routes, status : {0, 1},
            category : Categories, mode : Modes]

TypeOK ==
  /\ guardMode   \in Modes \cup {"unset"}
  /\ legacyGuard \in BOOLEAN
  /\ health      \in [Providers -> Healths]
  /\ pc          \in [Requests -> Labels]
  /\ requested   \in [Requests -> Models]
  /\ planName    \in [Requests -> Models]
  /\ plan        \in [Requests -> Seq(Routes)]
  /\ idx         \in [Requests -> Nat]
  /\ vmode       \in [Requests -> Modes]
  /\ committed   \in [Requests -> BOOLEAN]
  /\ meaningful  \in [Requests -> BOOLEAN]
  /\ buffer      \in [Requests -> Seq(Kinds)]
  /\ client      \in [Requests -> Seq(Writes)]
  /\ logs        \in [Requests -> Seq(Records)]

Init ==
  /\ guardMode   = "enforce"
  /\ legacyGuard = TRUE
  /\ health      = [p \in Providers |-> "healthy"]
  /\ pc          = [r \in Requests |-> "idle"]
  /\ requested   \in [Requests -> Models]
  /\ planName    = requested
  /\ plan        = [r \in Requests |-> <<>>]
  /\ idx         = [r \in Requests |-> 0]
  /\ vmode       = [r \in Requests |-> "enforce"]
  /\ committed   = [r \in Requests |-> FALSE]
  /\ meaningful  = [r \in Requests |-> FALSE]
  /\ buffer      = [r \in Requests |-> <<>>]
  /\ client      = [r \in Requests |-> <<>>]
  /\ logs        = [r \in Requests |-> <<>>]

-----------------------------------------------------------------------------
(* Helpers. *)

\* The mode an attempt works with: the mode option, and only without a valid
\* one the legacy switch.
ValidityMode ==
  IF guardMode # "unset" THEN guardMode
  ELSE IF legacyGuard THEN "enforce" ELSE "off"

Route(r) == plan[r][idx[r]]

\* Mutant of Plans: the tiers by increasing priority.
PlansReversed(S) ==
  {p \in [1 .. Cardinality(S) -> S] :
     \A i, j \in 1 .. Cardinality(S) :
        i < j => p[i] # p[j] /\ PriorityOf[p[i]] <= PriorityOf[p[j]]}

\* The orders BuildRouteAttemptsByPriority may return for a set of routes:
\* the tiers by decreasing priority, each of them in any order.
Plans(S) ==
  {p \in [1 .. Cardinality(S) -> S] :
     \A i, j \in 1 .. Cardinality(S) :
        i < j => p[i] # p[j] /\ PriorityOf[p[i]] >= PriorityOf[p[j]]}

\* A provider is left out of plans until the cooldown of its last failure is
\* over.  (How late a plan may learn of a failure is the subject of RouteCache.)
HealthBlocked(p) == health[p] = "unreachable"

GoTo(r, label) == pc' = [pc EXCEPT ![r] = label]

Log(r, status, category) ==
  logs' = [logs EXCEPT ![r] = Append(@,
             [index |-> idx[r], route |-> Route(r), status |-> status,
              category |-> category, mode |-> vmode[r]])]

Write(r, from, whats) ==
  client' = [client EXCEPT ![r] =
               @ \o [i \in 1 .. Len(whats) |-> [from |-> from, what |-> whats[i]]]]

\* The handler answers with an error document of its own and returns.
Refuse(r) ==
  /\ Write(r, 0, <<"error">>)
  /\ GoTo(r, "done")

\* A failed attempt the next route may make good.
Retry(r, category, next) ==
  /\ Log(r, 0, category)
  /\ GoTo(r, next)

-----------------------------------------------------------------------------
(* The handler: controller/relay.go. *)

\* The catalogue's name is used unless the lookup fails.
Arrive(r) ==
  /\ pc[r] = "idle"
  /\ \E name \in {requested[r], CanonicalOf[requested[r]]} :
        planName' = [planName EXCEPT ![r] = name]
  /\ GoTo(r, "check")
  /\ UNCHANGED <<guardMode, legacyGuard, health, requested, plan, idx, vmode, stream, client, logs>>

CheckWhitelist(r) ==
  /\ pc[r] = "check"
  /\ \/ /\ planName[r] \in Whitelist
        /\ GoTo(r, "plan")
        /\ UNCHANGED client
     \/ /\ planName[r] \notin Whitelist
        /\ Refuse(r)
  /\ UNCHANGED <<guardMode, legacyGuard, health, request, idx, vmode, stream, logs>>

\* "excluded" are the candidates the other filters reject at this moment.
BuildPlan(r) ==
  /\ pc[r] = "plan"
  /\ \E excluded \in SUBSET RoutesOf[planName[r]] :
       LET eligible == {x \in RoutesOf[planName[r]] \ excluded : ~HealthBlocked(ProviderOf[x])}
       IN \/ /\ eligible # {}
             /\ \E p \in Plans(eligible) : plan' = [plan EXCEPT ![r] = p]
             /\ GoTo(r, "attempt")
             /\ UNCHANGED <<planName, client>>
          \/ /\ eligible = {}
             /\ planName[r] # requested[r]
             /\ planName' = [planName EXCEPT ![r] = requested[r]]
             /\ UNCHANGED <<pc, plan, client>>
          \/ /\ eligible = {}
             /\ planName[r] = requested[r]
             /\ Refuse(r)
             /\ UNCHANGED <<planName, plan>>
  /\ UNCHANGED <<guardMode, legacyGuard, health, requested, idx, vmode, stream, logs>>

\* The next route of the plan; ProxyToUpstream reads the mode first.
StartAttempt(r) ==
  /\ pc[r] = "attempt"
  /\ idx[r] < Len(plan[r])
  /\ idx'   = [idx EXCEPT ![r] = @ + 1]
  /\ vmode' = [vmode EXCEPT ![r] = ValidityMode]
  /\ GoTo(r, "send")
  /\ UNCHANGED <<guardMode, legacyGuard, health, request, stream, client, logs>>

\* Mutant of Exhausted: the handler returns without an answer.
ExhaustedSilently(r) ==
  /\ pc[r] = "attempt"
  /\ idx[r] = Len(plan[r])
  /\ GoTo(r, "done")
  /\ UNCHANGED <<guardMode, legacyGuard, health, request, idx, vmode, stream, client, logs>>

Exhausted(r) ==
  /\ pc[r] = "attempt"
  /\ idx[r] = Len(plan[r])
  /\ Refuse(r)
  /\ UNCHANGED <<guardMode, legacyGuard, health, request, idx, vmode, stream, logs>>

-----------------------------------------------------------------------------
(* One attempt: ProxyToUpstream up to the response's head. *)

\* The caller's body cannot be read (it is kept once it has been), or no
\* upstream request can be made of the provider's base URL: nothing is logged
\* and the other routes are not tried.
CannotForward(r) ==
  /\ pc[r] = "send"
  /\ Refuse(r)
  /\ UNCHANGED <<guardMode, legacyGuard, health, request, idx, vmode, stream, logs>>

\* No HTTP client for the provider's proxy settings: the provider is not blamed.
NoHTTPClient(r) ==
  /\ pc[r] = "send"
  /\ Retry(r, "transport", "attempt")
  /\ UNCHANGED <<guardMode, legacyGuard, health, request, idx, vmode, stream, client>>

\* Mutant of TransportError: the failed attempt is not recorded.
TransportErrorUnlogged(r) ==
  /\ pc[r] = "send"
  /\ GoTo(r, "markFailure")
  /\ UNCHANGED <<guardMode, legacyGuard, health, request, idx, vmode, stream, client, logs>>

TransportError(r) ==
  /\ pc[r] = "send"
  /\ Retry(r, "transport", "markFailure")
  /\ UNCHANGED <<guardMode, legacyGuard, health, request, idx, vmode, stream, client>>

\* A status of 400 or more; 502, 503 and 504 say that the provider is down,
\* unless the body of the response cannot be read.
UpstreamStatus(r) ==
  /\ pc[r] = "send"
  /\ \/ Retry(r, "read_error", "attempt")
     \/ Retry(r, "upstream", "attempt")
     \/ Retry(r, "upstream", "markFailure")
  /\ UNCHANGED <<guardMode, legacyGuard, health, request, idx, vmode, stream, client>>

\* proxyNonStreamResponse: the body is read whole, judged and written whole.
NonStreamResponse(r) ==
  /\ pc[r] = "send"
  /\ \/ /\ Retry(r, "read_error", "attempt")
        /\ UNCHANGED client
     \/ /\ vmode[r] = "enforce"
        /\ Retry(r, "invalid", "attempt")
        /\ UNCHANGED client
     \/ \E kind \in Kinds :
        /\ vmode[r] = "enforce" => kind = "output"
        /\ Write(r, idx[r], <<"head", kind>>)
        /\ Log(r, 1, IF vmode[r] = "observe" /\ kind = "noise" THEN "invalid" ELSE "none")
        /\ GoTo(r, "markSuccess")
  /\ UNCHANGED <<guardMode, legacyGuard, health, request, idx, vmode, stream>>

-----------------------------------------------------------------------------
(* One attempt: proxyStreamResponse. *)

\* Mutant of StreamStart: the head is kept among the lines.
StreamStartBuffersHead(r) ==
  /\ pc[r] = "send"
  /\ buffer' = [buffer EXCEPT ![r] = <<"head">>]
  /\ GoTo(r, "stream")
  /\ UNCHANGED <<guardMode, legacyGuard, health, request, idx, vmode, committed, meaningful, client, logs>>

\* Mutant of StreamStart: the head is sent at once in every mode.
StreamStartEager(r) ==
  /\ pc[r] = "send"
  /\ committed'  = [committed EXCEPT ![r] = TRUE]
  /\ Write(r, idx[r], <<"head">>)
  /\ GoTo(r, "stream")
  /\ UNCHANGED <<guardMode, legacyGuard, health, request, idx, vmode, meaningful, buffer, logs>>

StreamStart(r) ==
  /\ pc[r] = "send"
  /\ \/ /\ vmode[r] = "enforce"
        /\ UNCHANGED <<committed, client>>
     \/ /\ vmode[r] # "enforce"
        /\ committed' = [committed EXCEPT ![r] = TRUE]
        /\ Write(r, idx[r], <<"head">>)
  /\ GoTo(r, "stream")
  /\ UNCHANGED <<guardMode, legacyGuard, health, request, idx, vmode, meaningful, buffer, logs>>

\* The function returns: its locals are gone.
ReturnFromStream(r) ==
  /\ committed'  = [committed EXCEPT ![r] = FALSE]
  /\ meaningful' = [meaningful EXCEPT ![r] = FALSE]
  /\ buffer'     = [buffer EXCEPT ![r] = <<>>]

LinesRead(r) == IF committed[r] THEN Len(client[r]) - 1 ELSE Len(buffer[r])

\* A line of the stream.  It is passed on when the head has been; until then
\* it is kept, and the first output sends the head and every line kept.
StreamLine(r, kind) ==
  LET judged == vmode[r] # "off"
      usable == judged /\ kind = "output"
      lines  == Append(buffer[r], kind)
  IN
  /\ pc[r] = "stream"
  /\ LinesRead(r) < MaxLines
  /\ meaningful' = [meaningful EXCEPT ![r] = @ \/ usable]
  /\ \/ /\ committed[r]
        /\ Write(r, idx[r], <<kind>>)
        /\ UNCHANGED <<committed, buffer>>
     \/ /\ ~committed[r]
        /\ ~usable
        /\ buffer' = [buffer EXCEPT ![r] = lines]
        /\ UNCHANGED <<committed, client>>
     \/ /\ ~committed[r]
        /\ usable
        /\ Write(r, idx[r], <<"head">> \o lines)
        /\ buffer'    = [buffer EXCEPT ![r] = <<>>]
        /\ committed' = [committed EXCEPT ![r] = TRUE]
  /\ UNCHANGED <<guardMode, legacyGuard, health, pc, request, idx, vmode, logs>>

\* Mutant of StreamReadError: retried whatever the caller has been sent.
StreamReadErrorRetried(r) ==
  /\ pc[r] = "stream"
  /\ Retry(r, "read_error", "attempt")
  /\ ReturnFromStream(r)
  /\ UNCHANGED <<guardMode, legacyGuard, health, request, idx, vmode, client>>

\* Mutant of StreamReadError: a broken stream is held against the provider.
StreamReadErrorBlamed(r) ==
  /\ pc[r] = "stream"
  /\ Retry(r, "read_error", IF committed[r] THEN "markSuccess" ELSE "markFailure")
  /\ ReturnFromStream(r)
  /\ UNCHANGED <<guardMode, legacyGuard, health, request, idx, vmode, client>>

\* Reading the stream fails: the next route is tried unless the caller has
\* been sent a part; then the attempt is recorded as failed and ends as if it
\* had succeeded.
StreamReadError(r) ==
  /\ pc[r] = "stream"
  /\ \/ ~committed[r] /\ Retry(r, "read_error", "attempt")
     \/ committed[r]  /\ Retry(r, "read_error", "markSuccess")
  /\ ReturnFromStream(r)
  /\ UNCHANGED <<guardMode, legacyGuard, health, request, idx, vmode, client>>

\* Mutant of StreamEnd: a stream without output is retried without being
\* recorded as a failure.
StreamEndCountedAsSuccess(r) ==
  /\ pc[r] = "stream"
  /\ \/ /\ vmode[r] = "enforce"
        /\ ~meaningful[r]
        /\ Log(r, 1, "invalid")
        /\ GoTo(r, "attempt")
     \/ /\ vmode[r] # "enforce" \/ meaningful[r]
        /\ Log(r, 1, "none")
        /\ GoTo(r, "markSuccess")
  /\ ReturnFromStream(r)
  /\ UNCHANGED <<guardMode, legacyGuard, health, request, idx, vmode, client>>

\* The stream ends.  A judged stream without output is a failure under
\* "enforce" and only noted under "observe".
StreamEnd(r) ==
  /\ pc[r] = "stream"
  /\ \/ /\ vmode[r] = "enforce"
        /\ ~meaningful[r]
        /\ Retry(r, "invalid", "attempt")
     \/ /\ vmode[r] = "observe"
        /\ ~meaningful[r]
        /\ Log(r, 1, "invalid")
        /\ GoTo(r, "markSuccess")
     \/ /\ vmode[r] = "off" \/ meaningful[r]
        /\ Log(r, 1, "none")
        /\ GoTo(r, "markSuccess")
  /\ ReturnFromStream(r)
  /\ UNCHANGED <<guardMode, legacyGuard, health, request, idx, vmode, client>>

-----------------------------------------------------------------------------
(* The end of an attempt: the provider's health. *)

\* The provider's row may fail to be saved; that is logged and changes nothing.
MarkHealthFailure(r) ==
  /\ pc[r] = "markFailure"
  /\ \/ health' = [health EXCEPT ![ProviderOf[Route(r)]] = "unreachable"]
     \/ UNCHANGED health
  /\ GoTo(r, "attempt")
  /\ UNCHANGED <<guardMode, legacyGuard, request, idx, vmode, stream, client, logs>>

MarkHealthSuccess(r) ==
  /\ pc[r] = "markSuccess"
  /\ \/ health' = [health EXCEPT ![ProviderOf[Route(r)]] = "healthy"]
     \/ UNCHANGED health
  /\ GoTo(r, "done")
  /\ UNCHANGED <<guardMode, legacyGuard, request, idx, vmode, stream, client, logs>>

-----------------------------------------------------------------------------
(* The surroundings. *)

CooldownExpires(p) ==
  /\ health[p] = "unreachable"
  /\ health' = [health EXCEPT ![p] = "cooled"]
  /\ UNCHANGED <<guardMode, legacyGuard, pc, request, idx, vmode, stream, client, logs>>

\* The options the administrator may set; no mode but these three is accepted.
SetGuardMode(mode) ==
  /\ guardMode' = mode
  /\ UNCHANGED <<legacyGuard, health, pc, request, idx, vmode, stream, client, logs>>

SetLegacyGuard(enabled) ==
  /\ legacyGuard' = enabled
  /\ UNCHANGED <<guardMode, health, pc, request, idx, vmode, stream, client, logs>>

-----------------------------------------------------------------------------
Attempt(r) ==
  \/ CannotForward(r) \/ NoHTTPClient(r) \/ TransportError(r)
  \/ UpstreamStatus(r) \/ NonStreamResponse(r)
  \/ StreamStart(r) \/ StreamReadError(r) \/ StreamEnd(r)
  \/ \E kind \in Kinds : StreamLine(r, kind)

\* What the goroutine of r does once the request has come in.
Handle(r) ==
  \/ CheckWhitelist(r) \/ BuildPlan(r) \/ StartAttempt(r) \/ Exhausted(r)
  \/ Attempt(r) \/ MarkHealthFailure(r) \/ MarkHealthSuccess(r)

Surroundings ==
  \/ \E p \in Providers : CooldownExpires(p)
  \/ \E mode \in AdminModes : SetGuardMode(mode)
  \/ \E enabled \in AdminLegacy : SetLegacyGuard(enabled)

Next == (\E r \in Requests : Arrive(r) \/ Handle(r)) \/ Surroundings

SafeSpec == Init /\ [][Next]_vars

\* A goroutine that can run does, and an upstream cannot keep it for ever: the
\* HTTP client gives up after five minutes (provider_http.go:92).
Spec == SafeSpec /\ \A r \in Requests : WF_vars(Handle(r))

-----------------------------------------------------------------------------
(* Properties. *)

\* A caller is answered once, by one source: everything written to it comes
\* from the same attempt or is the gateway's error document, and a head or an
\* error document is written first and only once.  A route is therefore never
\* tried, and no error document written, after a part of an upstream's answer
\* was passed on (the "committed" test of proxyStreamResponse).
OneSource ==
  \A r \in Requests : \A i \in 1 .. Len(client[r]) :
     /\ client[r][i].from = client[r][1].from
     /\ client[r][i].what \in {"head", "error"} <=> i = 1
     /\ client[r][i].what = "error" <=> client[r][i].from = 0

\* Under "enforce" no byte of an upstream's answer reaches the caller unless
\* output does: an empty stream, an error envelope or a malformed body stays
\* inside the gateway, however its lines are ordered.
EnforcedAnswerHasOutput ==
  \A r \in Requests :
     client[r] # <<>> /\ client[r][1].from > 0 /\ vmode[r] = "enforce"
        => \E i \in 1 .. Len(client[r]) : client[r][i].what = "output"

\* The usage records of a request tell its story: record k is about the k-th
\* route of the plan and carries attempt index k, no attempt is recorded twice,
\* and none is missing but the one under way or one that could not be forwarded.
AttemptsRecorded ==
  \A r \in Requests :
     /\ Len(logs[r]) \in {idx[r] - 1, idx[r]}
     /\ \A k \in 1 .. Len(logs[r]) :
           logs[r][k].index = k /\ logs[r][k].route = plan[r][k]

\* A record of success is the request's last record, and what the caller was
\* sent comes from that attempt: a retried attempt is never counted, and
\* billed, as a success.  In return a caller an upstream has answered has a
\* record of success, unless reading failed after the head had been sent.
SuccessIsTheAnswer ==
  \A r \in Requests :
     /\ \A k \in 1 .. Len(logs[r]) : logs[r][k].status = 1 =>
           /\ k = Len(logs[r])
           /\ pc[r] \in {"markSuccess", "done"}
           /\ client[r] # <<>>
           /\ client[r][1].from = k
     /\ pc[r] = "done" /\ client[r][1].from > 0 =>
           LET last == logs[r][Len(logs[r])]
           IN last.status = 1 \/ last.category = "read_error"

\* A lower tier is a last resort: while a route is being tried, every planned
\* route of a higher priority has been tried by this request and has failed.
DowngradeAfterTierFailed ==
  \A r \in Requests : pc[r] \in {"send", "stream"} =>
     \A i \in 1 .. Len(plan[r]) :
        PriorityOf[plan[r][i]] > PriorityOf[Route(r)] =>
           \E k \in 1 .. Len(logs[r]) :
              logs[r][k].route = plan[r][i] /\ logs[r][k].status = 0

\* Only an attempt that could not reach a provider makes it unreachable: never
\* one that failed because of what the provider answered (an invalid body, a
\* broken stream), although all of them are retried alike.
UnreachableHasEvidence ==
  \A p \in Providers : health[p] # "healthy" =>
     \E r \in Requests : \E k \in 1 .. Len(logs[r]) :
        /\ ProviderOf[logs[r][k].route] = p
        /\ logs[r][k].category \in {"transport", "upstream"}

\* The promise to the caller, as the abstract specification states it: the
\* first write fixes the source, and a request that came in is answered.
answering(r) == client[r] # <<>>

Promise == INSTANCE OneAnswer WITH
  Calls    <- Requests,
  Sources  <- 0 .. Cardinality(Routes),
  NoSource <- -1,
  phase    <- [r \in Requests |->
                 IF pc[r] = "idle" THEN "idle"
                 ELSE IF pc[r] = "done" THEN "answered"
                 ELSE IF answering(r) THEN "answering" ELSE "waiting"],
  source   <- [r \in Requests |-> IF answering(r) THEN client[r][1].from ELSE -1]

PromiseKept == Promise!ASpec

-----------------------------------------------------------------------------
(* The inductive invariant: what the handler of one request knows at each  *)
(* point, and for the shared health what its last record says.             *)

Progress(r) ==
  /\ idx[r] <= Len(plan[r])
  /\ pc[r] \in {"idle", "check", "plan"} => idx[r] = 0
  /\ pc[r] \in {"send", "stream", "markFailure", "markSuccess"} => idx[r] >= 1
  /\ \A i, j \in 1 .. Len(plan[r]) :
        i < j => PriorityOf[plan[r][i]] >= PriorityOf[plan[r][j]]

\* Before "done" whatever the caller has been sent comes from the current attempt.
Answering(r) ==
  /\ client[r] # <<>> =>
        /\ pc[r] \in {"stream", "markSuccess", "done"}
        /\ pc[r] # "done" => client[r][1].from = idx[r]
        /\ client[r][1].from \in {0, idx[r]}
  /\ pc[r] \in {"markSuccess", "done"} => client[r] # <<>>
  /\ \A i \in 1 .. Len(client[r]) :
        /\ client[r][i].from = client[r][1].from
        /\ client[r][i].what \in {"head", "error"} <=> i = 1
        /\ client[r][i].what = "error" <=> client[r][i].from = 0

\* A stream is committed when the caller has its head; under "enforce" that
\* is when output has been seen.
Streaming(r) ==
  /\ pc[r] = "stream" =>
        /\ committed[r] <=> client[r] # <<>>
        /\ committed[r] <=> meaningful[r] \/ vmode[r] # "enforce"
  /\ pc[r] # "stream" => ~committed[r] /\ ~meaningful[r] /\ buffer[r] = <<>>
  /\ client[r] # <<>> /\ client[r][1].from > 0 /\ vmode[r] = "enforce"
        => \E i \in 1 .. Len(client[r]) : client[r][i].what = "output"

Recorded(r) ==
  /\ Len(logs[r]) \in {idx[r] - 1, idx[r]}
  /\ pc[r] \in {"idle", "check", "plan", "attempt", "markFailure", "markSuccess"}
        => Len(logs[r]) = idx[r]
  /\ pc[r] \in {"send", "stream"} => Len(logs[r]) = idx[r] - 1
  /\ \A k \in 1 .. Len(logs[r]) :
        /\ logs[r][k].index = k
        /\ logs[r][k].route = plan[r][k]
        /\ logs[r][k].status = 1 =>
              /\ k = Len(logs[r])
              /\ pc[r] \in {"markSuccess", "done"}
              /\ client[r][1].from = k
  /\ pc[r] = "markSuccess" \/ (pc[r] = "done" /\ client[r][1].from > 0) =>
        /\ Len(logs[r]) = idx[r]
        /\ logs[r][idx[r]].status = 1 \/ logs[r][idx[r]].category = "read_error"
  /\ pc[r] = "markFailure" => logs[r][idx[r]].category \in {"transport", "upstream"}

Local(r) == Progress(r) /\ Answering(r) /\ Streaming(r) /\ Recorded(r)

IInv == TypeOK /\ (\A r \in Requests : Local(r)) /\ UnreachableHasEvidence

-----------------------------------------------------------------------------
(* What the documents say and the code does not do. *)

\* README.md:294: "an error that cannot be retried (such as an explicit failure
\* of the upstream) ends the request early, without any further downgrade".
\* The code marks every upstream status of 400 or more as retryable.
UpstreamFailureEndsRequest ==
  \A r \in Requests : \A k \in 1 .. Len(logs[r]) :
     logs[r][k].category = "upstream" => idx[r] = k

\* docs/relay-reliability-rollout-checklist.md:82: "Disable
\* RelayResponseValidityGuardEnabled to restore legacy 2xx transport-only
\* success behavior": an attempt started while the switch is off judges nothing.
\* The mode option always has a value, and the switch is never consulted.
LegacySwitchRestoresTransportOnly ==
  [][\A r \in Requests :
       ~legacyGuard /\ pc[r] = "attempt" /\ pc'[r] = "send" => vmode'[r] = "off"]_vars
=============================================================================
