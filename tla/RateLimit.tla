------------------------------ MODULE RateLimit ------------------------------
(***************************************************************************)
(* Who is let in by a rate limit: InMemoryRateLimiter of                   *)
(* common/rate-limit.go, and the limiter on Redis of                       *)
(* middleware/rate-limit.go.  Both keep the times of the last requests of  *)
(* a caller; the first does so under a lock, the second in calls that      *)
(* those of other requests fall between, and whose errors it ignores but   *)
(* for the first.                                                          *)
(*                                                                         *)
(* One caller; how the key is made of an address or a user is left out.    *)
(* Time is counted in parts of a second: memory keeps whole seconds, Redis *)
(* the exact time.                                                         *)
(***************************************************************************)
EXTENDS Integers, Sequences, FiniteSets, FiniteSetsExt

CONSTANTS Callers,     \* requests at work at one time
          MaxRequests, \* maxRequestNum
          Duration,    \* duration, in seconds
          Expiration,  \* RateLimitKeyExpirationDuration, in seconds
          Parts,       \* parts of a second
          Patience,    \* the longest a request is in the limiter, in parts of a second
          LastPart,    \* bound on the clock
          MaxErrors    \* bound on calls to Redis that fail

\* common/constants.go:69
ASSUME RateAssumption ==
  /\ {MaxRequests, Duration, Parts, LastPart} \subseteq Nat \ {0}
  /\ {Expiration, Patience, MaxErrors} \subseteq Nat
  /\ Duration <= Expiration /\ IsFiniteSet(Callers)

VARIABLES
  backend,  \* "memory" or "redis"
  part,     \* the time
  queue,    \* the times kept, the oldest first; empty when there is no key
  expiry,   \* when the key of Redis expires, or 0
  call,     \* call[k]: where request k is in redisRateLimiter, and its locals
  passed,   \* the times at which requests were let in, in order
  errors    \* ignored errors so far

rateVars == <<backend, part, queue, expiry, call, passed, errors>>

Parted  == 0 .. LastPart
Seconds(t) == t \div Parts
Calls   == [at : {"free", "oldest", "judge", "stamp", "push", "trim", "expire"},
            time : Parted,      \* oldTime, then the time to be kept
            full : BOOLEAN,     \* the list was full: it is trimmed
            age : 0 .. Patience]
Free    == [age |-> 0, at |-> "free", full |-> FALSE, time |-> 0]

RateInit ==
  /\ backend \in {"memory", "redis"}
  /\ part = 1 /\ queue = <<>> /\ expiry = 0
  /\ call = [k \in Callers |-> Free]
  /\ passed = <<>> /\ errors = 0

----------------------------------------------------------------------------
In(k, place) == backend = "redis" /\ call[k].at = place
Leaves(k)    == call' = [call EXCEPT ![k] = Free]
Be(k, place, time, full) ==
  call' = [call EXCEPT ![k] = [age |-> @.age, at |-> place, full |-> full, time |-> time]]
LetIn(t)     == passed' = Append(passed, t)
Answered     == UNCHANGED errors
Ignored      == errors < MaxErrors /\ errors' = errors + 1

\* Mutant of Request: at the boundary a second too early.
RequestEarly ==
  /\ backend = "memory" /\ LetIn(part)
  /\ \/ Len(queue) < MaxRequests /\ queue' = Append(queue, Seconds(part))
     \/ /\ Len(queue) = MaxRequests
        /\ Seconds(part) - queue[1] >= Duration - 1
        /\ queue' = Append(Tail(queue), Seconds(part))
  /\ UNCHANGED <<backend, part, expiry, call, errors>>

\* InMemoryRateLimiter.Request, when it says yes.
Request ==
  /\ backend = "memory" /\ LetIn(part)
  /\ \/ Len(queue) < MaxRequests /\ queue' = Append(queue, Seconds(part))
     \/ /\ Len(queue) = MaxRequests
        /\ Seconds(part) - queue[1] >= Duration
        /\ queue' = Append(Tail(queue), Seconds(part))
  /\ UNCHANGED <<backend, part, expiry, call, errors>>

\* clearExpiredItems
Clear ==
  /\ backend = "memory" /\ queue # <<>>
  /\ Seconds(part) - queue[Len(queue)] > Expiration
  /\ queue' = <<>>
  /\ UNCHANGED <<backend, part, expiry, call, passed, errors>>

\* LLEN.  An error of it, or of LINDEX, ends the request.
Length(k) ==
  /\ In(k, "free")
  /\ Be(k, IF Len(queue) < MaxRequests THEN "stamp" ELSE "oldest", 0, FALSE)
  /\ UNCHANGED <<backend, part, queue, expiry, passed, errors>>

\* LINDEX -1
Oldest(k) ==
  /\ In(k, "oldest")
  /\ IF queue = <<>> THEN Leaves(k) ELSE Be(k, "judge", queue[1], FALSE)
  /\ UNCHANGED <<backend, part, queue, expiry, passed, errors>>

Judgement(k) ==
  /\ In(k, "judge")
  /\ IF Seconds(part - call[k].time) < Duration
     THEN Be(k, "expire", 0, FALSE)
     ELSE Be(k, "stamp", 0, TRUE)
  /\ UNCHANGED <<backend, part, queue, expiry, passed, errors>>

\* The time is taken before it is sent.
TakeTime(k) ==
  /\ In(k, "stamp") /\ LetIn(part)
  /\ Be(k, "push", part, call[k].full)
  /\ UNCHANGED <<backend, part, queue, expiry, errors>>

\* LPUSH
Push(k) ==
  /\ In(k, "push")
  /\ \/ Answered /\ queue' = Append(queue, call[k].time)
     \/ Ignored /\ UNCHANGED queue
  /\ Be(k, IF call[k].full THEN "trim" ELSE "expire", 0, FALSE)
  /\ UNCHANGED <<backend, part, expiry, passed>>

\* LTRIM keeps the newest.
Newest(n) == SubSeq(queue, Max({1, Len(queue) - n + 1}), Len(queue))
Trim(k) ==
  /\ In(k, "trim")
  /\ \/ Answered /\ queue' = Newest(MaxRequests)
     \/ Ignored /\ UNCHANGED queue
  /\ Be(k, "expire", 0, FALSE)
  /\ UNCHANGED <<backend, part, expiry, passed>>

\* EXPIRE, also for those who are refused.
Expire(k) ==
  /\ In(k, "expire") /\ Leaves(k)
  /\ \/ Answered /\ expiry' = IF queue = <<>> THEN 0 ELSE part + Expiration * Parts
     \/ Ignored /\ UNCHANGED expiry
  /\ UNCHANGED <<backend, part, queue, passed>>

\* A key of Redis is gone when its time is over.
TimePasses ==
  LET over == expiry # 0 /\ part + 1 >= expiry
  IN /\ part < LastPart /\ part' = part + 1
     /\ queue' = IF over THEN <<>> ELSE queue
     /\ expiry' = IF over THEN 0 ELSE expiry
     /\ \A k \in Callers : call[k].age < Patience
     /\ call' = [k \in Callers |-> IF In(k, "free") \/ backend = "memory" THEN Free
                                   ELSE [call[k] EXCEPT !.age = @ + 1]]
     /\ UNCHANGED <<backend, passed, errors>>

RateNext ==
  \/ Request \/ Clear
  \/ \E k \in Callers : Length(k) \/ Oldest(k) \/ Judgement(k) \/ TakeTime(k) \/ Push(k)
                        \/ Trim(k) \/ Expire(k)
  \/ TimePasses

RateSpec == RateInit /\ [][RateNext]_rateVars

----------------------------------------------------------------------------
(* Properties                                                               *)

\* Every variable keeps to its range; a list on Redis is longer than the limit only
\* by requests that were at work together.
RateTypeOK ==
  /\ backend \in {"memory", "redis"} /\ part \in Parted
  /\ queue \in Seq(Parted) /\ Len(queue) <= MaxRequests + 2 * Cardinality(Callers) + MaxErrors
  /\ expiry \in 0 .. LastPart + Expiration * Parts
  /\ call \in [Callers -> Calls]
  /\ passed \in Seq(Parted) /\ errors \in 0 .. MaxErrors

\* common/rate-limit.go:54 and middleware/rate-limit.go:28: no span as long as the
\* duration has more requests than the limit, so that the one that comes a limit
\* later comes after it.  In memory the span is a second shorter, for parts of
\* seconds are not kept.  On Redis more come: one that was at work when the span
\* began may push its older time behind those of the span, and when that time comes
\* to the front it lets in all who then look at it.  With n requests at work at one
\* time that is n * n - 1 on top; one request that is alone may come once more when
\* the key expires before it has prolonged it.
Span   == IF backend = "memory" THEN (Duration - 1) * Parts ELSE Duration * Parts - 1
Excess ==
  LET n == Cardinality(Callers)
  IN IF backend = "memory" THEN 0 ELSE IF n <= 1 THEN 1 ELSE n * n - 1
LimitKept ==
  errors = 0 =>
    \A first, later \in DOMAIN passed :
      later = first + MaxRequests + Excess => passed[later] - passed[first] > Span
=============================================================================
