----------------------------- MODULE Suppression -----------------------------
(***************************************************************************)
(* Routes whose answers are invalid: the suppression of                    *)
(* model/model_route.go, which every plan computes from the usage records  *)
(* of its window, beside requests that were planned earlier and are still  *)
(* at their attempts.                                                      *)
(*                                                                         *)
(* A plan is the set of the routes it holds; its order, and what else may  *)
(* exclude a route, is the subject of Relay.  The switch is on, and the    *)
(* options do not change.  Time is counted in units of which window and    *)
(* cooldown are whole numbers.                                             *)
(***************************************************************************)
EXTENDS Integers, Sequences, FiniteSets, FiniteSetsExt

CONSTANTS Routes,       \* routes of the model that is asked for
          Requests,     \* requests at work at one time
          InvalidMax,   \* InvalidResponseThreshold
          LookBack,     \* InvalidResponseWindowMinutes
          Cooldown,     \* InvalidResponseCooldownMinutes
          LastMinute,   \* bound on the clock
          MaxRecords    \* bound on attempts

ASSUME SuppressionAssumption ==
  /\ {InvalidMax, LookBack, Cooldown, LastMinute} \subseteq Nat \ {0}
  /\ MaxRecords \in Nat
  /\ IsFiniteSet(Requests)

VARIABLES
  minute,   \* the time
  logs,     \* the usage records: route, created_at as stamp, and what they say
  request,  \* request[k]: where request k is, and the rest of its plan
  tried     \* attempts so far

suppressionVars == <<minute, logs, request, tried>>

Minutes  == 0 .. LastMinute
\* "valid" records satisfy successCondition, "invalid" ones the condition of
\* usageLogInvalidResponseSQLCondition, and "failed" ones neither.
Says     == {"invalid", "valid", "failed"}
UsageLog == [route : Routes, says : Says, stamp : Minutes]
Unasked  == [at |-> "none", plan |-> {}, route |-> "none", says |-> "valid", stamp |-> 0]
States   == [at : {"none", "trying", "writing"}, plan : SUBSET Routes,
             route : Routes \cup {"none"}, says : Says, stamp : Minutes]

SuppressionInit ==
  /\ minute = 1 /\ tried = 0
  /\ logs = <<>>
  /\ request = [k \in Requests |-> Unasked]

----------------------------------------------------------------------------
(* loadRouteInvalidResponseSuppressionByTokenModel                          *)

\* Records of route r from s to t that say so.
Those(r, says, s, t) ==
  {i \in DOMAIN logs : logs[i].route = r /\ logs[i].says = says /\ logs[i].stamp \in s .. t}

Saying(r, says, s, t) == Cardinality(Those(r, says, s, t))

LastInvalid(r, s, t) == Max({0} \cup {logs[i].stamp : i \in Those(r, "invalid", s, t)})

\* Half of the records or fewer are invalid, and one is valid.
Recovered(r, s, t) ==
  /\ Saying(r, "valid", s, t) > 0
  /\ Saying(r, "invalid", s, t) <= Saying(r, "valid", s, t) + Saying(r, "failed", s, t)

\* Mutant of SuppressedUntil: one invalid answer more is let pass.
SuppressedUntilLate(r, now) ==
  LET since == now - LookBack
      last  == LastInvalid(r, since, now)
  IN IF Saying(r, "invalid", since, now) <= InvalidMax \/ last = 0 THEN 0
     ELSE IF now < last + Cooldown THEN last + Cooldown
     ELSE IF Recovered(r, since, now) THEN 0
     ELSE now + Cooldown

\* When the route may be planned again: the end of the cooldown after the last
\* invalid answer, and of another one while the window shows no recovery.
SuppressedUntil(r, now) ==
  LET since == now - LookBack
      last  == LastInvalid(r, since, now)
  IN IF Saying(r, "invalid", since, now) < InvalidMax \/ last = 0 THEN 0
     ELSE IF now < last + Cooldown THEN last + Cooldown
     ELSE IF Recovered(r, since, now) THEN 0
     ELSE now + Cooldown

Suppressed(r, now) == SuppressedUntil(r, now) > now

----------------------------------------------------------------------------
Doing(k, place) == request[k].at = place

\* BuildRouteAttemptsByPriority; a plan without a route is refused.
MakePlan(k) ==
  LET plan == {r \in Routes : ~Suppressed(r, minute)}
  IN /\ Doing(k, "none") /\ plan # {}
     /\ request' = [request EXCEPT ![k] = [@ EXCEPT !.at = "trying", !.plan = plan]]
     /\ UNCHANGED <<minute, logs, tried>>

\* An attempt on the next route ends, and its record takes the time.
Attempt(k) ==
  /\ Doing(k, "trying") /\ tried < MaxRecords
  /\ tried' = tried + 1
  /\ \E r \in request[k].plan, says \in Says :
       request' = [request EXCEPT ![k] =
                     [at |-> "writing", plan |-> @.plan \ {r}, route |-> r,
                      says |-> says, stamp |-> minute]]
  /\ UNCHANGED <<minute, logs>>

\* The record is written; a request goes on until it has an answer or no route.
WriteRecord(k) ==
  LET q == request[k]
  IN /\ Doing(k, "writing")
     /\ logs' = Append(logs, [route |-> q.route, says |-> q.says, stamp |-> q.stamp])
     /\ request' = [request EXCEPT ![k] =
                      IF q.says = "valid" \/ q.plan = {} THEN Unasked
                      ELSE [Unasked EXCEPT !.at = "trying", !.plan = q.plan]]
     /\ UNCHANGED <<minute, tried>>

\* The caller leaves, or the request ends without the rest of its plan.
Leave(k) ==
  /\ Doing(k, "trying")
  /\ request' = [request EXCEPT ![k] = Unasked]
  /\ UNCHANGED <<minute, logs, tried>>

MinutePasses ==
  /\ minute < LastMinute /\ minute' = minute + 1
  /\ UNCHANGED <<logs, request, tried>>

SuppressionNext ==
  \/ \E k \in Requests : MakePlan(k) \/ Attempt(k) \/ WriteRecord(k) \/ Leave(k)
  \/ MinutePasses

SuppressionSpec == SuppressionInit /\ [][SuppressionNext]_suppressionVars

----------------------------------------------------------------------------
(* Properties                                                               *)

\* Every variable keeps to its range.
SuppressionTypeOK ==
  /\ minute \in Minutes /\ tried \in 0 .. MaxRecords
  /\ logs \in Seq(UsageLog) /\ Len(logs) <= MaxRecords
  /\ request \in [Requests -> States]

\* model_route.go:1038: a span as long as the cooldown, or as the window if that is
\* shorter, sees fewer invalid answers of a route than the threshold, and one more
\* for each request that was planned before they were written.  A span as long as
\* the window may see more only when the route has answered otherwise as often.
InvalidBounded ==
  \A r \in {logs[i].route : i \in DOMAIN logs}, s \in Minutes :
    LET among(limit, span) ==
          Saying(r, "invalid", s, s + span) <= limit - 1 + Cardinality(Requests)
        others == Saying(r, "valid", s - LookBack, s + LookBack)
                  + Saying(r, "failed", s - LookBack, s + LookBack)
    IN /\ among(InvalidMax, Min({Cooldown - 1, LookBack}))
       /\ among(Max({InvalidMax, others + 1}), LookBack)
=============================================================================
