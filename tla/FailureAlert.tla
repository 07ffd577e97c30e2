---------------------------- MODULE FailureAlert ----------------------------
(***************************************************************************)
(* The request-failure alert of a provider: EvaluateRequestFailureAlert of  *)
(* service/notification.go, which every failed attempt runs in a goroutine *)
(* of its own after it has written its usage record.  Nothing keeps the     *)
(* evaluations apart: each counts the records of its window, reads the row  *)
(* of the alert, and saves it.                                              *)
(*                                                                         *)
(* Time is counted in units of which the window is a whole number.  The     *)
(* alert is switched on and its options do not change.  A record is its     *)
(* time; the samples and the wording of the notice are left out.  The row   *)
(* of another key (see HealthAlert) is not touched by this code.            *)
(***************************************************************************)
EXTENDS Integers, Sequences, FiniteSets

CONSTANTS Evaluators,  \* goroutines at work at one time
          Window,      \* RequestFailureWindowMinutes
          Threshold,   \* RequestFailureThreshold
          Horizon,     \* bound on the clock
          MaxLogs      \* bound on failed attempts

ASSUME FailureAssumption ==
  /\ {Window, Threshold} \subseteq Nat \ {0}
  /\ {Horizon, MaxLogs} \subseteq Nat /\ Horizon > 0
  /\ IsFiniteSet(Evaluators)

VARIABLES
  clock,    \* the time, in seconds as the program sees it
  stamped,  \* failed attempts so far
  written,  \* created_at of the failed records
  incident, \* the row of the alert, or NoRow
  fired,    \* the notices sent, each as the time of the failure evaluated
  eval,     \* eval[k]: where evaluation k is, and its locals
  lost,     \* a statement failed
  crossed   \* an evaluation began before another had ended

failureVars == <<clock, stamped, written, incident, fired, eval, lost, crossed>>

Times   == 0 .. Horizon
NoRow   == [seen |-> 0, status |-> "none"]   \* last_observed_at and status
Alerts  == [seen : Times, status : {"none", "open", "closed"}]
Evals   == [at : {"rest", "insert", "count", "load", "save", "create"},
            stamp : Times, count : 0 .. MaxLogs, row : Alerts, fires : BOOLEAN]
Asleep  == [at |-> "rest", stamp |-> 0, count |-> 0, row |-> NoRow, fires |-> FALSE]

FailureInit ==
  /\ clock = 1 /\ stamped = 0
  /\ written = <<>>
  /\ incident = NoRow /\ fired = <<>>
  /\ eval = [k \in Evaluators |-> Asleep]
  /\ lost = FALSE /\ crossed = FALSE

----------------------------------------------------------------------------
(* Steps                                                                    *)

Is(k, place)  == eval[k].at = place
Set(k, e)     == eval' = [eval EXCEPT ![k] = e]
Whole         == UNCHANGED lost
Error         == ~lost /\ lost' = TRUE

Tick ==
  /\ clock < Horizon /\ clock' = clock + 1
  /\ UNCHANGED <<stamped, written, incident, fired, eval, lost, crossed>>

\* UsageLog.Insert takes the time, and the INSERT follows.
Stamp(k) ==
  /\ Is(k, "rest") /\ stamped < MaxLogs
  /\ stamped' = stamped + 1
  /\ Set(k, [Asleep EXCEPT !.at = "insert", !.stamp = clock])
  /\ crossed' = (crossed \/ \E j \in Evaluators : ~Is(j, "rest"))
  /\ UNCHANGED <<clock, written, incident, fired, lost>>

Insert(k) ==
  /\ Is(k, "insert")
  /\ \/ /\ Whole /\ written' = Append(written, eval[k].stamp)
        /\ Set(k, [eval[k] EXCEPT !.at = "count"])
     \/ Error /\ Set(k, Asleep) /\ UNCHANGED written
  /\ UNCHANGED <<clock, stamped, incident, fired, crossed>>

\* CountFailedUsageLogsSince has no upper end.
Since(s) == Cardinality({i \in DOMAIN written : s <= written[i]})

Count(k) ==
  /\ Is(k, "count")
  /\ \/ Whole /\ Set(k, [eval[k] EXCEPT !.at = "load", !.count = Since(eval[k].stamp - Window + 1)])
     \/ Error /\ Set(k, Asleep)
  /\ UNCHANGED <<clock, stamped, written, incident, fired, crossed>>

\* Mutant of Judged: an alert that was opened is not closed when failures cease.
JudgedForGood(row, now, count) ==
  LET status == IF row.status = "none" THEN "closed" ELSE row.status
      fires  == count >= Threshold /\ status # "open"
  IN [row   |-> [seen |-> now, status |-> IF fires THEN "open" ELSE status],
      fires |-> fires]

\* The row as the evaluation of a failure at "now" leaves it, and whether it fires.
Judged(row, now, count) ==
  LET quiet  == row.seen > 0 /\ now - row.seen > Window
      status == IF quiet \/ row.status = "none" THEN "closed" ELSE row.status
      fires  == count >= Threshold /\ status # "open"
  IN [row   |-> [seen |-> now, status |-> IF fires THEN "open" ELSE status],
      fires |-> fires]

Load(k) ==
  LET judged == Judged(incident, eval[k].stamp, eval[k].count)
  IN /\ Is(k, "load")
     /\ \/ Whole /\ Set(k, [eval[k] EXCEPT !.at = "save", !.count = 0,
                                             !.row = judged.row, !.fires = judged.fires])
        \/ Error /\ Set(k, Asleep)
     /\ UNCHANGED <<clock, stamped, written, incident, fired, crossed>>

\* The notice goes out also when the row could not be saved.
Told(k) == fired' = IF eval[k].fires THEN Append(fired, eval[k].stamp) ELSE fired

\* SaveNotificationAlertState looks for the row once more.
SaveRow(k) ==
  /\ Is(k, "save")
  /\ \/ /\ Whole /\ incident # NoRow /\ incident' = eval[k].row
        /\ Told(k) /\ Set(k, Asleep)
     \/ /\ Whole /\ incident = NoRow /\ UNCHANGED <<incident, fired>>
        /\ Set(k, [eval[k] EXCEPT !.at = "create"])
     \/ /\ Error /\ Told(k) /\ Set(k, Asleep) /\ UNCHANGED incident
  /\ UNCHANGED <<clock, stamped, written, crossed>>

\* The unique index refuses a second row.
CreateRow(k) ==
  /\ Is(k, "create") /\ Told(k) /\ Set(k, Asleep)
  /\ \/ Whole /\ incident' = IF incident = NoRow THEN eval[k].row ELSE incident
     \/ Error /\ UNCHANGED incident
  /\ UNCHANGED <<clock, stamped, written, crossed>>

FailureNext ==
  \/ \E k \in Evaluators : Stamp(k) \/ Insert(k) \/ Count(k) \/ Load(k) \/ SaveRow(k) \/ CreateRow(k)
  \/ Tick

FailureSpec == FailureInit /\ [][FailureNext]_failureVars

----------------------------------------------------------------------------
(* Properties                                                               *)

\* Every variable keeps to its range.
FailureTypeOK ==
  /\ clock \in Times /\ stamped \in 0 .. MaxLogs
  /\ {written, fired} \subseteq Seq(Times) /\ {Len(written), Len(fired)} \subseteq 0 .. MaxLogs
  /\ incident \in Alerts
  /\ eval \in [Evaluators -> Evals]
  /\ {lost, crossed} \subseteq BOOLEAN

Failures == {written[i] : i \in DOMAIN written}
Within(s, t) == Cardinality({i \in DOMAIN written : s <= written[i] /\ written[i] <= t})

\* Failures s and t belong to one spell: no gap between neighbours exceeds the window.
OneSpell(s, t) ==
  \A u \in Failures : s <= u /\ u < t => \E v \in Failures : u < v /\ v <= u + Window
\* The times of the spell that t belongs to.
SpellOf(t) == {u \in Failures : IF u <= t THEN OneSpell(u, t) ELSE OneSpell(t, u)}

Quiet == \A k \in Evaluators : Is(k, "rest")

\* notification.go:479: when the threshold was reached in the window of some failure,
\* a notice was sent for the spell of failures that it belongs to, or for a later
\* one that had begun before its evaluation ended, however the evaluations overlap,
\* come late or write over each other's row; and, as
\* docs/NOTIFICATION_SETTINGS_GUIDE.md:51 says of one incident, there is one notice
\* in a spell unless evaluations overlap.  Only a statement that fails breaks this.
BurstToldOnce ==
  Quiet /\ ~lost =>
    \A t \in Failures :
      /\ Within(t - Window + 1, t) >= Threshold =>
            \E s \in SpellOf(t), i \in DOMAIN fired : s <= fired[i]
      /\ ~crossed =>
            \A i, j \in DOMAIN fired : {fired[i], fired[j]} \subseteq SpellOf(t) => i = j
=============================================================================
