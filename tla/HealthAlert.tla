---------------------------- MODULE HealthAlert ----------------------------
(***************************************************************************)
(* What becomes of a provider's health when relay attempts and             *)
(* synchronisations judge it at the same time: the marks of                *)
(* service/provider_http.go and model/provider_runtime.go, the alert row   *)
(* of service/notification.go and the notices sent.                        *)
(*                                                                         *)
(* An attempt works on the Provider of the routing snapshot, which it      *)
(* shares with every plan made from that snapshot; a synchronisation works *)
(* on a Provider of its own.  Both are objects of "heap".  The snapshot is *)
(* dropped by every mark and loaded again by the next plan; how it stays   *)
(* true is the subject of RouteCache, and a plan here finds it whole.      *)
(* Reasons, times and the delivery of a notice are left out.               *)
(***************************************************************************)
EXTENDS Integers, FiniteSets

CONSTANTS Attempts,   \* relay attempts on the provider
          Syncs,      \* synchronisations of the provider
          MaxFaults   \* bound on failing statements

ASSUME HealthAssumption ==
  /\ IsFiniteSet(Attempts \cup Syncs)
  /\ Attempts \cap Syncs = {}
  /\ MaxFaults \in Nat

VARIABLES
  unreachable,  \* health_status of the provider's row
  cooling,      \* its health_cooldown_until is still to come
  snapshot,     \* the object of the routing snapshot, or 0
  heap,         \* heap[o]: object o says "unreachable"
  alert,        \* status of the row of the provider's alert, or "none"
  told,         \* the notice sent last, "none" since an outage has begun
  job,          \* job[k]: where goroutine k is, and its locals
  torn,         \* a mark failed, overlapped another or judged by a stale object
  healthFaults  \* failing statements so far

healthVars == <<unreachable, cooling, snapshot, heap, alert, told, job, torn, healthFaults>>

Judges  == Attempts \cup Syncs
Objects == 1 .. Cardinality(Judges) + 1
Stages  == {"rest", "work", "look", "commit", "copy", "alert", "create", "notice"}
Jobs    == [at : Stages,
            object : Objects \cup {0},   \* the Provider it works on
            failed : BOOLEAN,            \* what it marks
            was : BOOLEAN,               \* wasUnreachable
            knew : BOOLEAN]              \* it took up a published outage, which has not ended since

Resting == [at |-> "rest", failed |-> FALSE, knew |-> FALSE, object |-> 0, was |-> FALSE]

HealthInit ==
  /\ unreachable = FALSE /\ cooling = FALSE
  /\ snapshot = 0 /\ heap = [o \in Objects |-> FALSE]
  /\ alert = "none" /\ told = "none"
  /\ job = [k \in Judges |-> Resting]
  /\ torn = FALSE /\ healthFaults = 0

----------------------------------------------------------------------------
(* Steps                                                                    *)

On(k, stage)  == job[k].at = stage
To(k, stage)  == job' = [job EXCEPT ![k].at = stage]
Ends(k)       == job' = [job EXCEPT ![k] = Resting]
Marking(k)    == job[k].at \notin {"rest", "work", "look"}
Fine          == UNCHANGED healthFaults
Breaks        == healthFaults < MaxFaults /\ healthFaults' = healthFaults + 1 /\ torn' = TRUE

\* What is left of the heap "h" when k lets its object go, with "kept" the snapshot.
Without(k, h, kept) ==
  [o \in Objects |-> h[o] /\ (o = kept \/ \E j \in Judges \ {k} : job[j].object = o)]

\* An object that nobody holds.
Fresh == CHOOSE o \in Objects : o # snapshot /\ \A k \in Judges : job[k].object # o

\* Between the commit of a mark and the drop of the snapshot an outage is known
\* to the table only.
Published == unreachable /\ \A k \in Judges : ~On(k, "copy")

Begin(k, o) == job' = [job EXCEPT ![k] = [Resting EXCEPT !.at = "work", !.object = o, !.knew = Published]]

\* A plan takes the provider unless its health blocks it, see
\* CanParticipateInAutomatedUseAt.
TakePlan(k) ==
  /\ On(k, "rest")
  /\ LET o == IF snapshot # 0 THEN snapshot ELSE Fresh
     IN /\ snapshot' = o
        /\ heap' = IF snapshot # 0 THEN heap ELSE [heap EXCEPT ![o] = unreachable]
        /\ ~(heap'[o] /\ cooling)
        /\ Begin(k, o)
  /\ UNCHANGED <<unreachable, cooling, alert, told, torn, healthFaults>>

\* A cycle asks providers that are not blocked, the repair of unresolved tokens
\* those that are, and an administrator any.
TakeRow(k) ==
  /\ On(k, "rest")
  /\ heap' = [heap EXCEPT ![Fresh] = unreachable]
  /\ Begin(k, Fresh)
  /\ UNCHANGED <<unreachable, cooling, snapshot, alert, told, torn, healthFaults>>

\* What an attempt or a call says of the reachability of the provider: nothing
\* for an answer that is neither a success nor a fault of the gateway kind.
Evidence == {"reached", "missed", "nothing"}

\* The last of the three calls of SyncProvider that says anything decides.
Verdict(pricing, tokens, balance) ==
  IF balance # "nothing" THEN balance ELSE IF tokens # "nothing" THEN tokens ELSE pricing

Judge(k, verdict) ==
  /\ On(k, "work")
  /\ IF verdict = "nothing"
     THEN Ends(k) /\ heap' = Without(k, heap, snapshot)
     ELSE /\ job' = [job EXCEPT ![k].at = "look", ![k].failed = (verdict = "missed")]
          /\ UNCHANGED heap
  /\ UNCHANGED <<unreachable, cooling, snapshot, alert, told, torn, healthFaults>>

AttemptEnds(k) == \E verdict \in Evidence : Judge(k, verdict)
SyncEnds(k) ==
  \E verdict \in {Verdict(p, t, b) : p, t, b \in Evidence} : Judge(k, verdict)

\* wasUnreachable, from the object.
Look(k) ==
  /\ On(k, "look")
  /\ job' = [job EXCEPT ![k].at = "commit", ![k].was = heap[job[k].object]]
  /\ torn' = (torn \/ heap[job[k].object] # unreachable \/ \E j \in Judges : Marking(j))
  /\ UNCHANGED <<unreachable, cooling, snapshot, heap, alert, told, healthFaults>>

\* The UPDATE of MarkHealthFailure and MarkHealthSuccess.
CommitHealth(k) ==
  /\ On(k, "commit")
  /\ \/ /\ Fine /\ UNCHANGED <<torn, heap>>
        /\ unreachable' = job[k].failed /\ cooling' = job[k].failed
        /\ told' = IF job[k].failed /\ ~unreachable THEN "none" ELSE told
        /\ job' = [j \in Judges |->
                     [job[j] EXCEPT !.at = IF j = k THEN "copy" ELSE @,
                                    !.knew = @ /\ job[k].failed]]
     \/ /\ Breaks /\ Ends(k) /\ heap' = Without(k, heap, snapshot)
        /\ UNCHANGED <<unreachable, cooling, told>>
  /\ UNCHANGED <<snapshot, alert>>

\* Mutant of MarkObject: a recovery is not told.
MarkObjectOutageOnly(k) ==
  /\ On(k, "copy")
  /\ snapshot' = 0
  /\ heap' = Without(k, [heap EXCEPT ![job[k].object] = job[k].failed], 0)
  /\ IF job[k].failed /\ ~job[k].was
     THEN job' = [job EXCEPT ![k].at = "alert", ![k].object = 0]
     ELSE Ends(k)
  /\ UNCHANGED <<unreachable, cooling, alert, told, torn, healthFaults>>

\* Their object, and invalidateModelRouteCaches; a change of health goes on to
\* the alert.
MarkObject(k) ==
  /\ On(k, "copy")
  /\ snapshot' = 0
  /\ heap' = Without(k, [heap EXCEPT ![job[k].object] = job[k].failed], 0)
  /\ IF job[k].was # job[k].failed
     THEN job' = [job EXCEPT ![k].at = "alert", ![k].object = 0]
     ELSE Ends(k)
  /\ UNCHANGED <<unreachable, cooling, alert, told, torn, healthFaults>>

Status(k) == IF job[k].failed THEN "open" ELSE "closed"

\* markProviderHealthAlertOpen and -Closed: an error of either query is logged.
SaveAlert(k) ==
  /\ On(k, "alert")
  /\ \/ /\ Fine /\ UNCHANGED torn
        /\ IF alert = "none" THEN To(k, "create") /\ UNCHANGED alert
                             ELSE To(k, "notice") /\ alert' = Status(k)
     \/ Breaks /\ To(k, "notice") /\ UNCHANGED alert
  /\ UNCHANGED <<unreachable, cooling, snapshot, heap, told>>

\* The unique index refuses a second row.
CreateAlert(k) ==
  /\ On(k, "create") /\ To(k, "notice")
  /\ \/ Fine /\ UNCHANGED torn /\ alert' = IF alert = "none" THEN Status(k) ELSE alert
     \/ Breaks /\ UNCHANGED alert
  /\ UNCHANGED <<unreachable, cooling, snapshot, heap, told>>

\* NotifyAsync
Notice(k) ==
  /\ On(k, "notice") /\ Ends(k)
  /\ told' = IF job[k].failed THEN "unreachable" ELSE "recovered"
  /\ UNCHANGED <<unreachable, cooling, snapshot, heap, alert, torn, healthFaults>>

CooldownEnds ==
  /\ cooling /\ cooling' = FALSE
  /\ UNCHANGED <<unreachable, snapshot, heap, alert, told, job, torn, healthFaults>>

HealthNext ==
  \/ \E k \in Attempts : TakePlan(k) \/ AttemptEnds(k)
  \/ \E k \in Syncs : TakeRow(k) \/ SyncEnds(k)
  \/ \E k \in Judges : Look(k) \/ CommitHealth(k) \/ MarkObject(k) \/ SaveAlert(k)
                       \/ CreateAlert(k) \/ Notice(k)
  \/ CooldownEnds

HealthSpec == HealthInit /\ [][HealthNext]_healthVars

----------------------------------------------------------------------------
(* Properties                                                               *)

\* Every variable keeps to its range.
HealthTypeOK ==
  /\ {unreachable, cooling, torn} \subseteq BOOLEAN
  /\ snapshot \in Objects \cup {0} /\ heap \in [Objects -> BOOLEAN]
  /\ alert \in {"none", "open", "closed"} /\ told \in {"none", "unreachable", "recovered"}
  /\ job \in [Judges -> Jobs]
  /\ healthFaults \in 0 .. MaxFaults

\* provider_http.go:147: an attempt or synchronisation that took the provider up
\* in an outage that was already published, and that has not ended since, tells
\* nobody of it again.  Until a mark fails, overlaps another or judges by a stale
\* object, the alert row is open and the last notice is of an outage exactly while
\* the provider is unreachable, whenever no mark is under way.
HealthTold ==
  /\ \A k \in Judges : ~(On(k, "notice") /\ job[k].failed /\ job[k].knew)
  /\ ~torn /\ (\A k \in Judges : ~Marking(k)) =>
       /\ unreachable <=> alert = "open"
       /\ unreachable <=> told = "unreachable"
=============================================================================
