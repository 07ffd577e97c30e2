------------------------------- MODULE MCBeside -------------------------------
(***************************************************************************)
(* The parts beside the relay that share no variable, checked together by  *)
(* TLC: one of them moves, and the others stay where they begin.           *)
(***************************************************************************)
EXTENDS HealthAlert, FailureAlert, RateLimit, Suppression, Accounts, Options,
        Restore, Verification, TLC

CONSTANTS a1, a2, s1,       \* attempts and a synchronisation of HealthAlert
          e1, e2, e3,       \* Evaluators
          c1, c2,           \* Callers
          route, q1, q2,    \* Routes, Requests
          root, ann, h1, h2, \* Users, Handlers
          u1, u2,           \* Updates
          k1, k2, tape, disk, \* Restorers, Packages
          bob, mail, p1, p2   \* People besides ann, Addresses, Presenters

MCAttempts   == {a1, a2}
MCSyncs      == {s1}
MCEvaluators == {e1, e2, e3}
MCCallers    == {c1, c2}
MCRoutes     == {route}
MCRequests   == {q1, q2}
MCUsers      == {root, ann}
MCHandlers   == {h1, h2}
MCUpdates    == {u1, u2}
MCRestorers  == {k1, k2}
MCPackages   == {tape, disk}
MCPeople     == {ann, bob}
MCAddresses  == {mail}
MCPresenters == {p1, p2}

\* The part that moves.  The health of a provider moves in two ways: three goroutines
\* without faults, or two with one.
VARIABLE moving

Movers == {"health", "faulty health", "failure", "rate", "suppression", "accounts", "options",
           "restore", "verification"}

HealthMoves ==
  \/ moving = "health" /\ HealthNext /\ UNCHANGED healthFaults
  \/ moving = "faulty health" /\ HealthNext /\ job'[a2] = job[a2]

MCInit ==
  /\ HealthInit /\ FailureInit /\ RateInit /\ SuppressionInit /\ AccountsInit
  /\ OptionsInit /\ RestoreInit /\ VerificationInit
  /\ moving \in Movers /\ (moving # "rate" => backend = "memory")
  /\ moving # "verification" => address = [u \in People |-> "absent"]

MCNext ==
  /\ UNCHANGED moving
  /\ IF moving \in {"health", "faulty health"} THEN HealthMoves ELSE UNCHANGED healthVars
  /\ IF moving = "failure"      THEN FailureNext      ELSE UNCHANGED failureVars
  /\ IF moving = "rate"         THEN RateNext         ELSE UNCHANGED rateVars
  /\ IF moving = "suppression"  THEN SuppressionNext  ELSE UNCHANGED suppressionVars
  /\ IF moving = "accounts"     THEN AccountsNext     ELSE UNCHANGED accountsVars
  /\ IF moving = "options"      THEN OptionsNext      ELSE UNCHANGED optionsVars
  /\ IF moving = "restore"      THEN RestoreNext      ELSE UNCHANGED restoreVars
  /\ IF moving = "verification" THEN VerificationNext ELSE UNCHANGED verificationVars

MCSpec ==
  MCInit /\ [][MCNext]_<<moving, healthVars, failureVars, rateVars, suppressionVars, accountsVars,
                         optionsVars, restoreVars, verificationVars>>

\* Goroutines of one kind are alike: how many are at the same place is all that counts.
HowMany(f, S) == [v \in {f[k] : k \in S} |-> Cardinality({k \in S : f[k] = v})]

\* Objects are alike: what a goroutine has of one is what it says, whether it is the
\* snapshot, and how many hold it.  With two attempts and one synchronisation the numbers
\* tell who shares an object with whom.
Holders(o, S) == Cardinality({j \in S : job[j].object = o})
ViewOf(o) ==
  IF o = 0 THEN <<>>
  ELSE <<o = snapshot, heap[o], Holders(o, Attempts), Holders(o, Syncs)>>
Work(S) == HowMany([k \in S |-> <<[job[k] EXCEPT !.object = 0], ViewOf(job[k].object)>>], S)

\* Every variable of these parts keeps to its range; among them the list of times on
\* Redis, middleware/rate-limit.go:57, which is trimmed however requests overlap, and
\* the row of an account, model/user.go:100, of which no field is ever emptied.
TypesOK ==
  /\ HealthTypeOK /\ FailureTypeOK /\ RateTypeOK /\ SuppressionTypeOK
  /\ AccountsTypeOK /\ OptionsTypeOK /\ RestoreTypeOK /\ VerificationTypeOK

\* What tells states apart: of the part that moves, everything but who is who.  TypesOK is
\* among it so that TLC has every function in full when it stores the state.
MCView ==
  <<moving, TypesOK,
    CASE moving \in {"health", "faulty health"} ->
           <<unreachable, cooling, alert, told, torn, healthFaults, ViewOf(snapshot),
             Work(Attempts), Work(Syncs)>>
      [] moving = "failure" ->
           <<clock, stamped, HowMany(written, DOMAIN written), incident,
             HowMany(fired, DOMAIN fired), lost, crossed, HowMany(eval, Evaluators)>>
      [] moving = "rate" ->
           <<backend, part, queue, expiry, passed, errors, HowMany(call, Callers)>>
      [] moving = "suppression" ->
           <<minute, HowMany(logs, DOMAIN logs), tried, HowMany(request, Requests)>>
      [] moving = "accounts" ->
           <<account, session, asked, rolledBack, swallowed, writes, HowMany(handler, Handlers)>>
      [] moving = "options" ->
           <<table, memory, overlapped, unsure, halved, accepted, HowMany(update, Updates)>>
      [] moving = "restore" ->
           <<database, saved, payload, before, mixed, HowMany(restore, Restorers)>>
      [] moving = "verification" ->
           <<now, pairs, latest, codes, deleted, spent, respent, shared, rewritten, address,
             doubled, HowMany(present, Presenters)>> >>
=============================================================================
