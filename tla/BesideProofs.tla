---------------------------- MODULE BesideProofs ----------------------------
(***************************************************************************)
(* Proofs about the parts beside the relay: what is told of the health of  *)
(* a provider (HealthAlert), the suppression of routes with invalid        *)
(* answers (Suppression), and the alert for failures (FailureAlert); and   *)
(* that these and the parts UserProofs and AdminProofs are about keep      *)
(* their types together (MCBeside).                                        *)
(***************************************************************************)
EXTENDS MCBeside, UserProofs, AdminProofs, FiniteSetTheorems, WellFoundedInduction, TLAPS

-----------------------------------------------------------------------------
(* The health of a provider: the inductive invariant                        *)

HasObject(k) == job[k].at \in {"work", "look", "commit", "copy"}
Holding == \A k \in Judges : IF HasObject(k) THEN job[k].object # 0 ELSE job[k].object = 0

\* Between marks the snapshot is what the table says.
SnapshotTrue ==
  snapshot # 0 /\ (\A k \in Judges : ~On(k, "copy")) => heap[snapshot] = unreachable

\* Who took up a published outage works on an object that says so until the outage
\* ends, and so does not see it begin.
Knowing(k) ==
  job[k].knew =>
    /\ unreachable
    /\ \A j \in Judges : ~(On(j, "copy") /\ ~job[j].failed)
    /\ job[k].at \in {"work", "look"} => heap[job[k].object]
    /\ job[k].at \in {"commit", "copy"} => job[k].was
    /\ job[k].at \in {"alert", "create", "notice"} => ~job[k].failed

InSync == (unreachable <=> alert = "open") /\ (unreachable <=> told = "unreachable")

\* Where a mark that is alone is, with what the table, the alert and the notice say.
Midway(k) ==
  /\ On(k, "commit") => job[k].was = unreachable /\ InSync
  /\ Marking(k) /\ ~On(k, "commit") => job[k].failed = unreachable
  /\ job[k].at \in {"copy", "alert"} => (job[k].was <=> alert = "open")
  /\ On(k, "copy") /\ job[k].was = job[k].failed => InSync
  /\ On(k, "create") => alert = "none"
  /\ On(k, "notice") => (job[k].failed <=> alert = "open")

Untorn ==
  ~torn =>
    /\ \A j, k \in Judges : Marking(j) /\ Marking(k) => j = k
    /\ (\A k \in Judges : ~Marking(k)) => InSync
    /\ \A k \in Judges : Marking(k) => Midway(k)

HealthInvariant ==
  HealthTypeOK /\ Holding /\ SnapshotTrue /\ (\A k \in Judges : Knowing(k)) /\ Untorn

-----------------------------------------------------------------------------
(* Objects                                                                  *)

LEMMA HealthTypes ==
  ASSUME HealthTypeOK
  PROVE  /\ unreachable \in BOOLEAN /\ cooling \in BOOLEAN /\ torn \in BOOLEAN
         /\ DOMAIN job = Judges /\ DOMAIN heap = Objects
         /\ \A o \in Objects : heap[o] \in BOOLEAN
         /\ \A k \in Judges : /\ job[k] \in Jobs /\ job[k].at \in Stages
                              /\ job[k].object \in Objects \cup {0}
                              /\ job[k].failed \in BOOLEAN /\ job[k].was \in BOOLEAN
                              /\ job[k].knew \in BOOLEAN
BY DEF HealthTypeOK, Jobs

LEMMA RestingFacts ==
  /\ Resting \in Jobs /\ Resting.at = "rest" /\ Resting.object = 0
  /\ Resting.failed = FALSE /\ Resting.was = FALSE /\ Resting.knew = FALSE
BY DEF Resting, Jobs, Stages

\* A goroutine at rest holds no object, and so one is free.
LEMMA FreshObject ==
  ASSUME HealthTypeOK, Holding, NEW k \in Judges, On(k, "rest")
  PROVE  /\ Fresh \in Objects /\ Fresh # snapshot /\ Fresh # 0
         /\ \A j \in Judges : job[j].object # Fresh
<1> DEFINE f == [j \in Judges |-> job[j].object]
           held == {f[j] : j \in Judges}
           n == Cardinality(Judges)
           all == held \cup {snapshot}
<1>1. IsFiniteSet(Judges) /\ n \in Nat
  BY HealthAssumption, FS_CardinalityType DEF Judges
<1>2. IsFiniteSet(held) /\ Cardinality(held) \in Nat /\ Cardinality(held) <= n
  <2>1. f \in Surjection(Judges, held)
    BY DEF Surjection
  <2> HIDE DEF f, held
  <2> QED
    BY <1>1, <2>1, FS_Surjection, FS_CardinalityType
<1>3. 0 \in held
  BY DEF Holding, HasObject, On
<1>4. IsFiniteSet(all) /\ Cardinality(all) \in Nat /\ Cardinality(all) <= n + 1
  <2> HIDE DEF f, held, n
  <2>1. IsFiniteSet(all) /\ (Cardinality(all) = Cardinality(held) \/ Cardinality(all) = Cardinality(held) + 1)
    BY <1>2, FS_AddElement
  <2> QED
    BY <1>1, <1>2, <2>1
<1>5. Objects = 1 .. n + 1
  BY DEF Objects
<1> HIDE DEF f, n
<1>6. \E o \in Objects : o \notin all
  <2> SUFFICES ASSUME Objects \subseteq all PROVE FALSE
    OBVIOUS
  <2>0. 0 \in all
    BY <1>3
  <2> HIDE DEF all, held
  <2>1. IsFiniteSet(all \ {0}) /\ Cardinality(all \ {0}) = Cardinality(all) - 1
    BY <1>4, <2>0, FS_RemoveElement
  <2>2. Objects \subseteq all \ {0}
    BY <1>1, <1>5
  <2>3. Cardinality(Objects) = n + 1
    BY <1>1, <1>5, FS_Interval
  <2>4. Cardinality(Objects) <= Cardinality(all \ {0})
    BY <2>1, <2>2, FS_Subset
  <2> QED
    BY <1>1, <1>4, <2>1, <2>3, <2>4
<1>7. \E o \in Objects : o # snapshot /\ \A j \in Judges : job[j].object # o
  BY <1>6 DEF f
<1> DEFINE P(o) == o # snapshot /\ \A j \in Judges : job[j].object # o
<1>8. Fresh = CHOOSE o \in Objects : P(o)
  BY DEF Fresh
<1>9. \E o \in Objects : P(o)
  BY <1>7
<1>10. Fresh \in Objects /\ P(Fresh)
  <2> HIDE DEF P
  <2> QED
    BY <1>8, <1>9
<1>11. 0 \notin Objects
  BY <1>1, <1>5
<1> QED
  BY <1>10, <1>11

\* Whoever lets its object go leaves those of the others and the snapshot.
LEMMA WithoutFacts ==
  ASSUME NEW k, NEW h \in [Objects -> BOOLEAN], NEW kept
  PROVE  /\ Without(k, h, kept) \in [Objects -> BOOLEAN]
         /\ \A o \in Objects : o = kept \/ (\E j \in Judges \ {k} : job[j].object = o)
                                => Without(k, h, kept)[o] = h[o]
BY DEF Without

-----------------------------------------------------------------------------
(* Steps                                                                    *)

LEMMA TakeKept ==
  ASSUME HealthInvariant, NEW k \in Judges, TakePlan(k) \/ TakeRow(k)
  PROVE  HealthInvariant'
<1>0. HealthTypeOK /\ Holding /\ SnapshotTrue /\ Untorn /\ (\A j \in Judges : Knowing(j))
      /\ On(k, "rest")
  BY DEF HealthInvariant, TakePlan, TakeRow
<1>1. /\ Fresh \in Objects /\ Fresh # snapshot /\ Fresh # 0
      /\ \A j \in Judges : job[j].object # Fresh
  BY <1>0, FreshObject
<1>2. /\ UNCHANGED <<unreachable, cooling, alert, told, torn, healthFaults>>
      /\ snapshot' = snapshot \/ (snapshot' = Fresh /\ snapshot = 0)
  BY DEF TakePlan, TakeRow
<1>3. PICK o \in {snapshot, Fresh} :
        /\ Begin(k, o) /\ o # 0
        /\ \/ heap' = [heap EXCEPT ![Fresh] = unreachable] /\ o = Fresh
           \/ heap' = heap /\ o = snapshot /\ snapshot' = snapshot
        /\ snapshot' = snapshot \/ (snapshot' = Fresh /\ o = Fresh)
  <2>1. CASE TakeRow(k)
    BY <1>1, <2>1 DEF TakeRow
  <2>2. CASE TakePlan(k)
    BY <1>1, <2>2 DEF TakePlan
  <2> QED
    BY <2>1, <2>2
<1>4. o \in Objects /\ (snapshot # 0 => snapshot \in Objects)
  BY <1>0, <1>1, <1>3 DEF HealthTypeOK
<1> DEFINE t == [Resting EXCEPT !.at = "work", !.object = o, !.knew = Published]
<1>5. Published \in BOOLEAN
  BY DEF Published
<1>6. /\ t \in Jobs /\ t.at = "work" /\ t.object = o /\ t.knew = Published
      /\ t.failed = FALSE /\ t.was = FALSE
  BY <1>4, <1>5, RestingFacts DEF Jobs, Stages
<1>7. job' = [job EXCEPT ![k] = t]
  BY <1>3 DEF Begin
<1> HIDE DEF t
<1>8. job'[k] = t /\ \A j \in Judges \ {k} : job'[j] = job[j]
  BY <1>0, <1>7, HealthTypes
<1>9. HealthTypeOK'
  <2>1. heap' \in [Objects -> BOOLEAN] /\ snapshot' \in Objects \cup {0}
    BY <1>0, <1>1, <1>3 DEF HealthTypeOK
  <2>2. job' \in [Judges -> Jobs]
    BY <1>0, <1>6, <1>7 DEF HealthTypeOK
  <2> QED
    BY <1>0, <1>2, <2>1, <2>2 DEF HealthTypeOK
<1>10. Holding'
  BY <1>0, <1>3, <1>6, <1>8 DEF Holding, HasObject
<1>11. \A j \in Judges : On(j, "copy")' <=> On(j, "copy")
  BY <1>0, <1>6, <1>8 DEF On
<1>12. heap'[o] = unreachable \/ \E j \in Judges : On(j, "copy")
  BY <1>0, <1>1, <1>3, HealthTypes DEF SnapshotTrue
<1>13. SnapshotTrue'
  BY <1>0, <1>1, <1>2, <1>3, <1>4, <1>11, <1>12, HealthTypes DEF SnapshotTrue
<1>14. ASSUME NEW j \in Judges PROVE Knowing(j)'
  <2>1. CASE j = k
    <3>1. Published => unreachable /\ heap'[o] = unreachable /\ \A i \in Judges : ~On(i, "copy")
      BY <1>12 DEF Published
    <3> QED
      BY <1>2, <1>6, <1>8, <1>11, <2>1, <3>1 DEF Knowing
  <2>2. CASE j # k
    <3>1. job'[j] = job[j] /\ Knowing(j)
      BY <1>0, <1>8, <2>2
    <3>2. \A i \in Judges : On(i, "copy")' /\ ~job'[i].failed => On(i, "copy") /\ ~job[i].failed
      BY <1>6, <1>8, <1>11 DEF On
    <3>3. HasObject(j) => heap'[job[j].object] = heap[job[j].object]
      BY <1>0, <1>1, <1>3, HealthTypes DEF Holding
    <3> QED
      BY <1>2, <3>1, <3>2, <3>3 DEF Knowing, HasObject
  <2> QED
    BY <2>1, <2>2
<1>15. Untorn'
  <2>1. \A j \in Judges : Marking(j)' <=> Marking(j)
    BY <1>0, <1>6, <1>8 DEF Marking, On
  <2>2. ~Marking(k)
    BY <1>0 DEF Marking, On
  <2>3. \A j \in Judges : Marking(j) => (Midway(j)' <=> Midway(j))
    BY <1>2, <1>8, <2>1, <2>2 DEF Midway, On, InSync
  <2> QED
    BY <1>0, <1>2, <2>1, <2>3 DEF Untorn, InSync
<1> QED
  BY <1>9, <1>10, <1>13, <1>14, <1>15 DEF HealthInvariant

LEMMA JudgeKept ==
  ASSUME HealthInvariant, NEW k \in Judges, NEW verdict \in Evidence, Judge(k, verdict)
  PROVE  HealthInvariant'
<1>0. HealthTypeOK /\ Holding /\ SnapshotTrue /\ Untorn /\ (\A j \in Judges : Knowing(j))
      /\ On(k, "work")
  BY DEF HealthInvariant, Judge
<1>1. UNCHANGED <<unreachable, cooling, snapshot, alert, told, torn, healthFaults>>
  BY DEF Judge
<1> DEFINE v == (verdict = "missed")
           looking == [job[k] EXCEPT !.at = "look", !.failed = v]
<1>2. v \in BOOLEAN
  OBVIOUS
<1>3. /\ looking \in Jobs /\ looking.at = "look" /\ looking.object = job[k].object
      /\ looking.knew = job[k].knew /\ looking.was = job[k].was
  <2> HIDE DEF v
  <2> QED
    BY <1>0, <1>2, HealthTypes DEF Jobs, Stages
<1>4. PICK t \in Jobs :
        /\ job' = [job EXCEPT ![k] = t]
        /\ \/ t = Resting /\ heap' = Without(k, heap, snapshot)
           \/ heap' = heap /\ t.at = "look" /\ t.object = job[k].object /\ t.knew = job[k].knew
  <2>1. CASE verdict = "nothing"
    BY <2>1, RestingFacts DEF Judge, Ends
  <2>2. CASE verdict # "nothing"
    <3>1. job' = [job EXCEPT ![k] = looking] /\ heap' = heap
      BY <1>0, <2>2, HealthTypes DEF Judge, HealthTypeOK
    <3> QED
      BY <1>3, <3>1
  <2> QED
    BY <2>1, <2>2
<1>5. job'[k] = t /\ \A j \in Judges \ {k} : job'[j] = job[j]
  BY <1>0, <1>4, HealthTypes
<1>6. t.at \in {"rest", "look"} /\ (t.knew => job[k].knew)
  BY <1>4, RestingFacts
<1>7. /\ heap' \in [Objects -> BOOLEAN]
      /\ \A o \in Objects : o = snapshot \/ (\E j \in Judges \ {k} : job[j].object = o)
                             => heap'[o] = heap[o]
  <2>1. heap \in [Objects -> BOOLEAN]
    BY <1>0 DEF HealthTypeOK
  <2>2. CASE heap' = heap
    BY <2>1, <2>2
  <2>3. CASE heap' = Without(k, heap, snapshot)
    BY <2>1, <2>3, WithoutFacts
  <2> QED
    BY <1>4, <2>2, <2>3
<1>8. HealthTypeOK'
  BY <1>0, <1>1, <1>4, <1>7 DEF HealthTypeOK
<1>9. Holding'
  BY <1>0, <1>4, <1>5, <1>6, RestingFacts DEF Holding, HasObject, On
<1>10. \A j \in Judges : On(j, "copy")' <=> On(j, "copy")
  BY <1>0, <1>5, <1>6 DEF On
<1>11. SnapshotTrue'
  BY <1>0, <1>1, <1>7, <1>10 DEF SnapshotTrue, HealthTypeOK
<1>12. ASSUME NEW j \in Judges PROVE Knowing(j)'
  <2>1. \A i \in Judges : On(i, "copy")' /\ ~job'[i].failed => On(i, "copy") /\ ~job[i].failed
    BY <1>5, <1>6, <1>10 DEF On
  <2>2. CASE j = k
    <3>1. CASE t = Resting
      BY <1>5, <2>2, <3>1, RestingFacts DEF Knowing
    <3>2. CASE heap' = heap /\ t.at = "look" /\ t.object = job[k].object /\ t.knew = job[k].knew
      <4>1. Knowing(k) /\ job[k].at = "work"
        BY <1>0 DEF On
      <4> QED
        BY <1>1, <1>5, <2>1, <2>2, <3>2, <4>1 DEF Knowing
    <3> QED
      BY <1>4, <3>1, <3>2
  <2>3. CASE j # k
    <3>1. job'[j] = job[j] /\ Knowing(j)
      BY <1>0, <1>5, <2>3
    <3>2. HasObject(j) => heap'[job[j].object] = heap[job[j].object]
      BY <1>0, <1>7, <2>3, HealthTypes DEF Holding
    <3> QED
      BY <1>1, <2>1, <3>1, <3>2 DEF Knowing, HasObject
  <2> QED
    BY <2>2, <2>3
<1>13. Untorn'
  <2>1. \A j \in Judges : Marking(j)' <=> Marking(j)
    BY <1>0, <1>5, <1>6 DEF Marking, On
  <2>2. ~Marking(k)
    BY <1>0 DEF Marking, On
  <2>3. \A j \in Judges : Marking(j) => (Midway(j)' <=> Midway(j))
    BY <1>1, <1>5, <2>1, <2>2 DEF Midway, On, InSync
  <2> QED
    BY <1>0, <1>1, <2>1, <2>3 DEF Untorn, InSync
<1> QED
  BY <1>8, <1>9, <1>11, <1>12, <1>13 DEF HealthInvariant

LEMMA LookKept ==
  ASSUME HealthInvariant, NEW k \in Judges, Look(k)
  PROVE  HealthInvariant'
<1>0. HealthTypeOK /\ Holding /\ SnapshotTrue /\ Untorn /\ (\A j \in Judges : Knowing(j))
      /\ On(k, "look")
  BY DEF HealthInvariant, Look
<1>1. UNCHANGED <<unreachable, cooling, snapshot, heap, alert, told, healthFaults>>
  BY DEF Look
<1>2. job[k].object \in Objects /\ heap[job[k].object] \in BOOLEAN
  BY <1>0, HealthTypes DEF Holding, HasObject, On
<1> DEFINE v == heap[job[k].object]
           t == [job[k] EXCEPT !.at = "commit", !.was = v]
<1>3. /\ t \in Jobs /\ t.at = "commit" /\ t.object = job[k].object
      /\ t.knew = job[k].knew /\ t.failed = job[k].failed /\ t.was = v
  <2>1. v \in BOOLEAN
    BY <1>2
  <2> HIDE DEF v
  <2> QED
    BY <1>0, <2>1, HealthTypes DEF Jobs, Stages
<1>4. job' = [job EXCEPT ![k] = t]
  BY <1>0, HealthTypes DEF Look, HealthTypeOK
<1>5. torn' = (torn \/ v # unreachable \/ \E j \in Judges : Marking(j))
  BY DEF Look
<1> HIDE DEF t, v
<1>6. job'[k] = t /\ \A j \in Judges \ {k} : job'[j] = job[j]
  BY <1>0, <1>4, HealthTypes
<1>7. HealthTypeOK'
  <2>1. torn' \in BOOLEAN
    BY <1>5
  <2>2. job' \in [Judges -> Jobs]
    BY <1>0, <1>3, <1>4 DEF HealthTypeOK
  <2> QED
    BY <1>0, <1>1, <2>1, <2>2 DEF HealthTypeOK
<1>8. Holding'
  BY <1>0, <1>3, <1>6 DEF Holding, HasObject, On
<1>9. \A j \in Judges : (On(j, "copy")' <=> On(j, "copy")) /\ job'[j].failed = job[j].failed
  BY <1>0, <1>3, <1>6 DEF On
<1>10. SnapshotTrue'
  BY <1>0, <1>1, <1>9 DEF SnapshotTrue
<1>11. ASSUME NEW j \in Judges PROVE Knowing(j)'
  <2>1. CASE j = k
    <3>1. Knowing(k) /\ job[k].at = "look"
      BY <1>0 DEF On
    <3>2. job[k].knew => v
      BY <3>1 DEF Knowing, v
    <3> QED
      BY <1>1, <1>3, <1>6, <1>9, <2>1, <3>1, <3>2 DEF Knowing
  <2>2. CASE j # k
    <3>1. job'[j] = job[j] /\ Knowing(j)
      BY <1>0, <1>6, <2>2
    <3> QED
      BY <1>1, <1>9, <3>1 DEF Knowing
  <2> QED
    BY <2>1, <2>2
<1>12. Untorn'
  <2> SUFFICES ASSUME ~torn'
               PROVE  /\ \A i, j \in Judges : Marking(i)' /\ Marking(j)' => i = j
                      /\ (\A j \in Judges : ~Marking(j)') => InSync'
                      /\ \A j \in Judges : Marking(j)' => Midway(j)'
    BY DEF Untorn
  <2>1. ~torn /\ (v <=> unreachable) /\ (\A j \in Judges : ~Marking(j))
    BY <1>0, <1>2, <1>5, HealthTypes DEF v
  <2>2. InSync /\ InSync'
    BY <1>0, <1>1, <2>1 DEF Untorn, InSync
  <2>3. Marking(k)' /\ \A j \in Judges : Marking(j)' => j = k
    BY <1>3, <1>6, <2>1 DEF Marking
  <2>4. Midway(k)'
    BY <1>1, <1>3, <1>6, <2>1, <2>2, HealthTypes, <1>0, <1>2 DEF Midway, On, v
  <2> QED
    BY <2>3, <2>4
<1> QED
  BY <1>7, <1>8, <1>10, <1>11, <1>12 DEF HealthInvariant

\* The statement fails: the goroutine leaves, and the rest of its mark with it.
LEMMA CommitFailsKept ==
  ASSUME HealthInvariant, NEW k \in Judges, On(k, "commit"),
         Breaks, Ends(k), heap' = Without(k, heap, snapshot),
         UNCHANGED <<unreachable, cooling, told, snapshot, alert>>
  PROVE  HealthInvariant'
<1>0. HealthTypeOK /\ Holding /\ SnapshotTrue /\ (\A j \in Judges : Knowing(j))
  BY DEF HealthInvariant
<1>1. job'[k] = Resting /\ \A j \in Judges \ {k} : job'[j] = job[j]
  BY <1>0, HealthTypes DEF Ends
<1>2. /\ heap' \in [Objects -> BOOLEAN]
      /\ \A o \in Objects : o = snapshot \/ (\E j \in Judges \ {k} : job[j].object = o)
                             => heap'[o] = heap[o]
  BY <1>0, WithoutFacts DEF HealthTypeOK
<1>3. HealthTypeOK'
  <2>1. torn' \in BOOLEAN /\ healthFaults' \in 0 .. MaxFaults
    BY <1>0, HealthAssumption DEF HealthTypeOK, Breaks
  <2>2. job' \in [Judges -> Jobs]
    BY <1>0, RestingFacts DEF HealthTypeOK, Ends
  <2> QED
    BY <1>0, <1>2, <2>1, <2>2 DEF HealthTypeOK
<1>4. Holding'
  BY <1>0, <1>1, RestingFacts DEF Holding, HasObject
<1>5. \A j \in Judges : On(j, "copy")' <=> On(j, "copy")
  BY <1>1, RestingFacts DEF On
<1>6. SnapshotTrue'
  BY <1>0, <1>2, <1>5 DEF SnapshotTrue, HealthTypeOK
<1>7. ASSUME NEW j \in Judges PROVE Knowing(j)'
  <2>1. CASE j = k
    BY <1>1, <2>1, RestingFacts DEF Knowing
  <2>2. CASE j # k
    <3>1. job'[j] = job[j] /\ Knowing(j)
      BY <1>0, <1>1, <2>2
    <3>2. HasObject(j) => heap'[job[j].object] = heap[job[j].object]
      BY <1>0, <1>2, <2>2, HealthTypes DEF Holding
    <3>3. \A i \in Judges : On(i, "copy")' /\ ~job'[i].failed => On(i, "copy") /\ ~job[i].failed
      BY <1>1, <1>5, RestingFacts DEF On
    <3> QED
      BY <3>1, <3>2, <3>3 DEF Knowing, HasObject
  <2> QED
    BY <2>1, <2>2
<1>8. Untorn'
  BY DEF Untorn, Breaks
<1> QED
  BY <1>3, <1>4, <1>6, <1>7, <1>8 DEF HealthInvariant

\* The row changes: whoever knew of the outage knows of it no more when it ends.
LEMMA CommitDoneKept ==
  ASSUME HealthInvariant, NEW k \in Judges, CommitHealth(k), Fine
  PROVE  HealthInvariant'
<1>0. HealthTypeOK /\ Holding /\ SnapshotTrue /\ Untorn /\ (\A j \in Judges : Knowing(j))
      /\ On(k, "commit")
  BY DEF HealthInvariant, CommitHealth
<1> DEFINE f == job[k].failed
           g(j) == IF j = k THEN "copy" ELSE job[j].at
           n(j) == job[j].knew /\ f
           t(j) == [job[j] EXCEPT !.at = g(j), !.knew = n(j)]
<1>1. healthFaults' = healthFaults /\ ~Breaks
  BY <1>0 DEF Fine, Breaks, HealthTypeOK
<1>2. /\ UNCHANGED <<torn, heap, snapshot, alert>>
      /\ unreachable' = f /\ cooling' = f
      /\ told' = IF f /\ ~unreachable THEN "none" ELSE told
      /\ job' = [j \in Judges |-> t(j)]
  BY <1>1 DEF CommitHealth
<1>3. f \in BOOLEAN /\ \A j \in Judges : g(j) \in Stages /\ n(j) \in BOOLEAN
  BY <1>0, HealthTypes DEF Stages
<1>4. \A j \in Judges : /\ t(j) \in Jobs /\ t(j).at = g(j) /\ t(j).knew = n(j)
                        /\ t(j).object = job[j].object /\ t(j).failed = job[j].failed
                        /\ t(j).was = job[j].was
  <2> HIDE DEF g, n, f
  <2> QED
    BY <1>0, <1>3, HealthTypes DEF Jobs
<1> HIDE DEF t
<1>5. \A j \in Judges : job'[j] = t(j)
  BY <1>2
<1>6. \A j \in Judges : /\ job'[j].at = g(j) /\ job'[j].knew = n(j)
                        /\ job'[j].object = job[j].object /\ job'[j].failed = job[j].failed
                        /\ job'[j].was = job[j].was
  BY <1>4, <1>5
<1>7. HealthTypeOK'
  BY <1>0, <1>1, <1>2, <1>3, <1>4 DEF HealthTypeOK
<1>8. Holding'
  BY <1>0, <1>6 DEF Holding, HasObject, On
<1>9. On(k, "copy")'
  BY <1>6 DEF On
<1>10. SnapshotTrue'
  BY <1>9 DEF SnapshotTrue
<1>11. ASSUME NEW j \in Judges PROVE Knowing(j)'
  <2> SUFFICES ASSUME n(j) PROVE Knowing(j)'
    BY <1>6 DEF Knowing
  <2>1. Knowing(j) /\ job[j].knew /\ f
    BY <1>0
  <2>2. \A i \in Judges : On(i, "copy")' /\ ~job'[i].failed => On(i, "copy") /\ ~job[i].failed
    BY <1>6, <2>1 DEF On
  <2>3. unreachable'
    BY <1>2, <2>1
  <2>4. CASE j = k
    BY <1>0, <1>2, <1>6, <2>1, <2>2, <2>3, <2>4 DEF Knowing, On
  <2>5. CASE j # k
    BY <1>2, <1>6, <2>1, <2>2, <2>3, <2>5 DEF Knowing
  <2> QED
    BY <2>4, <2>5
<1>12. Untorn'
  <2> SUFFICES ASSUME ~torn
               PROVE  /\ \A i, j \in Judges : Marking(i)' /\ Marking(j)' => i = j
                      /\ (\A j \in Judges : ~Marking(j)') => InSync'
                      /\ \A j \in Judges : Marking(j)' => Midway(j)'
    BY <1>2 DEF Untorn
  <2>1. Marking(k) /\ \A j \in Judges : Marking(j)' <=> Marking(j)
    BY <1>0, <1>6 DEF Marking, On
  <2>2. (\A j \in Judges : Marking(j) => j = k) /\ Midway(k)
    BY <1>0, <2>1 DEF Untorn
  <2>3. job[k].was = unreachable /\ InSync
    BY <1>0, <2>2 DEF Midway
  <2>4. Midway(k)'
    BY <1>0, <1>2, <1>3, <1>6, <2>3, HealthTypes DEF Midway, On, InSync
  <2> QED
    BY <2>1, <2>2, <2>4
<1> QED
  BY <1>7, <1>8, <1>10, <1>11, <1>12 DEF HealthInvariant

LEMMA MarkObjectKept ==
  ASSUME HealthInvariant, NEW k \in Judges, MarkObject(k)
  PROVE  HealthInvariant'
<1>0. HealthTypeOK /\ Holding /\ Untorn /\ (\A j \in Judges : Knowing(j)) /\ On(k, "copy")
  BY DEF HealthInvariant, MarkObject
<1>1. UNCHANGED <<unreachable, cooling, alert, told, torn, healthFaults>> /\ snapshot' = 0
  BY DEF MarkObject
<1> DEFINE o == job[k].object
           f == job[k].failed
           h == [heap EXCEPT ![o] = f]
           goesOn == [job[k] EXCEPT !.at = "alert", !.object = 0]
<1>2. o \in Objects /\ f \in BOOLEAN /\ h \in [Objects -> BOOLEAN]
  BY <1>0, HealthTypes DEF Holding, HasObject, On, HealthTypeOK
<1>3. heap' = Without(k, h, 0)
  BY DEF MarkObject
<1>4. /\ heap' \in [Objects -> BOOLEAN]
      /\ \A j \in Judges \ {k} : job[j].object \in Objects => heap'[job[j].object] = h[job[j].object]
  <2> HIDE DEF h
  <2>1. /\ Without(k, h, 0) \in [Objects -> BOOLEAN]
        /\ \A p \in Objects : (\E j \in Judges \ {k} : job[j].object = p)
                               => Without(k, h, 0)[p] = h[p]
    BY <1>2, WithoutFacts
  <2> QED
    BY <1>3, <2>1
<1>5. \A p \in Objects : h[p] = heap[p] \/ (p = o /\ h[p] = f)
  BY <1>0, <1>2 DEF HealthTypeOK
<1> HIDE DEF h
<1>6. /\ goesOn \in Jobs /\ goesOn.at = "alert" /\ goesOn.object = 0
      /\ goesOn.failed = f /\ goesOn.was = job[k].was /\ goesOn.knew = job[k].knew
  BY <1>0, HealthTypes DEF Jobs, Stages
<1>7. PICK t \in Jobs :
        /\ job' = [job EXCEPT ![k] = t]
        /\ \/ t = goesOn /\ job[k].was # f
           \/ t = Resting /\ job[k].was = f
  <2>1. CASE job[k].was # f
    <3>1. job' = [job EXCEPT ![k] = goesOn]
      BY <1>0, <2>1, HealthTypes DEF MarkObject, HealthTypeOK
    <3> QED
      BY <1>6, <2>1, <3>1
  <2>2. CASE job[k].was = f
    BY <2>2, RestingFacts DEF MarkObject, Ends
  <2> QED
    BY <2>1, <2>2
<1> HIDE DEF goesOn
<1>8. job'[k] = t /\ \A j \in Judges \ {k} : job'[j] = job[j]
  BY <1>0, <1>7, HealthTypes
<1>9. t.at \in {"rest", "alert"} /\ t.object = 0
  BY <1>6, <1>7, RestingFacts
<1>10. HealthTypeOK'
  BY <1>0, <1>1, <1>4, <1>7 DEF HealthTypeOK
<1>11. Holding'
  BY <1>0, <1>8, <1>9 DEF Holding, HasObject
<1>12. SnapshotTrue'
  BY <1>1 DEF SnapshotTrue
<1>13. ASSUME NEW j \in Judges PROVE Knowing(j)'
  <2>1. \A i \in Judges : On(i, "copy")' /\ ~job'[i].failed => On(i, "copy") /\ ~job[i].failed
    BY <1>8, <1>9 DEF On
  <2>2. CASE j = k
    <3>1. CASE t = Resting
      BY <1>8, <2>2, <3>1, RestingFacts DEF Knowing
    <3>2. CASE t = goesOn /\ job[k].was # f
      <4>1. job[k].knew => f /\ job[k].was
        BY <1>0, <1>2 DEF Knowing, On
      <4> QED
        BY <1>2, <1>6, <1>8, <2>2, <3>2, <4>1, HealthTypes, <1>0 DEF Knowing
    <3> QED
      BY <1>7, <3>1, <3>2
  <2>3. CASE j # k
    <3>1. job'[j] = job[j] /\ Knowing(j)
      BY <1>0, <1>8, <2>3
    <3>2. job[j].knew => f
      BY <1>0, <3>1 DEF Knowing
    <3>3. HasObject(j) => job[j].object \in Objects
      BY <1>0, HealthTypes DEF Holding
    <3>4. HasObject(j) => \/ heap'[job[j].object] = heap[job[j].object]
                          \/ heap'[job[j].object] = f
      BY <1>4, <1>5, <2>3, <3>3
    <3> QED
      BY <1>1, <1>2, <2>1, <3>1, <3>2, <3>4 DEF Knowing, HasObject
  <2> QED
    BY <2>2, <2>3
<1>14. Untorn'
  <2> SUFFICES ASSUME ~torn
               PROVE  /\ \A i, j \in Judges : Marking(i)' /\ Marking(j)' => i = j
                      /\ (\A j \in Judges : ~Marking(j)') => InSync'
                      /\ \A j \in Judges : Marking(j)' => Midway(j)'
    BY <1>1 DEF Untorn
  <2>1. Marking(k)
    BY <1>0 DEF Marking, On
  <2>2. (\A j \in Judges : Marking(j) => j = k) /\ Midway(k)
    BY <1>0, <2>1 DEF Untorn
  <2>3. \A j \in Judges : Marking(j)' => j = k
    BY <1>8, <2>2 DEF Marking
  <2>4. /\ f = unreachable /\ (job[k].was <=> alert = "open")
        /\ job[k].was = f => InSync
    BY <1>0, <2>1, <2>2 DEF Midway, On
  <2>5. Marking(k)' => Midway(k)'
    BY <1>1, <1>6, <1>7, <1>8, <2>4, RestingFacts DEF Midway, On, Marking
  <2>6. ~Marking(k)' => InSync'
    BY <1>1, <1>6, <1>7, <1>8, <2>4 DEF InSync, Marking
  <2> QED
    BY <2>3, <2>5, <2>6
<1> QED
  BY <1>10, <1>11, <1>12, <1>13, <1>14 DEF HealthInvariant

\* The steps from the alert on hold no object and change no health.
LEMMA AlertStepKept ==
  ASSUME HealthInvariant, NEW k \in Judges, NEW t \in Jobs,
         job' = [job EXCEPT ![k] = t], t.at \in {"rest", "create", "notice"}, t.object = 0,
         job[k].at \in {"alert", "create", "notice"},
         \/ t.knew = job[k].knew /\ t.failed = job[k].failed
         \/ t.at = "rest" /\ t.knew = FALSE,
         UNCHANGED <<unreachable, cooling, snapshot, heap>>, HealthTypeOK',
         torn' \/ (torn' = torn /\ (Midway(k) => (Marking(k)' => Midway(k)')
                                              /\ (~Marking(k)' => InSync')))
  PROVE  HealthInvariant'
<1>0. HealthTypeOK /\ Holding /\ SnapshotTrue /\ Untorn /\ (\A j \in Judges : Knowing(j))
  BY DEF HealthInvariant
<1>1. job'[k] = t /\ \A j \in Judges \ {k} : job'[j] = job[j]
  BY <1>0, HealthTypes
<1>2. Holding'
  BY <1>0, <1>1 DEF Holding, HasObject
<1>3. \A j \in Judges : On(j, "copy")' <=> On(j, "copy")
  BY <1>1 DEF On
<1>4. SnapshotTrue'
  BY <1>0, <1>3 DEF SnapshotTrue
<1>5. ASSUME NEW j \in Judges PROVE Knowing(j)'
  <2>1. \A i \in Judges : On(i, "copy")' /\ ~job'[i].failed => On(i, "copy") /\ ~job[i].failed
    BY <1>1, <1>3 DEF On
  <2>2. CASE j = k
    BY <1>0, <1>1, <2>1, <2>2 DEF Knowing
  <2>3. CASE j # k
    BY <1>0, <1>1, <2>1, <2>3 DEF Knowing
  <2> QED
    BY <2>2, <2>3
<1>6. Untorn'
  <2> SUFFICES ASSUME ~torn'
               PROVE  /\ \A i, j \in Judges : Marking(i)' /\ Marking(j)' => i = j
                      /\ (\A j \in Judges : ~Marking(j)') => InSync'
                      /\ \A j \in Judges : Marking(j)' => Midway(j)'
    BY DEF Untorn
  <2>1. ~torn /\ Marking(k)
    BY DEF Marking
  <2>2. (\A j \in Judges : Marking(j) => j = k) /\ Midway(k)
    BY <1>0, <2>1 DEF Untorn
  <2>3. \A j \in Judges : Marking(j)' => j = k
    BY <1>1, <2>2 DEF Marking
  <2>4. (Marking(k)' => Midway(k)') /\ (~Marking(k)' => InSync')
    BY <2>2
  <2> QED
    BY <2>3, <2>4
<1> QED
  BY <1>2, <1>4, <1>5, <1>6 DEF HealthInvariant

LEMMA SaveAlertKept ==
  ASSUME HealthInvariant, NEW k \in Judges, SaveAlert(k) \/ CreateAlert(k)
  PROVE  HealthInvariant'
<1>0. HealthTypeOK /\ job[k].at \in {"alert", "create"}
      /\ UNCHANGED <<unreachable, cooling, snapshot, heap, told>>
  BY DEF HealthInvariant, SaveAlert, CreateAlert, On
<1> DEFINE t(stage) == [job[k] EXCEPT !.at = stage]
<1>1. \A stage \in {"create", "notice"} :
        /\ t(stage) \in Jobs /\ t(stage).at = stage /\ t(stage).object = job[k].object
        /\ t(stage).failed = job[k].failed /\ t(stage).was = job[k].was
        /\ t(stage).knew = job[k].knew
  BY <1>0, HealthTypes DEF Jobs, Stages
<1>2. PICK stage \in {"create", "notice"} :
        /\ To(k, stage)
        /\ \/ Breaks /\ alert' = alert
           \/ Fine /\ torn' = torn /\ stage = "create" /\ alert = "none" /\ alert' = "none"
           \/ Fine /\ torn' = torn /\ stage = "notice" /\ job[k].at = "alert" /\ alert' = Status(k)
           \/ Fine /\ torn' = torn /\ stage = "notice" /\ job[k].at = "create"
              /\ alert' = IF alert = "none" THEN Status(k) ELSE alert
  <2>1. CASE SaveAlert(k)
    BY <2>1 DEF SaveAlert, On
  <2>2. CASE CreateAlert(k)
    BY <2>2 DEF CreateAlert, On
  <2> QED
    BY <2>1, <2>2
<1>3. job' = [job EXCEPT ![k] = t(stage)]
  BY <1>0, <1>2, HealthTypes DEF To, HealthTypeOK
<1>4. job[k].object = 0
  BY <1>0 DEF HealthInvariant, Holding, HasObject
<1>5. Status(k) \in {"open", "closed"} /\ (Status(k) = "open" <=> job[k].failed)
  BY <1>0, HealthTypes DEF Status
<1> DEFINE u == t(stage)
<1>6. /\ u \in Jobs /\ u.at = stage /\ u.object = 0 /\ u.failed = job[k].failed
      /\ u.was = job[k].was /\ u.knew = job[k].knew /\ job' = [job EXCEPT ![k] = u]
  BY <1>1, <1>2, <1>3, <1>4
<1> HIDE DEF t, u
<1>7. job'[k] = u
  BY <1>0, <1>6, HealthTypes
<1>8. HealthTypeOK'
  <2>1. job' \in [Judges -> Jobs]
    BY <1>0, <1>6 DEF HealthTypeOK
  <2>2. alert' \in {"none", "open", "closed"}
    BY <1>0, <1>2, <1>5 DEF HealthTypeOK
  <2>3. torn' \in BOOLEAN /\ healthFaults' \in 0 .. MaxFaults
    <3>1. healthFaults \in 0 .. MaxFaults /\ torn \in BOOLEAN /\ MaxFaults \in Nat
      BY <1>0, HealthAssumption DEF HealthTypeOK
    <3>2. Breaks \/ (Fine /\ torn' = torn)
      BY <1>2
    <3>3. CASE Breaks
      <4>1. torn' = TRUE /\ healthFaults < MaxFaults /\ healthFaults' = healthFaults + 1
        BY <3>3 DEF Breaks
      <4>2. healthFaults' \in 0 .. MaxFaults
        BY <3>1, <4>1
      <4> QED
        BY <4>1, <4>2
    <3> QED
      BY <3>1, <3>2, <3>3 DEF Fine
  <2> QED
    BY <1>0, <2>1, <2>2, <2>3 DEF HealthTypeOK
<1>9. torn' \/ (torn' = torn /\ (Midway(k) => (Marking(k)' => Midway(k)')
                                           /\ (~Marking(k)' => InSync')))
  <2>1. CASE Breaks
    BY <2>1 DEF Breaks
  <2>2. CASE torn' = torn /\ alert' = "none" /\ stage = "create"
    BY <1>0, <1>6, <1>7, <2>2 DEF Midway, Marking, On
  <2>3. CASE /\ torn' = torn /\ stage = "notice"
             /\ alert' = Status(k) \/ (job[k].at = "create" /\ alert # "none")
    BY <1>0, <1>5, <1>6, <1>7, <2>3 DEF Midway, Marking, On
  <2> QED
    BY <1>2, <2>1, <2>2, <2>3
<1> QED
  BY <1>0, <1>2, <1>6, <1>8, <1>9, AlertStepKept

LEMMA NoticeKept ==
  ASSUME HealthInvariant, NEW k \in Judges, Notice(k)
  PROVE  HealthInvariant'
<1>1. /\ HealthTypeOK /\ job[k].at = "notice" /\ job' = [job EXCEPT ![k] = Resting]
      /\ UNCHANGED <<unreachable, cooling, snapshot, heap, alert, torn, healthFaults>>
      /\ told' = IF job[k].failed THEN "unreachable" ELSE "recovered"
  BY DEF HealthInvariant, Notice, On, Ends
<1>2. HealthTypeOK'
  BY <1>1, RestingFacts DEF HealthTypeOK
<1>3. job'[k] = Resting
  BY <1>1, HealthTypes
<1>4. Midway(k) => (Marking(k)' => Midway(k)') /\ (~Marking(k)' => InSync')
  BY <1>1, <1>3, RestingFacts DEF Midway, Marking, On, InSync
<1> QED
  BY <1>1, <1>2, <1>4, RestingFacts, AlertStepKept

LEMMA NothingOfHealthKept ==
  ASSUME HealthInvariant, cooling' \in BOOLEAN,
         UNCHANGED <<unreachable, snapshot, heap, alert, told, job, torn, healthFaults>>
  PROVE  HealthInvariant'
<1>1. HealthTypeOK'
  BY DEF HealthInvariant, HealthTypeOK
<1>2. Holding' /\ SnapshotTrue' /\ (\A k \in Judges : Knowing(k)')
  BY DEF HealthInvariant, Holding, HasObject, SnapshotTrue, Knowing, On
<1>3. Untorn'
  <2>1. \A k \in Judges : (Marking(k)' <=> Marking(k)) /\ (Midway(k)' <=> Midway(k))
    BY DEF Marking, Midway, On, InSync
  <2> QED
    BY <2>1 DEF HealthInvariant, Untorn, InSync
<1> QED
  BY <1>1, <1>2, <1>3 DEF HealthInvariant

-----------------------------------------------------------------------------
(* What is told of a provider's health                                      *)

\* The marks of relay attempts and synchronisations keep to the invariant, for
\* any number of them at once.
THEOREM HealthInvariantHolds == HealthSpec => []HealthInvariant
<1>1. HealthInit => HealthInvariant
  <2> SUFFICES ASSUME HealthInit PROVE HealthInvariant
    OBVIOUS
  <2>1. \A k \in Judges : job[k] = Resting
    BY DEF HealthInit
  <2>2. HealthTypeOK
    <3>1. heap \in [Objects -> BOOLEAN] /\ job \in [Judges -> Jobs]
      BY RestingFacts DEF HealthInit
    <3>2. healthFaults \in 0 .. MaxFaults
      BY HealthAssumption DEF HealthInit
    <3> QED
      BY <3>1, <3>2 DEF HealthInit, HealthTypeOK
  <2>3. Holding /\ SnapshotTrue /\ \A k \in Judges : Knowing(k)
    BY <2>1, RestingFacts DEF HealthInit, Holding, HasObject, SnapshotTrue, Knowing
  <2>4. Untorn
    BY <2>1, RestingFacts DEF HealthInit, Untorn, Marking, InSync
  <2> QED
    BY <2>2, <2>3, <2>4 DEF HealthInvariant
<1>2. HealthInvariant /\ [HealthNext]_healthVars => HealthInvariant'
  <2> SUFFICES ASSUME HealthInvariant, [HealthNext]_healthVars PROVE HealthInvariant'
    OBVIOUS
  <2>1. cooling \in BOOLEAN
    BY HealthTypes DEF HealthInvariant
  <2>2. CASE UNCHANGED healthVars
    BY <2>1, <2>2, NothingOfHealthKept DEF healthVars
  <2>3. CASE CooldownEnds
    BY <2>3, NothingOfHealthKept DEF CooldownEnds
  <2>4. ASSUME NEW k \in Judges, TakePlan(k) \/ TakeRow(k) PROVE HealthInvariant'
    BY <2>4, TakeKept
  <2>5. ASSUME NEW k \in Judges, AttemptEnds(k) \/ SyncEnds(k) PROVE HealthInvariant'
    <3>1. \A p, t, b \in Evidence : Verdict(p, t, b) \in Evidence
      BY DEF Verdict
    <3>2. PICK verdict \in Evidence : Judge(k, verdict)
      BY <2>5, <3>1 DEF AttemptEnds, SyncEnds
    <3> QED
      BY <3>2, JudgeKept
  <2>6. ASSUME NEW k \in Judges, CommitHealth(k) PROVE HealthInvariant'
    <3>1. CASE Fine
      BY <2>6, <3>1, CommitDoneKept
    <3>2. CASE ~Fine
      <4>1. /\ On(k, "commit") /\ Breaks /\ Ends(k) /\ heap' = Without(k, heap, snapshot)
            /\ UNCHANGED <<unreachable, cooling, told, snapshot, alert>>
        BY <2>6, <3>2 DEF CommitHealth
      <4> QED
        BY <4>1, CommitFailsKept
    <3> QED
      BY <3>1, <3>2
  <2>7. ASSUME NEW k \in Judges, Look(k) \/ MarkObject(k) \/ SaveAlert(k) \/ CreateAlert(k) \/ Notice(k)
        PROVE HealthInvariant'
    BY <2>7, LookKept, MarkObjectKept, SaveAlertKept, NoticeKept
  <2> QED
    BY <2>2, <2>3, <2>4, <2>5, <2>6, <2>7 DEF HealthNext, Judges
<1> QED
  BY <1>1, <1>2, PTL DEF HealthSpec

\* Every variable of HealthAlert keeps to its range.
THEOREM HealthTypeCorrect == HealthSpec => []HealthTypeOK
<1>1. HealthInvariant => HealthTypeOK
  BY DEF HealthInvariant
<1> QED
  BY <1>1, HealthInvariantHolds, PTL

\* provider_http.go:147: nobody who took the provider up in a published outage
\* tells of it again, and between marks that succeed one at a time on true objects
\* the alert row and the last notice say what the row of the provider says.
THEOREM HealthToldHolds == HealthSpec => []HealthTold
<1>1. HealthInvariant => HealthTold
  <2> SUFFICES ASSUME HealthInvariant PROVE HealthTold
    OBVIOUS
  <2>1. \A k \in Judges : ~(On(k, "notice") /\ job[k].failed /\ job[k].knew)
    BY DEF HealthInvariant, Knowing, On
  <2>2. ~torn /\ (\A k \in Judges : ~Marking(k)) => InSync
    BY DEF HealthInvariant, Untorn
  <2> QED
    BY <2>1, <2>2 DEF HealthTold, InSync
<1> QED
  BY <1>1, HealthInvariantHolds, PTL

-----------------------------------------------------------------------------
(* Invalid answers: counting records                                        *)

\* The greatest of some numbers up to n.
LEMMA GreatestUpTo ==
  ASSUME NEW n \in Nat, NEW S \in SUBSET (0 .. n), S # {}
  PROVE  Max(S) \in S /\ \A y \in S : y <= Max(S)
<1> DEFINE R == {p \in Nat \X Nat : p[1] < p[2]}
           gaps == {n - x : x \in S}
<1>1. IsWellFoundedOn(R, Nat)
  BY NatLessThanWellFounded DEF OpToRel
<1>2. gaps \in SUBSET Nat /\ gaps # {}
  <2>1. \A x \in S : n - x \in Nat
    OBVIOUS
  <2> QED
    BY <2>1
<1>3. PICK g \in gaps : \A d \in gaps : ~(<<d, g>> \in R)
  <2> HIDE DEF gaps, R
  <2> QED
    BY <1>1, <1>2, WFMin
<1>4. PICK x \in S : g = n - x
  OBVIOUS
<1>5. ASSUME NEW y \in S PROVE y <= x
  <2>1. n - y \in gaps /\ n - y \in Nat /\ n - x \in Nat /\ x \in Nat /\ y \in Nat
    BY <1>2
  <2>2. ~(n - y < n - x)
    BY <1>3, <1>4, <2>1
  <2> QED
    BY <2>1, <2>2
<1>6. \E z \in S : \A y \in S : y <= z
  BY <1>5
<1> QED
  BY <1>6 DEF Max

LEMMA OfTwo ==
  ASSUME NEW a \in Int, NEW b \in Int
  PROVE  /\ Max({a, b}) \in {a, b} /\ a <= Max({a, b}) /\ b <= Max({a, b})
         /\ Min({a, b}) \in {a, b} /\ Min({a, b}) <= a /\ Min({a, b}) <= b
<1>1. \E x \in {a, b} : \A y \in {a, b} : y <= x
  OBVIOUS
<1>2. \E x \in {a, b} : \A y \in {a, b} : x <= y
  OBVIOUS
<1> QED
  BY <1>1, <1>2 DEF Max, Min

LEMMA ThoseFinite ==
  ASSUME logs \in Seq(UsageLog), NEW r, NEW says, NEW s \in Int, NEW t \in Int
  PROVE  /\ IsFiniteSet(DOMAIN logs) /\ Those(r, says, s, t) \in SUBSET DOMAIN logs
         /\ IsFiniteSet(Those(r, says, s, t)) /\ Saying(r, says, s, t) \in Nat
<1>1. IsFiniteSet(DOMAIN logs)
  BY FS_Interval
<1>2. Those(r, says, s, t) \in SUBSET DOMAIN logs
  BY DEF Those
<1> QED
  BY <1>1, <1>2, Smaller DEF Saying

\* What a shorter span holds, as far as there are records, a longer one does.
LEMMA SayingGrows ==
  ASSUME logs \in Seq(UsageLog), NEW r, NEW says,
         NEW s \in Int, NEW t \in Int, NEW u \in Int, NEW v \in Int,
         \A i \in DOMAIN logs : logs[i].stamp \in s .. t => logs[i].stamp \in u .. v
  PROVE  Saying(r, says, s, t) <= Saying(r, says, u, v)
<1>1. Those(r, says, s, t) \in SUBSET Those(r, says, u, v)
  BY DEF Those
<1> QED
  BY <1>1, ThoseFinite, Smaller DEF Saying

-----------------------------------------------------------------------------
(* Invalid answers: the inductive invariant                                 *)

\* Request k may still write an invalid answer of r with a time from s to e.
Owes(k, r, s, e) ==
  \/ /\ Doing(k, "writing") /\ request[k].route = r
     /\ request[k].says = "invalid" /\ request[k].stamp \in s .. e
  \/ r \in request[k].plan /\ minute <= e

Owing(r, s, e) == {k \in Requests : Owes(k, r, s, e)}

\* The invalid answers of r from s to e, with those that may still come.
Burden(r, s, e) == Saying(r, "invalid", s, e) + Cardinality(Owing(r, s, e))

Others(r, s) ==
  Saying(r, "valid", s - LookBack, s + LookBack) + Saying(r, "failed", s - LookBack, s + LookBack)

Short == Min({Cooldown - 1, LookBack})
Roomy(r, s) == Max({InvalidMax, Others(r, s) + 1})

Bounded ==
  \A r \in Routes, s \in Minutes :
    /\ Burden(r, s, s + Short) <= InvalidMax - 1 + Cardinality(Requests)
    /\ Burden(r, s, s + LookBack) <= Roomy(r, s) - 1 + Cardinality(Requests)

\* Records are not of later, and an attempt takes its route off the plan.
Timely ==
  /\ minute >= 1 /\ \A i \in DOMAIN logs : logs[i].stamp \in 1 .. minute
  /\ \A k \in Requests :
       /\ Doing(k, "none") => request[k].plan = {}
       /\ Doing(k, "writing") =>
            request[k].stamp \in 1 .. minute /\ request[k].route \in Routes \ request[k].plan

Writing == {k \in Requests : Doing(k, "writing")}

SuppressionInv ==
  /\ SuppressionTypeOK /\ Timely
  /\ Len(logs) + Cardinality(Writing) <= tried
  /\ Bounded

LEMMA SuppressionNumbers ==
  /\ InvalidMax \in Nat \ {0} /\ LookBack \in Nat \ {0} /\ Cooldown \in Nat \ {0}
  /\ LastMinute \in Nat \ {0} /\ MaxRecords \in Nat /\ Minutes \in SUBSET Nat
  /\ IsFiniteSet(Requests) /\ Cardinality(Requests) \in Nat
  /\ Short \in Nat /\ Short <= LookBack /\ Short <= Cooldown - 1
<1>1. /\ InvalidMax \in Nat \ {0} /\ LookBack \in Nat \ {0} /\ Cooldown \in Nat \ {0}
      /\ LastMinute \in Nat \ {0} /\ MaxRecords \in Nat
      /\ IsFiniteSet(Requests) /\ Cardinality(Requests) \in Nat
  BY SuppressionAssumption, FS_CardinalityType
<1>2. Minutes \in SUBSET Nat
  BY <1>1 DEF Minutes
<1>3. Short \in Nat /\ Short <= LookBack /\ Short <= Cooldown - 1
  <2>1. Cooldown - 1 \in Nat /\ LookBack \in Nat /\ Cooldown - 1 \in Int /\ LookBack \in Int
    BY <1>1
  <2> DEFINE c == Cooldown - 1
  <2>2. Short \in {c, LookBack} /\ Short <= c /\ Short <= LookBack
    <3>1. c \in Int /\ LookBack \in Int
      BY <2>1
    <3> HIDE DEF c
    <3>2. Min({c, LookBack}) \in {c, LookBack} /\ Min({c, LookBack}) <= c /\ Min({c, LookBack}) <= LookBack
      BY <3>1, OfTwo
    <3> QED
      BY <3>2 DEF Short, c
  <2> QED
    BY <2>1, <2>2
<1> QED
  BY <1>1, <1>2, <1>3

LEMMA OwingFinite ==
  ASSUME NEW r, NEW s \in Int, NEW e \in Int
  PROVE  /\ Owing(r, s, e) \in SUBSET Requests /\ IsFiniteSet(Owing(r, s, e))
         /\ Cardinality(Owing(r, s, e)) \in Nat
         /\ Cardinality(Owing(r, s, e)) <= Cardinality(Requests)
<1>1. Owing(r, s, e) \in SUBSET Requests
  BY DEF Owing
<1> QED
  BY <1>1, SuppressionNumbers, Smaller

LEMMA RoomyFacts ==
  ASSUME logs \in Seq(UsageLog), NEW r, NEW s \in Nat
  PROVE  /\ Others(r, s) \in Nat /\ Roomy(r, s) \in Nat
         /\ InvalidMax <= Roomy(r, s) /\ Others(r, s) + 1 <= Roomy(r, s)
         /\ Roomy(r, s) \in {InvalidMax, Others(r, s) + 1}
<1>1. s - LookBack \in Int /\ s + LookBack \in Int /\ InvalidMax \in Nat
  BY SuppressionNumbers
<1>2. Others(r, s) \in Nat
  <2>1. \A says \in Says : Saying(r, says, s - LookBack, s + LookBack) \in Nat
    BY <1>1, ThoseFinite
  <2> QED
    BY <2>1 DEF Others, Says
<1>3. Others(r, s) + 1 \in Int /\ InvalidMax \in Int
  BY <1>1, <1>2
<1>4. /\ Roomy(r, s) \in {InvalidMax, Others(r, s) + 1}
      /\ InvalidMax <= Roomy(r, s) /\ Others(r, s) + 1 <= Roomy(r, s)
  BY <1>3, OfTwo DEF Roomy
<1> QED
  BY <1>1, <1>2, <1>4

-----------------------------------------------------------------------------
(* Invalid answers: a route that is planned                                 *)

\* A route that is not suppressed has few invalid answers in the window, or none since
\* the cooldown of the last of them began and others as many.
LEMMA WhyPlanned ==
  ASSUME SuppressionTypeOK, Timely, NEW r, ~Suppressed(r, minute)
  PROVE  LET inv == Saying(r, "invalid", minute - LookBack, minute)
         IN \/ inv < InvalidMax
            \/ /\ \A i \in Those(r, "invalid", minute - LookBack, minute) :
                    logs[i].stamp + Cooldown <= minute
               /\ inv <= Saying(r, "valid", minute - LookBack, minute)
                         + Saying(r, "failed", minute - LookBack, minute)
<1> DEFINE since == minute - LookBack
           these == Those(r, "invalid", since, minute)
           inv   == Saying(r, "invalid", since, minute)
           times == {0} \cup {logs[i].stamp : i \in these}
           last  == LastInvalid(r, since, minute)
<1>0. /\ minute \in Nat /\ minute >= 1 /\ since \in Int /\ logs \in Seq(UsageLog)
      /\ InvalidMax \in Nat \ {0} /\ Cooldown \in Nat \ {0}
  BY SuppressionNumbers DEF SuppressionTypeOK, Minutes, Timely
<1>1. inv \in Nat /\ these \in SUBSET DOMAIN logs
  BY <1>0, ThoseFinite
<1>2. /\ \A i \in these : logs[i].stamp \in 1 .. minute
      /\ times \in SUBSET (0 .. minute) /\ times # {}
  <2>1. \A i \in these : logs[i].stamp \in 1 .. minute
    BY <1>1 DEF Timely
  <2> QED
    BY <1>0, <2>1
<1>3. last \in times /\ \A y \in times : y <= last
  <2>1. Max(times) \in times /\ \A y \in times : y <= Max(times)
    <3> HIDE DEF times
    <3> QED
      BY <1>0, <1>2, GreatestUpTo
  <2> QED
    BY <2>1 DEF LastInvalid
<1>4. last \in Nat /\ \A i \in these : logs[i].stamp <= last
  <2>1. last \in 0 .. minute
    <3> HIDE DEF times, last
    <3> QED
      BY <1>2, <1>3
  <2>2. \A i \in these : logs[i].stamp \in times
    OBVIOUS
  <2> HIDE DEF times, last, these
  <2>3. last \in Nat
    BY <1>0, <2>1
  <2>4. \A i \in these : logs[i].stamp <= last
    BY <1>3, <2>2
  <2> QED
    BY <2>3, <2>4
<1>5. ~(SuppressedUntil(r, minute) > minute)
  BY DEF Suppressed
<1>6. CASE inv < InvalidMax
  BY <1>6
<1>7. CASE last = 0
  <2>1. these = {}
    <3> HIDE DEF these, last
    <3> QED
      BY <1>2, <1>4, <1>7
  <2>2. inv = 0
    BY <2>1, FS_EmptySet DEF Saying
  <2> QED
    BY <1>0, <2>2
<1>8. CASE ~(inv < InvalidMax) /\ last # 0
  <2>1. SuppressedUntil(r, minute) =
          IF minute < last + Cooldown THEN last + Cooldown
          ELSE IF Recovered(r, since, minute) THEN 0
          ELSE minute + Cooldown
    BY <1>8 DEF SuppressedUntil
  <2>2. last + Cooldown <= minute /\ Recovered(r, since, minute)
    <3> HIDE DEF last, since
    <3> QED
      BY <1>0, <1>4, <1>5, <2>1
  <2>3. inv <= Saying(r, "valid", since, minute) + Saying(r, "failed", since, minute)
    BY <2>2 DEF Recovered
  <2>4. \A i \in these : logs[i].stamp + Cooldown <= minute
    <3> HIDE DEF these, last
    <3> QED
      BY <1>0, <1>2, <1>4, <2>2
  <2> QED
    BY <2>3, <2>4
<1> QED
  BY <1>6, <1>7, <1>8

LEMMA PlannedHasRoom ==
  ASSUME SuppressionTypeOK, Timely, NEW r \in Routes, ~Suppressed(r, minute), NEW s \in Minutes
  PROVE  /\ minute <= s + Short => Saying(r, "invalid", s, s + Short) <= InvalidMax - 1
         /\ minute <= s + LookBack => Saying(r, "invalid", s, s + LookBack) <= Roomy(r, s) - 1
<1> DEFINE since == minute - LookBack
           inv   == Saying(r, "invalid", since, minute)
           brief == Saying(r, "invalid", s, s + Short)
           long  == Saying(r, "invalid", s, s + LookBack)
<1>0. /\ minute \in Nat /\ s \in Nat /\ since \in Int /\ logs \in Seq(UsageLog)
      /\ s + Short \in Int /\ s + LookBack \in Int /\ s - LookBack \in Int
      /\ InvalidMax \in Nat \ {0} /\ Cooldown \in Nat \ {0} /\ LookBack \in Nat \ {0}
  BY SuppressionNumbers DEF SuppressionTypeOK, Minutes
<1>1. inv \in Nat /\ brief \in Nat /\ long \in Nat
  BY <1>0, ThoseFinite
<1>2. \A i \in DOMAIN logs : logs[i].stamp \in 1 .. minute
  BY DEF Timely
<1>3. ASSUME NEW e \in Int, minute <= e, e <= s + LookBack
      PROVE  Saying(r, "invalid", s, e) <= inv
  <2>1. \A i \in DOMAIN logs : logs[i].stamp \in s .. e => logs[i].stamp \in since .. minute
    BY <1>0, <1>2, <1>3
  <2> HIDE DEF since
  <2> QED
    BY <1>0, <1>3, <2>1, SayingGrows
<1>4. /\ Others(r, s) \in Nat /\ Roomy(r, s) \in Nat
      /\ InvalidMax <= Roomy(r, s) /\ Others(r, s) + 1 <= Roomy(r, s)
  BY <1>0, RoomyFacts
<1>5. /\ minute <= s + Short => brief <= inv
      /\ minute <= s + LookBack => long <= inv
  BY <1>0, <1>3, SuppressionNumbers
<1>6. CASE inv < InvalidMax
  <2> HIDE DEF inv, brief, long
  <2> QED
    BY <1>0, <1>1, <1>4, <1>5, <1>6 DEF brief, long
<1>7. CASE /\ \A i \in Those(r, "invalid", since, minute) : logs[i].stamp + Cooldown <= minute
           /\ inv <= Saying(r, "valid", since, minute) + Saying(r, "failed", since, minute)
  <2>1. minute <= s + Short => brief = 0
    <3>1. ASSUME minute <= s + Short, NEW i \in Those(r, "invalid", s, s + Short) PROVE FALSE
      <4>1. i \in DOMAIN logs /\ logs[i].stamp \in s .. s + Short /\ logs[i].stamp \in 1 .. minute
        BY <1>2, <3>1 DEF Those
      <4>2. logs[i].stamp \in since .. minute
        <5>1. minute <= s + LookBack /\ Short \in Nat
          BY <1>0, <3>1, SuppressionNumbers
        <5>2. logs[i].stamp \in Nat /\ s <= logs[i].stamp /\ logs[i].stamp <= minute
          BY <1>0, <4>1
        <5> QED
          BY <1>0, <5>1, <5>2
      <4>3. logs[i].stamp + Cooldown <= minute
        BY <1>7, <3>1, <4>1, <4>2 DEF Those
      <4> QED
        BY <1>0, <3>1, <4>1, <4>3, SuppressionNumbers
    <3>2. minute <= s + Short => Those(r, "invalid", s, s + Short) = {}
      BY <3>1
    <3> QED
      BY <3>2, FS_EmptySet DEF Saying
  <2>2. minute < s => long = 0
    <3>1. minute < s => Those(r, "invalid", s, s + LookBack) = {}
      BY <1>0, <1>2 DEF Those
    <3> QED
      BY <3>1, FS_EmptySet DEF Saying
  <2>3. s <= minute /\ minute <= s + LookBack =>
          \A says \in Says :
            Saying(r, says, since, minute) <= Saying(r, says, s - LookBack, s + LookBack)
    <3>1. s <= minute /\ minute <= s + LookBack =>
            \A i \in DOMAIN logs :
              logs[i].stamp \in since .. minute => logs[i].stamp \in (s - LookBack) .. (s + LookBack)
      BY <1>0, <1>2
    <3> HIDE DEF since
    <3> QED
      BY <1>0, <3>1, SayingGrows
  <2>4. s <= minute /\ minute <= s + LookBack => inv <= Others(r, s)
    <3>1. /\ Saying(r, "valid", since, minute) \in Nat /\ Saying(r, "failed", since, minute) \in Nat
          /\ Saying(r, "valid", s - LookBack, s + LookBack) \in Nat
          /\ Saying(r, "failed", s - LookBack, s + LookBack) \in Nat
      BY <1>0, ThoseFinite
    <3>2. "valid" \in Says /\ "failed" \in Says
      BY DEF Says
    <3> HIDE DEF since, inv
    <3> QED
      BY <1>1, <1>7, <2>3, <3>1, <3>2 DEF Others
  <2>5. minute <= s + LookBack => long = 0 \/ (long <= inv /\ inv <= Others(r, s))
    BY <1>0, <1>5, <2>2, <2>4
  <2> HIDE DEF inv, brief, long
  <2> QED
    BY <1>0, <1>1, <1>4, <2>1, <2>5 DEF brief, long
<1> QED
  BY <1>6, <1>7, WhyPlanned

-----------------------------------------------------------------------------
(* Invalid answers: every step keeps the invariant                          *)

\* The parts of the invariant without the bound.
SuppressionBase ==
  SuppressionTypeOK /\ Timely /\ Len(logs) + Cardinality(Writing) <= tried

LEMMA BaseFacts ==
  ASSUME SuppressionTypeOK
  PROVE  /\ minute \in Nat /\ minute <= LastMinute /\ tried \in Nat /\ tried <= MaxRecords
         /\ logs \in Seq(UsageLog) /\ Len(logs) \in Nat
         /\ \A k \in Requests : request[k] \in States
         /\ \A k \in Requests : request[k].plan \in SUBSET Routes /\ request[k].says \in Says
         /\ IsFiniteSet(Writing) /\ Cardinality(Writing) \in Nat
<1>1. /\ minute \in Nat /\ minute <= LastMinute /\ tried \in Nat /\ tried <= MaxRecords
      /\ logs \in Seq(UsageLog) /\ Len(logs) \in Nat
  BY SuppressionNumbers DEF SuppressionTypeOK, Minutes
<1>2. \A k \in Requests : request[k] \in States
  BY DEF SuppressionTypeOK
<1>3. \A k \in Requests : request[k].plan \in SUBSET Routes /\ request[k].says \in Says
  BY <1>2 DEF States
<1>4. IsFiniteSet(Writing) /\ Cardinality(Writing) \in Nat
  <2>1. Writing \in SUBSET Requests
    BY DEF Writing
  <2> QED
    BY <2>1, SuppressionNumbers, Smaller
<1> QED
  BY <1>1, <1>2, <1>3, <1>4

\* The bound is kept when no burden grows, and no room shrinks.
LEMMA Lighter ==
  ASSUME Bounded, SuppressionTypeOK, SuppressionTypeOK',
         \A r \in Routes, s \in Nat, e \in Nat : Burden(r, s, e)' <= Burden(r, s, e),
         \A r \in Routes, s \in Nat : Roomy(r, s) <= Roomy(r, s)'
  PROVE  Bounded'
<1>1. logs \in Seq(UsageLog) /\ logs' \in Seq(UsageLog)
  BY DEF SuppressionTypeOK
<1>2. ASSUME NEW r \in Routes, NEW s \in Nat, NEW e \in Nat
      PROVE  Burden(r, s, e) \in Int /\ Burden(r, s, e)' \in Int
  <2>1. Burden(r, s, e) \in Int
    <3>1. Saying(r, "invalid", s, e) \in Nat /\ Cardinality(Owing(r, s, e)) \in Nat
      BY <1>1, ThoseFinite, OwingFinite
    <3> QED
      BY <3>1 DEF Burden
  <2>2. Burden(r, s, e)' \in Int
    <3>1. Saying(r, "invalid", s, e)' \in Nat
      <4>1. Those(r, "invalid", s, e)' \in SUBSET DOMAIN logs' /\ IsFiniteSet(DOMAIN logs')
        BY <1>1, FS_Interval DEF Those
      <4> QED
        BY <4>1, Smaller DEF Saying
    <3>2. Cardinality(Owing(r, s, e)') \in Nat
      <4>1. Owing(r, s, e)' \in SUBSET Requests
        BY DEF Owing
      <4> QED
        BY <4>1, SuppressionNumbers, Smaller
    <3> QED
      BY <3>1, <3>2 DEF Burden
  <2> QED
    BY <2>1, <2>2
<1>3. ASSUME NEW r \in Routes, NEW s \in Minutes
      PROVE  /\ Burden(r, s, s + Short)' <= InvalidMax - 1 + Cardinality(Requests)
             /\ Burden(r, s, s + LookBack)' <= Roomy(r, s)' - 1 + Cardinality(Requests)
  <2>1. s \in Nat /\ s + Short \in Nat /\ s + LookBack \in Nat
    BY SuppressionNumbers
  <2>2. /\ Burden(r, s, s + Short) <= InvalidMax - 1 + Cardinality(Requests)
        /\ Burden(r, s, s + LookBack) <= Roomy(r, s) - 1 + Cardinality(Requests)
    BY DEF Bounded
  <2>3. Burden(r, s, s + Short)' <= Burden(r, s, s + Short)
        /\ Burden(r, s, s + LookBack)' <= Burden(r, s, s + LookBack)
    BY <2>1
  <2>4. Roomy(r, s) \in Nat /\ Roomy(r, s) <= Roomy(r, s)' /\ Roomy(r, s)' \in Int
    <3>1. Roomy(r, s) \in Nat
      BY <1>1, <2>1, RoomyFacts
    <3>2. Others(r, s)' \in Int
      <4>1. \A says \in Says : IsFiniteSet(Those(r, says, s - LookBack, s + LookBack)')
        <5>1. IsFiniteSet(DOMAIN logs')
          BY <1>1, FS_Interval
        <5>2. \A says \in Says : Those(r, says, s - LookBack, s + LookBack)' \in SUBSET DOMAIN logs'
          BY DEF Those
        <5> QED
          BY <5>1, <5>2, Smaller
      <4>2. \A says \in Says : Saying(r, says, s - LookBack, s + LookBack)' \in Nat
        BY <4>1, FS_CardinalityType DEF Saying
      <4> QED
        BY <4>2 DEF Others, Says
    <3>3. Roomy(r, s)' \in {InvalidMax, Others(r, s)' + 1}
      <4>1. InvalidMax \in Int /\ Others(r, s)' + 1 \in Int
        BY <3>2, SuppressionNumbers
      <4> QED
        BY <4>1, OfTwo DEF Roomy
    <3> QED
      BY <2>1, <3>1, <3>2, <3>3, SuppressionNumbers
  <2>5. /\ Burden(r, s, s + Short) \in Int /\ Burden(r, s, s + Short)' \in Int
        /\ Burden(r, s, s + LookBack) \in Int /\ Burden(r, s, s + LookBack)' \in Int
    BY <1>2, <2>1
  <2> QED
    BY <2>2, <2>3, <2>4, <2>5, SuppressionNumbers
<1> QED
  BY <1>3, SuppressionNumbers DEF Bounded

\* Steps that write no record and add no request that may.
LEMMA NothingWritten ==
  ASSUME SuppressionInv, SuppressionTypeOK', logs' = logs,
         \A k \in Requests, r \in Routes, s \in Nat, e \in Nat : Owes(k, r, s, e)' => Owes(k, r, s, e)
  PROVE  Bounded'
<1>1. logs \in Seq(UsageLog) /\ SuppressionTypeOK /\ Bounded
  BY DEF SuppressionInv, SuppressionTypeOK
<1>2. \A r, says, s, e : Saying(r, says, s, e)' = Saying(r, says, s, e)
  BY DEF Saying, Those
<1>3. ASSUME NEW r \in Routes, NEW s \in Nat, NEW e \in Nat
      PROVE  Burden(r, s, e)' <= Burden(r, s, e)
  <2>1. Owing(r, s, e)' \in SUBSET Owing(r, s, e) /\ IsFiniteSet(Owing(r, s, e))
    BY OwingFinite DEF Owing
  <2>2. /\ Cardinality(Owing(r, s, e)') <= Cardinality(Owing(r, s, e))
        /\ Cardinality(Owing(r, s, e)') \in Nat /\ Cardinality(Owing(r, s, e)) \in Nat
    BY <2>1, Smaller
  <2>3. Saying(r, "invalid", s, e) \in Nat
    BY <1>1, ThoseFinite
  <2> QED
    BY <1>2, <2>2, <2>3 DEF Burden
<1>4. ASSUME NEW r \in Routes, NEW s \in Nat PROVE Roomy(r, s) <= Roomy(r, s)'
  <2>1. Roomy(r, s)' = Roomy(r, s)
    BY <1>2 DEF Roomy, Others
  <2> QED
    BY <1>1, <2>1, RoomyFacts
<1> QED
  BY <1>1, <1>3, <1>4, Lighter

LEMMA SuppressionStarts ==
  SuppressionInit => SuppressionInv
<1> SUFFICES ASSUME SuppressionInit PROVE SuppressionInv
  OBVIOUS
<1>1. minute = 1 /\ tried = 0 /\ logs = <<>> /\ request = [k \in Requests |-> Unasked]
  BY DEF SuppressionInit
<1>2. SuppressionTypeOK
  BY <1>1, SuppressionNumbers DEF SuppressionTypeOK, Minutes, States, Says, Unasked
<1>3. Timely
  BY <1>1 DEF Timely, Doing, Unasked
<1>4. Writing = {} /\ Len(logs) = 0 /\ Cardinality(Writing) = 0
  <2>1. Writing = {}
    BY <1>1 DEF Writing, Doing, Unasked
  <2> QED
    BY <1>1, <2>1, FS_EmptySet
<1>5. ASSUME NEW r \in Routes, NEW s \in Nat, NEW e \in Nat PROVE Burden(r, s, e) = 0
  <2>1. Those(r, "invalid", s, e) = {}
    BY <1>1 DEF Those
  <2>2. Owing(r, s, e) = {}
    BY <1>1 DEF Owing, Owes, Doing, Unasked
  <2> QED
    BY <2>1, <2>2, FS_EmptySet DEF Burden, Saying
<1>6. Bounded
  <2>1. ASSUME NEW r \in Routes, NEW s \in Minutes
        PROVE  /\ Burden(r, s, s + Short) <= InvalidMax - 1 + Cardinality(Requests)
               /\ Burden(r, s, s + LookBack) <= Roomy(r, s) - 1 + Cardinality(Requests)
    <3>1. s \in Nat /\ s + Short \in Nat /\ s + LookBack \in Nat
      BY SuppressionNumbers
    <3>2. Roomy(r, s) \in Nat /\ InvalidMax <= Roomy(r, s)
      BY <1>2, <3>1, RoomyFacts DEF SuppressionTypeOK
    <3> QED
      BY <1>5, <3>1, <3>2, SuppressionNumbers
  <2> QED
    BY <2>1 DEF Bounded
<1> QED
  BY <1>1, <1>2, <1>3, <1>4, <1>6 DEF SuppressionInv

LEMMA MinutePassesKeeps ==
  ASSUME SuppressionInv, MinutePasses
  PROVE  SuppressionInv'
<1>0. SuppressionTypeOK /\ Timely /\ Len(logs) + Cardinality(Writing) <= tried
  BY DEF SuppressionInv
<1>1. /\ minute' = minute + 1 /\ minute < LastMinute
      /\ logs' = logs /\ request' = request /\ tried' = tried
  BY DEF MinutePasses
<1>2. minute \in Nat /\ minute' \in Minutes /\ LastMinute \in Nat
  BY <1>0, <1>1, BaseFacts, SuppressionNumbers DEF Minutes
<1>3. SuppressionTypeOK'
  BY <1>0, <1>1, <1>2 DEF SuppressionTypeOK
<1>4. Timely'
  <2>1. \A i \in DOMAIN logs : logs[i].stamp \in 1 .. minute'
    BY <1>0, <1>1, <1>2 DEF Timely
  <2>2. \A k \in Requests : Doing(k, "writing") => request[k].stamp \in 1 .. minute'
    BY <1>0, <1>1, <1>2 DEF Timely
  <2>3. minute' >= 1
    BY <1>0, <1>1, <1>2 DEF Timely
  <2> QED
    BY <1>0, <1>1, <2>1, <2>2, <2>3 DEF Timely, Doing
<1>5. (Len(logs) + Cardinality(Writing) <= tried)'
  BY <1>0, <1>1 DEF Writing, Doing
<1>6. \A k \in Requests, r \in Routes, s \in Nat, e \in Nat : Owes(k, r, s, e)' => Owes(k, r, s, e)
  <2>1. \A e \in Nat : minute' <= e => minute <= e
    BY <1>1, <1>2
  <2> QED
    BY <1>1, <2>1 DEF Owes, Doing
<1> QED
  BY <1>1, <1>3, <1>4, <1>5, <1>6, NothingWritten DEF SuppressionInv

LEMMA LeaveKeeps ==
  ASSUME SuppressionInv, NEW k \in Requests, Leave(k)
  PROVE  SuppressionInv'
<1>0. /\ SuppressionTypeOK /\ Timely /\ Len(logs) + Cardinality(Writing) <= tried
      /\ minute \in Nat /\ tried \in Nat /\ Len(logs) \in Nat
  BY BaseFacts DEF SuppressionInv
<1>1. /\ minute' = minute /\ logs' = logs /\ tried' = tried
      /\ request' = [request EXCEPT ![k] = Unasked]
  BY DEF Leave
<1>2. /\ request'[k] = Unasked
      /\ \A j \in Requests \ {k} : request'[j] = request[j]
  BY <1>0, <1>1 DEF SuppressionTypeOK
<1>3. SuppressionTypeOK'
  <2>1. Unasked \in States
    BY SuppressionNumbers DEF Unasked, States, Says, Minutes
  <2> QED
    BY <1>0, <1>1, <2>1 DEF SuppressionTypeOK
<1>4. Timely'
  BY <1>0, <1>1, <1>2 DEF Timely, Doing, Unasked
<1>5. (Len(logs) + Cardinality(Writing) <= tried)'
  <2>1. Writing' \in SUBSET Writing
    BY <1>2 DEF Writing, Doing, Unasked
  <2>2. /\ Cardinality(Writing') <= Cardinality(Writing)
        /\ Cardinality(Writing') \in Nat /\ Cardinality(Writing) \in Nat
    BY <1>0, <2>1, BaseFacts, Smaller
  <2> QED
    BY <1>0, <1>1, <2>2
<1>6. \A j \in Requests, r \in Routes, s \in Nat, e \in Nat : Owes(j, r, s, e)' => Owes(j, r, s, e)
  BY <1>1, <1>2 DEF Owes, Doing, Unasked
<1> QED
  BY <1>1, <1>3, <1>4, <1>5, <1>6, NothingWritten DEF SuppressionInv

LEMMA AttemptKeeps ==
  ASSUME SuppressionInv, NEW k \in Requests, Attempt(k)
  PROVE  SuppressionInv'
<1>0. /\ SuppressionTypeOK /\ Timely /\ Len(logs) + Cardinality(Writing) <= tried
      /\ minute \in Nat /\ tried \in Nat /\ Len(logs) \in Nat /\ MaxRecords \in Nat
      /\ request[k].plan \in SUBSET Routes
  BY BaseFacts, SuppressionNumbers DEF SuppressionInv
<1>1. PICK q \in request[k].plan, says \in Says :
        request' = [request EXCEPT ![k] =
                      [at |-> "writing", plan |-> @.plan \ {q}, route |-> q,
                       says |-> says, stamp |-> minute]]
  BY DEF Attempt
<1>2. minute' = minute /\ logs' = logs /\ tried' = tried + 1 /\ tried < MaxRecords
  BY DEF Attempt
<1> DEFINE new == [at |-> "writing", plan |-> request[k].plan \ {q}, route |-> q,
                   says |-> says, stamp |-> minute]
<1>3. request'[k] = new /\ \A j \in Requests \ {k} : request'[j] = request[j]
  BY <1>0, <1>1 DEF SuppressionTypeOK
<1>4. SuppressionTypeOK'
  <2>1. new \in States
    BY <1>0 DEF States, SuppressionTypeOK
  <2>2. request' \in [Requests -> States]
    <3> HIDE DEF new
    <3>1. request' = [request EXCEPT ![k] = new]
      BY <1>1 DEF new
    <3> QED
      BY <1>0, <2>1, <3>1 DEF SuppressionTypeOK
  <2>3. tried' \in 0 .. MaxRecords
    BY <1>0, <1>2
  <2> QED
    BY <1>0, <1>2, <2>2, <2>3 DEF SuppressionTypeOK
<1>5. Timely'
  <2>1. /\ request'[k].at = "writing" /\ request'[k].stamp \in 1 .. minute'
        /\ request'[k].route \in Routes \ request'[k].plan
    BY <1>0, <1>2, <1>3 DEF Timely
  <2> QED
    BY <1>0, <1>2, <1>3, <2>1 DEF Timely, Doing
<1>6. (Len(logs) + Cardinality(Writing) <= tried)'
  <2>1. Writing' \in SUBSET (Writing \cup {k})
    BY <1>3 DEF Writing, Doing
  <2>2. /\ Cardinality(Writing') <= Cardinality(Writing) + 1
        /\ Cardinality(Writing') \in Nat /\ Cardinality(Writing) \in Nat
    BY <1>0, <2>1, BaseFacts, OneMore
  <2> QED
    BY <1>0, <1>2, <2>2
<1>7. \A j \in Requests, r \in Routes, s \in Nat, e \in Nat : Owes(j, r, s, e)' => Owes(j, r, s, e)
  <2>1. \A j \in Requests \ {k}, r \in Routes, s \in Nat, e \in Nat : Owes(j, r, s, e)' => Owes(j, r, s, e)
    BY <1>2, <1>3 DEF Owes, Doing
  <2>2. ASSUME NEW r \in Routes, NEW s \in Nat, NEW e \in Nat, Owes(k, r, s, e)' PROVE Owes(k, r, s, e)
    <3>1. r \in request[k].plan /\ minute <= e
      BY <1>0, <1>2, <1>3, <2>2 DEF Owes
    <3> QED
      BY <3>1 DEF Owes
  <2> QED
    BY <2>1, <2>2
<1> QED
  BY <1>2, <1>4, <1>5, <1>6, <1>7, NothingWritten DEF SuppressionInv

LEMMA WriteRecordKeeps ==
  ASSUME SuppressionInv, NEW k \in Requests, WriteRecord(k)
  PROVE  SuppressionInv'
<1> DEFINE q == request[k]
           row == [route |-> q.route, says |-> q.says, stamp |-> q.stamp]
           new == IF q.says = "valid" \/ q.plan = {} THEN Unasked
                  ELSE [Unasked EXCEPT !.at = "trying", !.plan = q.plan]
<1>0. /\ SuppressionTypeOK /\ Timely /\ Len(logs) + Cardinality(Writing) <= tried
      /\ minute \in Nat /\ tried \in Nat /\ Len(logs) \in Nat /\ logs \in Seq(UsageLog)
      /\ q \in States /\ q.plan \in SUBSET Routes /\ q.says \in Says
  BY BaseFacts DEF SuppressionInv
<1>1. /\ minute' = minute /\ tried' = tried /\ Doing(k, "writing")
      /\ logs' = Append(logs, row) /\ request' = [request EXCEPT ![k] = new]
  BY DEF WriteRecord
<1>2. request'[k] = new /\ \A j \in Requests \ {k} : request'[j] = request[j]
  <2> HIDE DEF new
  <2> QED
    BY <1>0, <1>1 DEF SuppressionTypeOK
<1>3. /\ new.at # "writing" /\ new.plan \in SUBSET q.plan
      /\ new.at = "none" => new.plan = {}
      /\ new \in States
  <2>1. Unasked \in States /\ Unasked.at = "none" /\ Unasked.plan = {}
    BY SuppressionNumbers DEF Unasked, States, Says, Minutes
  <2>2. ASSUME NEW p \in SUBSET Routes
        PROVE  LET w == [Unasked EXCEPT !.at = "trying", !.plan = p]
               IN w \in States /\ w.at = "trying" /\ w.plan = p
    BY <2>1 DEF States, Unasked
  <2> QED
    BY <1>0, <2>1, <2>2
<1>4. /\ row \in UsageLog /\ q.stamp \in 1 .. minute /\ q.route \in Routes \ q.plan
      /\ q.stamp \in Minutes
  <2>1. q.stamp \in 1 .. minute /\ q.route \in Routes \ q.plan
    BY <1>0, <1>1 DEF Timely
  <2>2. q.stamp \in Minutes
    BY <1>0 DEF States
  <2> QED
    BY <1>0, <2>1, <2>2 DEF UsageLog
<1> HIDE DEF new, row
<1>5. /\ logs' \in Seq(UsageLog) /\ Len(logs') = Len(logs) + 1
      /\ DOMAIN logs' = DOMAIN logs \cup {Len(logs) + 1}
      /\ Len(logs) + 1 \notin DOMAIN logs
      /\ \A i \in DOMAIN logs : logs'[i] = logs[i]
      /\ logs'[Len(logs) + 1] = row
  BY <1>0, <1>1, <1>4
<1>6. (Len(logs) + Cardinality(Writing) <= tried)'
  <2>1. k \in Writing /\ Writing' \in SUBSET (Writing \ {k})
    BY <1>1, <1>2, <1>3 DEF Writing, Doing
  <2>2. /\ Cardinality(Writing') + 1 <= Cardinality(Writing) /\ Cardinality(Writing) \in Nat
        /\ IsFiniteSet(Writing)
    BY <1>0, <2>1, BaseFacts, OneFewer
  <2>3. Cardinality(Writing') \in Nat
    <3>1. Writing' \in SUBSET Writing
      BY <2>1
    <3> QED
      BY <2>2, <3>1, Smaller
  <2> QED
    BY <1>0, <1>1, <1>5, <2>2, <2>3
<1>7. SuppressionTypeOK'
  <2>1. request' \in [Requests -> States]
    BY <1>0, <1>1, <1>3 DEF SuppressionTypeOK
  <2>2. Len(logs') <= MaxRecords
    <3>1. Cardinality(Writing)' \in Nat /\ Len(logs') \in Nat /\ tried' <= MaxRecords
      <4>1. Writing' \in SUBSET Requests
        BY DEF Writing
      <4> QED
        BY <1>0, <1>1, <1>5, <4>1, BaseFacts, SuppressionNumbers, Smaller
    <3> QED
      BY <1>0, <1>1, <1>6, <3>1, SuppressionNumbers
  <2> QED
    BY <1>0, <1>1, <1>5, <2>1, <2>2 DEF SuppressionTypeOK
<1>8. Timely'
  <2>1. \A i \in DOMAIN logs' : logs'[i].stamp \in 1 .. minute
    <3>1. row.stamp \in 1 .. minute
      BY <1>4 DEF row
    <3> QED
      BY <1>0, <1>5, <3>1 DEF Timely
  <2> QED
    BY <1>0, <1>1, <1>2, <1>3, <2>1 DEF Timely, Doing
<1>9. ASSUME NEW r \in Routes, NEW says \in Says, NEW s \in Int, NEW e \in Int
      PROVE  /\ Those(r, says, s, e) \in SUBSET Those(r, says, s, e)'
             /\ Those(r, says, s, e)' \in SUBSET (Those(r, says, s, e) \cup {Len(logs) + 1})
             /\ ~(q.route = r /\ q.says = says /\ q.stamp \in s .. e) =>
                  Those(r, says, s, e)' = Those(r, says, s, e)
             /\ IsFiniteSet(Those(r, says, s, e)) /\ IsFiniteSet(Those(r, says, s, e)')
             /\ Saying(r, says, s, e) \in Nat /\ Saying(r, says, s, e)' \in Nat
             /\ Saying(r, says, s, e) <= Saying(r, says, s, e)'
             /\ Saying(r, says, s, e)' <= Saying(r, says, s, e) + 1
  <2> DEFINE old == Those(r, says, s, e)
             moment == Those(r, says, s, e)'
  <2>1. old \in SUBSET moment /\ moment \in SUBSET (old \cup {Len(logs) + 1})
    BY <1>5 DEF Those
  <2>2. ~(q.route = r /\ q.says = says /\ q.stamp \in s .. e) => moment = old
    <3>1. row.route = q.route /\ row.says = q.says /\ row.stamp = q.stamp
      BY DEF row
    <3>2. Len(logs) + 1 \in moment => q.route = r /\ q.says = says /\ q.stamp \in s .. e
      BY <1>5, <3>1 DEF Those
    <3> HIDE DEF old, moment
    <3> QED
      BY <2>1, <3>2
  <2>3. IsFiniteSet(old) /\ Cardinality(old) \in Nat
    BY <1>0, ThoseFinite DEF Saying
  <2>4. IsFiniteSet(moment) /\ Cardinality(moment) \in Nat /\ Cardinality(moment) <= Cardinality(old) + 1
    <3> HIDE DEF old, moment
    <3> QED
      BY <2>1, <2>3, OneMore
  <2>5. Cardinality(old) <= Cardinality(moment)
    <3> HIDE DEF old, moment
    <3> QED
      BY <2>1, <2>4, Smaller
  <2>6. Saying(r, says, s, e) = Cardinality(old) /\ Saying(r, says, s, e)' = Cardinality(moment)
    BY DEF Saying
  <2> HIDE DEF old, moment
  <2> QED
    BY <2>1, <2>2, <2>3, <2>4, <2>5, <2>6 DEF old, moment
<1>10. ASSUME NEW r \in Routes, NEW s \in Nat, NEW e \in Nat
       PROVE  Burden(r, s, e)' <= Burden(r, s, e)
  <2> DEFINE mine == q.route = r /\ q.says = "invalid" /\ q.stamp \in s .. e
             old == Owing(r, s, e)
             moment == Owing(r, s, e)'
             a == Saying(r, "invalid", s, e)
             b == Saying(r, "invalid", s, e)'
  <2>1. "invalid" \in Says /\ s \in Int /\ e \in Int
    BY DEF Says
  <2>2. /\ a \in Nat /\ b \in Nat /\ b <= a + 1 /\ (~mine => b = a)
    <3>1. ~mine => Those(r, "invalid", s, e)' = Those(r, "invalid", s, e)
      BY <1>9, <2>1
    <3>2. ~mine => b = a
      BY <3>1 DEF Saying
    <3>3. a \in Nat /\ b \in Nat /\ b <= a + 1
      BY <1>9, <2>1
    <3> QED
      BY <3>2, <3>3
  <2>3. IsFiniteSet(old) /\ Cardinality(old) \in Nat
    BY OwingFinite
  <2>4. moment \in SUBSET old
    <3>1. \A j \in Requests \ {k} : Owes(j, r, s, e)' => Owes(j, r, s, e)
      BY <1>1, <1>2 DEF Owes, Doing
    <3>2. Owes(k, r, s, e)' => Owes(k, r, s, e)
      BY <1>1, <1>2, <1>3 DEF Owes, Doing
    <3> QED
      BY <3>1, <3>2 DEF Owing
  <2>5. mine => k \in old /\ k \notin moment
    <3>1. mine => Owes(k, r, s, e)
      BY <1>1 DEF Owes
    <3>2. mine => ~Owes(k, r, s, e)'
      BY <1>2, <1>3, <1>4 DEF Owes, Doing
    <3> QED
      BY <3>1, <3>2 DEF Owing
  <2>6. Cardinality(moment) \in Nat /\ Cardinality(moment) <= Cardinality(old)
    <3> HIDE DEF old, moment
    <3> QED
      BY <2>3, <2>4, Smaller
  <2>7. mine => Cardinality(moment) + 1 <= Cardinality(old)
    <3> HIDE DEF old, moment, mine
    <3>1. mine => k \in old /\ moment \in SUBSET (old \ {k})
      BY <2>4, <2>5
    <3> QED
      BY <2>3, <3>1, OneFewer
  <2>8. Burden(r, s, e) = a + Cardinality(old) /\ Burden(r, s, e)' = b + Cardinality(moment)
    BY DEF Burden
  <2> HIDE DEF a, b, old, moment, mine
  <2> QED
    BY <2>2, <2>3, <2>6, <2>7, <2>8
<1>11. ASSUME NEW r \in Routes, NEW s \in Nat PROVE Roomy(r, s) <= Roomy(r, s)'
  <2> DEFINE from == s - LookBack
             to == s + LookBack
             a == Saying(r, "valid", from, to)
             b == Saying(r, "failed", from, to)
             c == Saying(r, "valid", from, to)'
             d == Saying(r, "failed", from, to)'
  <2>1. from \in Int /\ to \in Int /\ "valid" \in Says /\ "failed" \in Says
    BY SuppressionNumbers DEF Says
  <2>2. a \in Nat /\ b \in Nat /\ c \in Nat /\ d \in Nat /\ a <= c /\ b <= d
    <3> HIDE DEF from, to
    <3> QED
      BY <1>9, <2>1
  <2>3. Others(r, s) = a + b /\ Others(r, s)' = c + d
    BY DEF Others
  <2>4. Others(r, s) + 1 \in Int /\ Others(r, s)' + 1 \in Int /\ InvalidMax \in Int
        /\ Others(r, s) <= Others(r, s)'
    <3> HIDE DEF a, b, c, d
    <3> QED
      BY <2>2, <2>3, SuppressionNumbers
  <2>5. /\ Roomy(r, s) \in {InvalidMax, Others(r, s) + 1}
        /\ Roomy(r, s)' \in {InvalidMax, Others(r, s)' + 1}
        /\ InvalidMax <= Roomy(r, s)' /\ Others(r, s)' + 1 <= Roomy(r, s)'
    BY <2>4, OfTwo DEF Roomy
  <2>6. Others(r, s) \in Int /\ Others(r, s)' \in Int
    <3> HIDE DEF a, b, c, d
    <3> QED
      BY <2>2, <2>3
  <2> QED
    BY <2>4, <2>5, <2>6
<1>12. Bounded'
  <2>1. Bounded
    BY DEF SuppressionInv
  <2> QED
    BY <1>0, <1>7, <1>10, <1>11, <2>1, Lighter
<1> QED
  BY <1>6, <1>7, <1>8, <1>12 DEF SuppressionInv

LEMMA MakePlanKeeps ==
  ASSUME SuppressionInv, NEW k \in Requests, MakePlan(k)
  PROVE  SuppressionInv'
<1> DEFINE plan == {r \in Routes : ~Suppressed(r, minute)}
           new == [request[k] EXCEPT !.at = "trying", !.plan = plan]
<1>0. /\ SuppressionTypeOK /\ Timely /\ Len(logs) + Cardinality(Writing) <= tried /\ Bounded
      /\ minute \in Nat /\ tried \in Nat /\ Len(logs) \in Nat /\ logs \in Seq(UsageLog)
      /\ request[k] \in States
  BY BaseFacts DEF SuppressionInv
<1>1. /\ minute' = minute /\ logs' = logs /\ tried' = tried /\ Doing(k, "none")
      /\ request' = [request EXCEPT ![k] = new]
  BY DEF MakePlan
<1>2. /\ new.at = "trying" /\ new.plan = plan /\ new \in States
  <2>1. plan \in SUBSET Routes
    OBVIOUS
  <2> HIDE DEF plan
  <2> QED
    BY <1>0, <2>1 DEF States
<1>3. request'[k] = new /\ \A j \in Requests \ {k} : request'[j] = request[j]
  <2> HIDE DEF new
  <2> QED
    BY <1>0, <1>1 DEF SuppressionTypeOK
<1> HIDE DEF new
<1>4. SuppressionTypeOK'
  BY <1>0, <1>1, <1>2 DEF SuppressionTypeOK
<1>5. Timely'
  BY <1>0, <1>1, <1>2, <1>3 DEF Timely, Doing
<1>6. (Len(logs) + Cardinality(Writing) <= tried)'
  <2>1. Writing' \in SUBSET Writing
    BY <1>2, <1>3 DEF Writing, Doing
  <2>2. /\ Cardinality(Writing') <= Cardinality(Writing)
        /\ Cardinality(Writing') \in Nat /\ Cardinality(Writing) \in Nat
    BY <1>0, <2>1, BaseFacts, Smaller
  <2> QED
    BY <1>0, <1>1, <2>2
<1>7. \A r, says, s, e : Saying(r, says, s, e)' = Saying(r, says, s, e)
  BY <1>1 DEF Saying, Those
<1>8. ASSUME NEW r \in Routes, NEW s \in Nat, NEW e \in Nat, NEW limit \in Nat,
             Burden(r, s, e) <= limit - 1 + Cardinality(Requests),
             r \in plan /\ minute <= e => Saying(r, "invalid", s, e) <= limit - 1
      PROVE  Burden(r, s, e)' <= limit - 1 + Cardinality(Requests)
  <2> DEFINE old == Owing(r, s, e)
             moment == Owing(r, s, e)'
             a == Saying(r, "invalid", s, e)
             n == Cardinality(Requests)
  <2>1. a \in Nat /\ n \in Nat /\ IsFiniteSet(old) /\ Cardinality(old) \in Nat
    <3>1. s \in Int /\ e \in Int
      OBVIOUS
    <3>2. a \in Nat
      BY <1>0, <3>1, ThoseFinite
    <3>3. IsFiniteSet(old) /\ Cardinality(old) \in Nat
      BY <3>1, OwingFinite
    <3> QED
      BY <3>2, <3>3, SuppressionNumbers
  <2>2. moment \in SUBSET Requests /\ Cardinality(moment) \in Nat /\ Cardinality(moment) <= n
    <3>1. moment \in SUBSET Requests
      BY DEF Owing
    <3> HIDE DEF moment
    <3> QED
      BY <3>1, SuppressionNumbers, Smaller
  <2>3. ~(r \in plan /\ minute <= e) => moment \in SUBSET old
    <3> HIDE DEF plan
    <3>1. \A j \in Requests \ {k} : Owes(j, r, s, e)' => Owes(j, r, s, e)
      BY <1>1, <1>3 DEF Owes, Doing
    <3>2. Owes(k, r, s, e)' => r \in plan /\ minute <= e
      BY <1>1, <1>2, <1>3 DEF Owes, Doing
    <3> QED
      BY <3>1, <3>2 DEF Owing
  <2>4. ~(r \in plan /\ minute <= e) => Cardinality(moment) <= Cardinality(old)
    <3> HIDE DEF moment, old, plan
    <3> QED
      BY <2>1, <2>3, Smaller
  <2>5. Burden(r, s, e) = a + Cardinality(old) /\ Burden(r, s, e)' = a + Cardinality(moment)
    BY <1>7 DEF Burden
  <2>6. a + Cardinality(old) <= limit - 1 + n
    BY <1>8, <2>5
  <2>7. r \in plan /\ minute <= e => a <= limit - 1
    BY <1>8
  <2>8. a + Cardinality(moment) <= limit - 1 + n
    <3> HIDE DEF a, n, moment, old, plan
    <3> QED
      BY <1>8, <2>1, <2>2, <2>4, <2>6, <2>7
  <2> QED
    BY <2>5, <2>8
<1>9. Bounded'
  <2>1. ASSUME NEW r \in Routes, NEW s \in Minutes
        PROVE  /\ Burden(r, s, s + Short)' <= InvalidMax - 1 + Cardinality(Requests)
               /\ Burden(r, s, s + LookBack)' <= Roomy(r, s)' - 1 + Cardinality(Requests)
    <3>1. s \in Nat /\ s + Short \in Nat /\ s + LookBack \in Nat /\ InvalidMax \in Nat
      BY SuppressionNumbers
    <3>2. Roomy(r, s) \in Nat /\ Roomy(r, s)' = Roomy(r, s)
      <4>1. Roomy(r, s) \in Nat
        BY <1>0, <3>1, RoomyFacts
      <4> QED
        BY <1>7, <4>1 DEF Roomy, Others
    <3>3. r \in plan =>
            /\ minute <= s + Short => Saying(r, "invalid", s, s + Short) <= InvalidMax - 1
            /\ minute <= s + LookBack => Saying(r, "invalid", s, s + LookBack) <= Roomy(r, s) - 1
      BY <1>0, PlannedHasRoom
    <3>4. /\ Burden(r, s, s + Short) <= InvalidMax - 1 + Cardinality(Requests)
          /\ Burden(r, s, s + LookBack) <= Roomy(r, s) - 1 + Cardinality(Requests)
      BY <1>0 DEF Bounded
    <3> HIDE DEF plan
    <3>5. Burden(r, s, s + Short)' <= InvalidMax - 1 + Cardinality(Requests)
      BY <1>8, <3>1, <3>3, <3>4
    <3>6. Burden(r, s, s + LookBack)' <= Roomy(r, s) - 1 + Cardinality(Requests)
      BY <1>8, <3>1, <3>2, <3>3, <3>4
    <3> QED
      BY <3>2, <3>5, <3>6
  <2> QED
    BY <2>1 DEF Bounded
<1> QED
  BY <1>4, <1>5, <1>6, <1>9 DEF SuppressionInv

LEMMA SuppressionStep ==
  SuppressionInv /\ [SuppressionNext]_suppressionVars => SuppressionInv'
<1> SUFFICES ASSUME SuppressionInv, [SuppressionNext]_suppressionVars PROVE SuppressionInv'
  OBVIOUS
<1>1. CASE UNCHANGED suppressionVars
  <2>1. minute' = minute /\ logs' = logs /\ request' = request /\ tried' = tried
    BY <1>1 DEF suppressionVars
  <2>2. SuppressionTypeOK' /\ Timely' /\ (Len(logs) + Cardinality(Writing) <= tried)'
    BY <2>1 DEF SuppressionInv, SuppressionTypeOK, Timely, Writing, Doing
  <2>3. Bounded'
    <3>1. \A j \in Requests, r \in Routes, s \in Nat, e \in Nat : Owes(j, r, s, e)' => Owes(j, r, s, e)
      BY <2>1 DEF Owes, Doing
    <3> QED
      BY <2>1, <2>2, <3>1, NothingWritten
  <2> QED
    BY <2>2, <2>3 DEF SuppressionInv
<1>2. CASE \E k \in Requests : MakePlan(k) \/ Attempt(k) \/ WriteRecord(k) \/ Leave(k)
  BY <1>2, MakePlanKeeps, AttemptKeeps, WriteRecordKeeps, LeaveKeeps
<1>3. CASE MinutePasses
  BY <1>3, MinutePassesKeeps
<1> QED
  BY <1>1, <1>2, <1>3 DEF SuppressionNext

\* The inductive invariant: invalid answers that are recorded, and those that requests at
\* work may still record, are within the bound of every span.
THEOREM SuppressionInvariantHolds == SuppressionSpec => []SuppressionInv
<1> QED
  BY SuppressionStarts, SuppressionStep, PTL DEF SuppressionSpec

\* Every variable of the suppression keeps its type, and there are no more records than
\* attempts (logUsage, proxy.go:944).
THEOREM SuppressionTypeCorrect == SuppressionSpec => []SuppressionTypeOK
<1>1. SuppressionInv => SuppressionTypeOK
  BY DEF SuppressionInv
<1> QED
  BY <1>1, SuppressionInvariantHolds, PTL

\* loadRouteInvalidResponseSuppressionByTokenModel (model_route.go:983) lets a route give
\* fewer invalid answers than the threshold, and one more for each request at work, in any
\* span as long as the cooldown, and in one as long as the window unless it has answered
\* otherwise as often.
THEOREM InvalidBoundedHolds == SuppressionSpec => []InvalidBounded
<1>1. ASSUME SuppressionInv PROVE InvalidBounded
  <2>0. logs \in Seq(UsageLog) /\ \A i \in DOMAIN logs : logs[i].route \in Routes
    <3>1. logs \in Seq(UsageLog)
      BY <1>1, BaseFacts DEF SuppressionInv
    <3>2. \A i \in DOMAIN logs : logs[i] \in UsageLog
      BY <3>1
    <3> QED
      BY <3>1, <3>2 DEF UsageLog
  <2>1. ASSUME NEW r \in Routes, NEW s \in Nat, NEW e \in Nat, NEW limit \in Nat,
               Burden(r, s, e) <= limit - 1 + Cardinality(Requests)
        PROVE  Saying(r, "invalid", s, e) <= limit - 1 + Cardinality(Requests)
    <3>1. Saying(r, "invalid", s, e) \in Nat /\ Cardinality(Owing(r, s, e)) \in Nat
      BY <2>0, ThoseFinite, OwingFinite
    <3> QED
      BY <2>1, <3>1, SuppressionNumbers DEF Burden
  <2>2. ASSUME NEW r \in Routes, NEW s \in Minutes
        PROVE  /\ Saying(r, "invalid", s, s + Short) <= InvalidMax - 1 + Cardinality(Requests)
               /\ Saying(r, "invalid", s, s + LookBack) <= Roomy(r, s) - 1 + Cardinality(Requests)
    <3>1. s \in Nat /\ s + Short \in Nat /\ s + LookBack \in Nat /\ InvalidMax \in Nat
      BY SuppressionNumbers
    <3>2. Roomy(r, s) \in Nat
      BY <2>0, <3>1, RoomyFacts
    <3>3. /\ Burden(r, s, s + Short) <= InvalidMax - 1 + Cardinality(Requests)
          /\ Burden(r, s, s + LookBack) <= Roomy(r, s) - 1 + Cardinality(Requests)
      BY <1>1 DEF SuppressionInv, Bounded
    <3> QED
      BY <2>1, <3>1, <3>2, <3>3
  <2> QED
    BY <2>0, <2>2 DEF InvalidBounded, Short, Roomy, Others
<1> QED
  BY <1>1, SuppressionInvariantHolds, PTL

-----------------------------------------------------------------------------
(* Failure alerts: the inductive invariant                                  *)

\* Failures a and b of F are of one spell.
Linked(F, a, b) == \A u \in F : a <= u /\ u < b => \E v \in F : u < v /\ v <= u + Window
Same(F, a, b)   == IF a <= b THEN Linked(F, a, b) ELSE Linked(F, b, a)

\* The spell of failure t, or a later one that had begun, has been told of.
Known(t) == \E s \in SpellOf(t), i \in DOMAIN fired : s <= fired[i]

Listed(k)   == eval[k].at \in {"count", "load", "save", "create"}
Deciding(k) == eval[k].at \in {"save", "create"}

Inserting == {k \in Evaluators : Is(k, "insert")}
Busy      == {k \in Evaluators : ~Is(k, "rest")}

Shapes ==
  /\ FailureTypeOK
  /\ clock >= 1 /\ Failures \subseteq 1 .. clock
  /\ {fired[i] : i \in DOMAIN fired} \subseteq Failures
  /\ incident # NoRow => incident.status # "none" /\ incident.seen \in Failures
  /\ \A k \in Evaluators :
       /\ ~Is(k, "rest") => eval[k].stamp \in 1 .. clock
       /\ Listed(k) => eval[k].stamp \in Failures
       /\ Deciding(k) => /\ eval[k].row.seen = eval[k].stamp /\ eval[k].row.status \in {"open", "closed"}
                         /\ eval[k].fires => eval[k].row.status = "open"
  /\ Len(written) + Cardinality(Inserting) <= stamped
  /\ Len(fired) + Cardinality(Busy) <= stamped

\* Who finds the alert open finds it told.
OpenIsKnown ==
  /\ incident.status = "open" => Known(incident.seen)
  /\ \A k \in Evaluators :
       Deciding(k) /\ eval[k].row.status = "open" /\ ~eval[k].fires => Known(eval[k].stamp)

\* Evaluation k will find that the threshold was reached up to t.
Comes(k, t) ==
  /\ eval[k].stamp \in (t - Window + 1) .. t
  /\ \/ Is(k, "count")
     \/ Is(k, "load") /\ eval[k].count >= Threshold
     \/ Deciding(k) /\ eval[k].fires

BurstsCome ==
  ~lost =>
    \A t \in Failures :
      Within(t - Window + 1, t) >= Threshold => Known(t) \/ \E k \in Evaluators : Comes(k, t)

\* One evaluation after the other: the row is of the last failure but one that is still
\* being evaluated, spells are told of once, and a closed alert was not told of.
Once ==
  ~crossed /\ ~lost =>
    /\ \A j, k \in Evaluators : ~Is(j, "rest") /\ ~Is(k, "rest") => j = k
    /\ \A k \in Evaluators : ~Is(k, "rest") => \A t \in Failures : t <= eval[k].stamp
    /\ \A t \in Failures : \/ incident # NoRow /\ t <= incident.seen
                           \/ \E k \in Evaluators : Listed(k) /\ t = eval[k].stamp
    /\ \A i \in DOMAIN fired : incident # NoRow /\ fired[i] <= incident.seen
    /\ \A i, j \in DOMAIN fired : Same(Failures, fired[i], fired[j]) => i = j
    /\ incident.status = "closed" =>
         \A i \in DOMAIN fired : ~Same(Failures, fired[i], incident.seen)
    /\ \A k \in Evaluators :
         /\ Deciding(k) /\ (eval[k].fires \/ eval[k].row.status = "closed") =>
              \A i \in DOMAIN fired : ~Same(Failures, fired[i], eval[k].stamp)
         /\ Is(k, "create") => incident = NoRow

FailureInv == Shapes /\ OpenIsKnown /\ BurstsCome /\ Once

LEMMA FailureNumbers ==
  /\ Window \in Nat \ {0} /\ Threshold \in Nat \ {0} /\ Horizon \in Nat /\ Horizon > 0
  /\ MaxLogs \in Nat /\ Times \in SUBSET Nat /\ IsFiniteSet(Evaluators)
  /\ 0 \in Times /\ 1 \in Times /\ NoRow \in Alerts /\ Asleep \in Evals
<1>1. /\ Window \in Nat \ {0} /\ Threshold \in Nat \ {0} /\ Horizon \in Nat /\ Horizon > 0
      /\ MaxLogs \in Nat /\ IsFiniteSet(Evaluators)
  BY FailureAssumption
<1>2. Times \in SUBSET Nat /\ 0 \in Times /\ 1 \in Times
  BY <1>1 DEF Times
<1>3. NoRow \in Alerts
  BY <1>2 DEF NoRow, Alerts
<1>4. Asleep \in Evals
  BY <1>1, <1>2, <1>3 DEF Asleep, Evals
<1> QED
  BY <1>1, <1>2, <1>3, <1>4

-----------------------------------------------------------------------------
(* Failure alerts: spells of failures                                       *)

LEMMA SameFacts ==
  ASSUME NEW F \in SUBSET Nat
  PROVE  /\ \A a \in F : Same(F, a, a)
         /\ \A a, b \in F : Same(F, a, b) <=> Same(F, b, a)
         /\ \A a, b, c \in F : Same(F, a, b) /\ Same(F, b, c) => Same(F, a, c)
         /\ \A a, b \in F : a <= b /\ b <= a + Window => Same(F, a, b)
<1>0. Window \in Nat
  BY FailureNumbers
<1>1. ASSUME NEW a \in F PROVE Same(F, a, a)
  BY DEF Same, Linked
<1>2. ASSUME NEW a \in F, NEW b \in F PROVE Same(F, a, b) <=> Same(F, b, a)
  <2>1. CASE a = b
    BY <2>1
  <2>2. CASE a # b
    BY <2>2 DEF Same
  <2> QED
    BY <2>1, <2>2
<1>3. ASSUME NEW a \in F, NEW b \in F, NEW c \in F, Same(F, a, b), Same(F, b, c) PROVE Same(F, a, c)
  <2>1. CASE a <= b /\ b <= c
    BY <1>3, <2>1 DEF Same, Linked
  <2>2. CASE a <= b /\ c < b /\ a <= c
    BY <1>3, <2>2 DEF Same, Linked
  <2>3. CASE a <= b /\ c < b /\ c < a
    BY <1>3, <2>3 DEF Same, Linked
  <2>4. CASE b < a /\ b <= c /\ a <= c
    BY <1>3, <2>4 DEF Same, Linked
  <2>5. CASE b < a /\ b <= c /\ c < a
    BY <1>3, <2>5 DEF Same, Linked
  <2>6. CASE b < a /\ c < b
    <3>1. Linked(F, b, a) /\ Linked(F, c, b) /\ ~(a <= c)
      BY <1>3, <2>6 DEF Same
    <3>2. Linked(F, c, a)
      BY <2>6, <3>1 DEF Linked
    <3> QED
      BY <3>1, <3>2 DEF Same
  <2> QED
    BY <2>1, <2>2, <2>3, <2>4, <2>5, <2>6
<1>4. ASSUME NEW a \in F, NEW b \in F, a <= b, b <= a + Window PROVE Same(F, a, b)
  <2>1. ASSUME NEW u \in F, a <= u, u < b PROVE u < b /\ b <= u + Window
    BY <1>0, <1>4, <2>1
  <2> QED
    BY <1>4, <2>1 DEF Same, Linked
<1> QED
  BY <1>1, <1>2, <1>3, <1>4

\* Spells merge when there are more failures, and never break.
LEMMA LinkedGrows ==
  ASSUME NEW F \in SUBSET Nat, NEW G \in SUBSET Nat, F \subseteq G,
         NEW a \in F, NEW b \in F, Linked(F, a, b)
  PROVE  Linked(G, a, b)
<1> SUFFICES ASSUME NEW u \in G, a <= u, u < b PROVE \E v \in G : u < v /\ v <= u + Window
  BY DEF Linked
<1> DEFINE S == {x \in F : a <= x /\ x <= u}
<1>1. u \in Nat /\ S \in SUBSET (0 .. u) /\ a \in S
  <2>1. u \in Nat /\ a \in Nat /\ a <= u
    OBVIOUS
  <2>2. \A x \in F : x <= u => x \in 0 .. u
    BY <2>1
  <2>3. a <= a
    BY <2>1
  <2> QED
    BY <2>1, <2>2, <2>3
<1>2. PICK p \in S : \A x \in S : x <= p
  <2> HIDE DEF S
  <2> QED
    BY <1>1, GreatestUpTo
<1>3. p \in F /\ a <= p /\ p <= u /\ p < b /\ p \in Nat /\ b \in Nat
  OBVIOUS
<1>4. PICK v \in F : p < v /\ v <= p + Window
  BY <1>3 DEF Linked
<1>5. v \notin S
  BY <1>2, <1>3, <1>4
<1>6. v \in Nat /\ a \in Nat /\ u < v
  BY <1>3, <1>4, <1>5
<1> QED
  BY <1>1, <1>3, <1>4, <1>6, FailureNumbers

LEMMA SameGrows ==
  ASSUME NEW F \in SUBSET Nat, NEW G \in SUBSET Nat, F \subseteq G,
         NEW a \in F, NEW b \in F, Same(F, a, b)
  PROVE  Same(G, a, b)
BY LinkedGrows DEF Same

\* A last failure links none of those before it.
LEMMA SameBeforeLast ==
  ASSUME NEW F \in SUBSET Nat, NEW u \in Nat, \A w \in F : w <= u,
         NEW a \in F, NEW b \in F, Same(F \cup {u}, a, b)
  PROVE  Same(F, a, b)
<1> DEFINE G == F \cup {u}
<1>1. ASSUME NEW x \in F, NEW y \in F, Linked(G, x, y) PROVE Linked(F, x, y)
  <2> SUFFICES ASSUME NEW w \in F, x <= w, w < y PROVE \E v \in F : w < v /\ v <= w + Window
    BY DEF Linked
  <2>1. PICK v \in G : w < v /\ v <= w + Window
    BY <1>1 DEF Linked
  <2>2. CASE v \in F
    BY <2>1, <2>2
  <2>3. CASE v = u
    <3>1. y <= u /\ y \in Nat /\ w \in Nat
      OBVIOUS
    <3>2. w < y /\ y <= w + Window
      BY <2>1, <2>3, <3>1, FailureNumbers
    <3> QED
      BY <3>2
  <2> QED
    BY <2>2, <2>3
<1> QED
  BY <1>1 DEF Same

\* A failure that comes too late for the last one begins a spell.
LEMMA NewSpell ==
  ASSUME NEW F \in SUBSET Nat, NEW x \in F, NEW u \in F, x + Window < u,
         \A w \in F : w <= x \/ w = u, NEW a \in F, a <= x
  PROVE  ~Same(F, a, u)
<1>1. x \in Nat /\ u \in Nat /\ a \in Nat /\ Window \in Nat \ {0}
  BY FailureNumbers
<1>2. ASSUME Same(F, a, u) PROVE FALSE
  <2>1. Linked(F, a, u)
    BY <1>1, <1>2 DEF Same
  <2>2. PICK v \in F : x < v /\ v <= x + Window
    BY <1>1, <2>1 DEF Linked
  <2>3. v \in Nat /\ (v <= x \/ v = u)
    OBVIOUS
  <2> QED
    BY <1>1, <2>2, <2>3
<1> QED
  BY <1>2

-----------------------------------------------------------------------------
(* Failure alerts: what has been told                                       *)

LEMMA KnownIs ==
  ASSUME Failures \subseteq Nat, NEW t \in Nat
  PROVE  Known(t) <=> \E s \in Failures : Same(Failures, s, t) /\ \E i \in DOMAIN fired : s <= fired[i]
<1>1. \A s \in Failures : s \in SpellOf(t) <=> Same(Failures, s, t)
  BY DEF SpellOf, OneSpell, Same, Linked
<1>2. SpellOf(t) \subseteq Failures
  BY DEF SpellOf
<1> QED
  BY <1>1, <1>2 DEF Known

LEMMA KnownNear ==
  ASSUME Failures \subseteq Nat, fired \in Seq(Times),
         NEW x \in Failures, NEW y \in Failures, x - y <= Window, Known(y)
  PROVE  Known(x)
<1>0. x \in Nat /\ y \in Nat /\ Window \in Nat
  BY FailureNumbers
<1>1. PICK s \in Failures : Same(Failures, s, y) /\ \E i \in DOMAIN fired : s <= fired[i]
  BY <1>0, KnownIs
<1>2. PICK i \in DOMAIN fired : s <= fired[i]
  BY <1>1
<1>3. s \in Nat /\ fired[i] \in Nat
  <2>1. fired[i] \in Times
    OBVIOUS
  <2> QED
    BY <2>1, FailureNumbers
<1>4. CASE y <= x
  <2>1. Same(Failures, y, x)
    BY <1>0, <1>4, SameFacts
  <2>2. Same(Failures, s, x)
    BY <1>1, <2>1, SameFacts
  <2> QED
    BY <1>0, <1>2, <2>2, KnownIs
<1>5. CASE x < y /\ x <= s
  <2>1. Same(Failures, x, x) /\ x <= fired[i]
    BY <1>0, <1>2, <1>3, <1>5, SameFacts
  <2> QED
    BY <1>0, <2>1, KnownIs
<1>6. CASE x < y /\ s < x
  <2>1. Linked(Failures, s, y)
    BY <1>0, <1>1, <1>3, <1>6 DEF Same
  <2>2. Linked(Failures, s, x)
    BY <1>0, <1>3, <1>6, <2>1 DEF Linked
  <2>3. Same(Failures, s, x)
    BY <1>0, <1>3, <1>6, <2>2 DEF Same
  <2> QED
    BY <1>0, <1>2, <2>3, KnownIs
<1> QED
  BY <1>0, <1>3, <1>4, <1>5, <1>6

LEMMA KnownGrows ==
  ASSUME Failures \subseteq Nat, Failures' \subseteq Nat, Failures \subseteq Failures',
         \A i \in DOMAIN fired : i \in DOMAIN fired' /\ fired'[i] = fired[i],
         NEW t \in Failures, Known(t)
  PROVE  Known(t)'
<1>1. PICK s \in Failures : Same(Failures, s, t) /\ \E i \in DOMAIN fired : s <= fired[i]
  BY KnownIs
<1>2. PICK i \in DOMAIN fired : s <= fired[i]
  BY <1>1
<1>3. s \in SpellOf(t)'
  <2>1. Same(Failures', s, t)
    <3> DEFINE F == Failures
               G == Failures'
    <3>1. F \in SUBSET Nat /\ G \in SUBSET Nat /\ F \subseteq G /\ s \in F /\ t \in F /\ Same(F, s, t)
      BY <1>1
    <3> HIDE DEF F, G
    <3>2. Same(G, s, t)
      BY <3>1, SameGrows
    <3> QED
      BY <3>2 DEF G
  <2> QED
    BY <2>1 DEF SpellOf, OneSpell, Same, Linked
<1>4. i \in DOMAIN fired' /\ s <= fired'[i]
  BY <1>2
<1> QED
  BY <1>3, <1>4 DEF Known

\* A notice of a failure in the window of t tells of its spell.
LEMMA KnownNow ==
  ASSUME Failures \subseteq Nat, NEW t \in Failures, NEW u \in Failures,
         u \in (t - Window + 1) .. t, NEW i \in DOMAIN fired, fired[i] = u
  PROVE  Known(t)
<1>1. t \in Nat /\ u \in Nat /\ Window \in Nat \ {0} /\ u <= t /\ t <= u + Window
  BY FailureNumbers
<1>2. Same(Failures, u, t) /\ u <= fired[i]
  BY <1>1, SameFacts
<1> QED
  BY <1>1, <1>2, KnownIs

-----------------------------------------------------------------------------
(* Failure alerts: steps                                                    *)

LEMMA FailureFacts ==
  ASSUME FailureTypeOK
  PROVE  /\ clock \in Nat /\ clock <= Horizon /\ stamped \in Nat /\ stamped <= MaxLogs
         /\ written \in Seq(Times) /\ fired \in Seq(Times)
         /\ Len(written) \in Nat /\ Len(fired) \in Nat
         /\ incident \in Alerts /\ lost \in BOOLEAN /\ crossed \in BOOLEAN
         /\ Failures \in SUBSET Times /\ Failures \in SUBSET Nat
         /\ eval \in [Evaluators -> Evals]
         /\ \A k \in Evaluators :
              /\ eval[k] \in Evals /\ eval[k].stamp \in Times /\ eval[k].stamp \in Nat
              /\ eval[k].row \in Alerts /\ eval[k].fires \in BOOLEAN /\ eval[k].count \in 0 .. MaxLogs
         /\ IsFiniteSet(Inserting) /\ Cardinality(Inserting) \in Nat
         /\ IsFiniteSet(Busy) /\ Cardinality(Busy) \in Nat
<1>1. /\ clock \in Nat /\ clock <= Horizon /\ stamped \in Nat /\ stamped <= MaxLogs
  BY FailureNumbers DEF FailureTypeOK, Times
<1>2. /\ written \in Seq(Times) /\ fired \in Seq(Times)
      /\ incident \in Alerts /\ lost \in BOOLEAN /\ crossed \in BOOLEAN
      /\ eval \in [Evaluators -> Evals]
  BY DEF FailureTypeOK
<1>3. Len(written) \in Nat /\ Len(fired) \in Nat
  BY <1>2
<1>4. Failures \in SUBSET Times /\ Failures \in SUBSET Nat
  <2>1. \A i \in DOMAIN written : written[i] \in Times
    BY <1>2
  <2> QED
    BY <2>1, FailureNumbers DEF Failures
<1>5. ASSUME NEW k \in Evaluators
      PROVE  /\ eval[k] \in Evals /\ eval[k].stamp \in Times /\ eval[k].stamp \in Nat
             /\ eval[k].row \in Alerts /\ eval[k].fires \in BOOLEAN /\ eval[k].count \in 0 .. MaxLogs
  <2>1. eval[k] \in Evals
    BY <1>2
  <2>2. /\ eval[k].stamp \in Times /\ eval[k].row \in Alerts
        /\ eval[k].fires \in BOOLEAN /\ eval[k].count \in 0 .. MaxLogs
    BY <2>1 DEF Evals
  <2> QED
    BY <2>1, <2>2, FailureNumbers
<1>6. Inserting \in SUBSET Evaluators /\ Busy \in SUBSET Evaluators
  BY DEF Inserting, Busy
<1>7. /\ IsFiniteSet(Inserting) /\ Cardinality(Inserting) \in Nat
      /\ IsFiniteSet(Busy) /\ Cardinality(Busy) \in Nat
  BY <1>6, FailureNumbers, Smaller
<1> QED
  BY <1>1, <1>2, <1>3, <1>4, <1>5, <1>7

\* One evaluation moves.
LEMMA OneMoves ==
  ASSUME FailureTypeOK, NEW k \in Evaluators, NEW e \in Evals, Set(k, e)
  PROVE  /\ eval' \in [Evaluators -> Evals] /\ eval'[k] = e
         /\ \A j \in Evaluators \ {k} : eval'[j] = eval[j]
         /\ \A j \in Evaluators : j = k \/ eval'[j] = eval[j]
BY DEF FailureTypeOK, Set

\* How many insert, and how many are at work, when one moves.
LEMMA Counts ==
  ASSUME FailureTypeOK, NEW k \in Evaluators, \A j \in Evaluators : j = k \/ eval'[j] = eval[j]
  PROVE  /\ Cardinality(Inserting') \in Nat /\ Cardinality(Busy') \in Nat
         /\ Cardinality(Inserting') <= Cardinality(Inserting) + 1
         /\ Cardinality(Busy') <= Cardinality(Busy) + 1
         /\ eval'[k].at # "insert" => Cardinality(Inserting') <= Cardinality(Inserting)
         /\ eval'[k].at # "insert" /\ Is(k, "insert") =>
              Cardinality(Inserting') + 1 <= Cardinality(Inserting)
         /\ ~Is(k, "rest") => Cardinality(Busy') <= Cardinality(Busy)
         /\ eval'[k].at = "rest" /\ ~Is(k, "rest") => Cardinality(Busy') + 1 <= Cardinality(Busy)
<1>1. /\ IsFiniteSet(Inserting) /\ Cardinality(Inserting) \in Nat
      /\ IsFiniteSet(Busy) /\ Cardinality(Busy) \in Nat
  BY FailureFacts
<1>2. /\ Inserting' \in SUBSET (Inserting \cup {k}) /\ Busy' \in SUBSET (Busy \cup {k})
      /\ eval'[k].at # "insert" => Inserting' \in SUBSET (Inserting \ {k})
      /\ Is(k, "insert") => k \in Inserting
      /\ ~Is(k, "rest") => k \in Busy
      /\ eval'[k].at = "rest" => Busy' \in SUBSET (Busy \ {k})
  BY DEF Inserting, Busy, Is
<1> DEFINE I == Inserting
           J == Inserting'
           B == Busy
           C == Busy'
<1>3. /\ I \ {k} \in SUBSET I
      /\ IsFiniteSet(I) /\ Cardinality(I) \in Nat /\ IsFiniteSet(B) /\ Cardinality(B) \in Nat
      /\ J \in SUBSET (I \cup {k}) /\ C \in SUBSET (B \cup {k})
  BY <1>1, <1>2
<1>4. /\ eval'[k].at # "insert" => J \in SUBSET (I \ {k})
      /\ Is(k, "insert") => k \in I
      /\ ~Is(k, "rest") => k \in B
      /\ eval'[k].at = "rest" => C \in SUBSET (B \ {k})
  BY <1>2
<1> HIDE DEF I, J, B, C
<1>5. /\ Cardinality(J) \in Nat /\ Cardinality(C) \in Nat
      /\ Cardinality(J) <= Cardinality(I) + 1 /\ Cardinality(C) <= Cardinality(B) + 1
  BY <1>3, OneMore
<1>6. eval'[k].at # "insert" => Cardinality(J) <= Cardinality(I)
  <2>1. eval'[k].at # "insert" => J \in SUBSET I
    BY <1>4
  <2> QED
    BY <1>3, <2>1, Smaller
<1>7. eval'[k].at # "insert" /\ Is(k, "insert") => Cardinality(J) + 1 <= Cardinality(I)
  BY <1>3, <1>4, OneFewer
<1>8. ~Is(k, "rest") => Cardinality(C) <= Cardinality(B)
  <2>1. ~Is(k, "rest") => C \in SUBSET B
    BY <1>3, <1>4
  <2> QED
    BY <1>3, <2>1, Smaller
<1>9. eval'[k].at = "rest" /\ ~Is(k, "rest") => Cardinality(C) + 1 <= Cardinality(B)
  BY <1>3, <1>4, OneFewer
<1> QED
  BY <1>5, <1>6, <1>7, <1>8, <1>9 DEF I, J, B, C

LEMMA FailureStarts ==
  FailureInit => FailureInv
<1> SUFFICES ASSUME FailureInit PROVE FailureInv
  OBVIOUS
<1>1. /\ clock = 1 /\ stamped = 0 /\ written = <<>> /\ fired = <<>> /\ incident = NoRow
      /\ eval = [k \in Evaluators |-> Asleep] /\ lost = FALSE /\ crossed = FALSE
  BY DEF FailureInit
<1>2. \A k \in Evaluators : eval[k] = Asleep /\ eval[k].at = "rest"
  BY <1>1 DEF Asleep
<1>3. FailureTypeOK
  <2>1. eval \in [Evaluators -> Evals] /\ incident \in Alerts /\ clock \in Times
    BY <1>1, FailureNumbers
  <2>2. stamped \in 0 .. MaxLogs /\ Len(written) = 0 /\ Len(fired) = 0 /\ 0 \in 0 .. MaxLogs
    BY <1>1, FailureNumbers
  <2>3. written \in Seq(Times) /\ fired \in Seq(Times)
    BY <1>1
  <2>4. lost \in BOOLEAN /\ crossed \in BOOLEAN
    BY <1>1
  <2> QED
    BY <2>1, <2>2, <2>3, <2>4 DEF FailureTypeOK
<1>4. Failures = {}
  BY <1>1 DEF Failures
<1>5. Cardinality(Inserting) = 0 /\ Cardinality(Busy) = 0
  <2>1. Inserting = {} /\ Busy = {}
    BY <1>2 DEF Inserting, Busy, Is
  <2> QED
    BY <2>1, FS_EmptySet
<1>6. Shapes
  <2>1. {fired[i] : i \in DOMAIN fired} = {} /\ Len(written) = 0 /\ Len(fired) = 0
    BY <1>1
  <2>2. Len(written) + Cardinality(Inserting) <= stamped /\ Len(fired) + Cardinality(Busy) <= stamped
    BY <1>1, <1>5, <2>1
  <2>3. clock >= 1
    BY <1>1
  <2> QED
    BY <1>1, <1>2, <1>3, <1>4, <2>1, <2>2, <2>3 DEF Shapes, Is, Listed, Deciding
<1>7. OpenIsKnown /\ BurstsCome
  BY <1>1, <1>2, <1>4 DEF OpenIsKnown, BurstsCome, NoRow, Deciding
<1>8. Once
  BY <1>1, <1>2, <1>4 DEF Once, Is, Listed, Deciding, NoRow
<1> QED
  BY <1>6, <1>7, <1>8 DEF FailureInv

LEMMA TickKeeps ==
  ASSUME FailureInv, Tick \/ UNCHANGED failureVars
  PROVE  FailureInv'
<1>1. /\ clock' \in Times /\ clock <= clock' /\ stamped' = stamped /\ written' = written
      /\ incident' = incident /\ fired' = fired /\ eval' = eval /\ lost' = lost /\ crossed' = crossed
  <2>1. FailureTypeOK
    BY DEF FailureInv, Shapes
  <2>2. clock \in Nat /\ clock \in Times
    BY <2>1, FailureFacts DEF FailureTypeOK
  <2>3. clock' \in Times /\ clock <= clock'
    BY <2>2, FailureNumbers DEF Tick, failureVars, Times
  <2> QED
    BY <2>3 DEF Tick, failureVars
<1>2. Shapes'
  <2>1. Shapes /\ clock \in Nat /\ clock' \in Nat
    BY <1>1, FailureFacts, FailureNumbers DEF FailureInv, Shapes
  <2>2. 1 .. clock \subseteq 1 .. clock' /\ (clock >= 1 => clock' >= 1)
    BY <1>1, <2>1
  <2>3. Failures' = Failures /\ Inserting' = Inserting /\ Busy' = Busy
    BY <1>1 DEF Failures, Inserting, Busy, Is
  <2>4. FailureTypeOK'
    BY <1>1, <2>1 DEF Shapes, FailureTypeOK
  <2> QED
    BY <1>1, <2>1, <2>2, <2>3, <2>4 DEF Shapes, Is, Listed, Deciding
<1>3. OpenIsKnown' /\ BurstsCome'
  BY <1>1 DEF FailureInv, OpenIsKnown, BurstsCome, Known, SpellOf, OneSpell, Failures, Within,
              Comes, Deciding, Is
<1>4. Once'
  BY <1>1 DEF FailureInv, Once, Failures, Is, Listed, Deciding
<1> QED
  BY <1>2, <1>3, <1>4 DEF FailureInv

LEMMA StampKeeps ==
  ASSUME FailureInv, NEW k \in Evaluators, Stamp(k)
  PROVE  FailureInv'
<1> DEFINE e == [Asleep EXCEPT !.at = "insert", !.stamp = clock]
<1>0. FailureTypeOK /\ Shapes /\ clock \in Nat /\ clock >= 1 /\ stamped \in Nat
  BY FailureFacts DEF FailureInv, Shapes
<1>1. /\ clock' = clock /\ stamped' = stamped + 1 /\ stamped < MaxLogs /\ written' = written
      /\ incident' = incident /\ fired' = fired /\ lost' = lost
      /\ crossed' = (crossed \/ \E j \in Evaluators : ~Is(j, "rest"))
      /\ Is(k, "rest") /\ Set(k, e)
  BY DEF Stamp
<1>2. e \in Evals /\ e.at = "insert" /\ e.stamp = clock
  <2>1. clock \in Times
    BY <1>0 DEF FailureTypeOK
  <2> QED
    BY <2>1, FailureNumbers DEF Evals, Asleep
<1> HIDE DEF e
<1>3. /\ eval' \in [Evaluators -> Evals] /\ eval'[k] = e
      /\ \A j \in Evaluators : j = k \/ eval'[j] = eval[j]
  BY <1>0, <1>1, <1>2, OneMoves
<1>4. Failures' = Failures
  BY <1>1 DEF Failures
<1>5. Shapes'
  <2>1. FailureTypeOK'
    <3>1. stamped' \in 0 .. MaxLogs /\ crossed' \in BOOLEAN
      BY <1>0, <1>1, FailureNumbers, FailureFacts
    <3> QED
      BY <1>0, <1>1, <1>3, <3>1 DEF FailureTypeOK
  <2>2. /\ Len(written') + Cardinality(Inserting') <= stamped'
        /\ Len(fired') + Cardinality(Busy') <= stamped'
    BY <1>0, <1>1, <1>3, Counts, FailureFacts DEF Shapes
  <2>3. e.stamp \in 1 .. clock
    BY <1>0, <1>2
  <2>4. \A j \in Evaluators :
          /\ ~Is(j, "rest")' => eval'[j].stamp \in 1 .. clock
          /\ Listed(j)' => eval'[j].stamp \in Failures
          /\ Deciding(j)' => /\ eval'[j].row.seen = eval'[j].stamp
                             /\ eval'[j].row.status \in {"open", "closed"}
                             /\ eval'[j].fires => eval'[j].row.status = "open"
    BY <1>0, <1>2, <1>3, <2>3 DEF Shapes, Is, Listed, Deciding
  <2>5. /\ clock' >= 1 /\ Failures' \subseteq 1 .. clock'
        /\ {fired'[i] : i \in DOMAIN fired'} \subseteq Failures'
        /\ incident' # NoRow => incident'.status # "none" /\ incident'.seen \in Failures'
    BY <1>0, <1>1, <1>4 DEF Shapes
  <2> QED
    BY <1>1, <1>4, <2>1, <2>2, <2>4, <2>5 DEF Shapes
<1>6. \A t : Known(t)' = Known(t)
  BY <1>1, <1>4 DEF Known, SpellOf, OneSpell
<1>7. OpenIsKnown'
  BY <1>1, <1>2, <1>3, <1>6 DEF FailureInv, OpenIsKnown, Deciding
<1>8. BurstsCome'
  <2>1. \A t : Within(t - Window + 1, t)' = Within(t - Window + 1, t)
    BY <1>1 DEF Within
  <2>2. \A j \in Evaluators, t \in Failures : Comes(j, t) => Comes(j, t)'
    BY <1>1, <1>2, <1>3 DEF Comes, Is, Deciding
  <2> QED
    BY <1>1, <1>4, <1>6, <2>1, <2>2 DEF FailureInv, BurstsCome
<1>9. Once'
  <2> SUFFICES ASSUME ~crossed', ~lost' PROVE Once'
    BY DEF Once
  <2>1. ~crossed /\ ~lost /\ \A j \in Evaluators : Is(j, "rest")
    BY <1>1
  <2>2. \A t \in Failures : t <= clock
    BY <1>0, FailureFacts DEF Shapes
  <2>3. \A j \in Evaluators : j = k \/ eval'[j].at = "rest"
    BY <1>3, <2>1 DEF Is
  <2>4. eval'[k].at = "insert" /\ eval'[k].stamp = clock
    BY <1>2, <1>3
  <2>5. /\ \A t \in Failures : incident # NoRow /\ t <= incident.seen
        /\ \A i \in DOMAIN fired : incident # NoRow /\ fired[i] <= incident.seen
        /\ \A i, j \in DOMAIN fired : Same(Failures, fired[i], fired[j]) => i = j
        /\ incident.status = "closed" =>
             \A i \in DOMAIN fired : ~Same(Failures, fired[i], incident.seen)
    BY <2>1 DEF FailureInv, Once, Listed, Is
  <2> QED
    BY <1>1, <1>4, <2>2, <2>3, <2>4, <2>5 DEF Once, Is, Listed, Deciding
<1> QED
  BY <1>5, <1>7, <1>8, <1>9 DEF FailureInv

\* A statement that fails ends an evaluation; little is promised afterwards.
LEMMA ErrorKeeps ==
  ASSUME FailureInv, NEW k \in Evaluators, ~Is(k, "rest"), Set(k, Asleep), lost' = TRUE,
         UNCHANGED <<clock, stamped, written, incident, fired, crossed>>
  PROVE  FailureInv'
<1>0. FailureTypeOK /\ Shapes
  BY DEF FailureInv, Shapes
<1>1. /\ eval' \in [Evaluators -> Evals] /\ eval'[k] = Asleep
      /\ \A j \in Evaluators : j = k \/ eval'[j] = eval[j]
  BY <1>0, FailureNumbers, OneMoves
<1>2. Asleep.at = "rest"
  BY DEF Asleep
<1>3. Failures' = Failures
  BY DEF Failures
<1>4. Shapes'
  <2>1. FailureTypeOK'
    BY <1>0, <1>1 DEF FailureTypeOK
  <2>2. /\ Len(written') + Cardinality(Inserting') <= stamped'
        /\ Len(fired') + Cardinality(Busy') <= stamped'
    <3>1. eval'[k].at = "rest" /\ stamped \in Nat /\ Len(written) \in Nat /\ Len(fired) \in Nat
      BY <1>0, <1>1, <1>2, FailureFacts
    <3>2. /\ Cardinality(Inserting') \in Nat /\ Cardinality(Inserting') <= Cardinality(Inserting)
          /\ Cardinality(Busy') \in Nat /\ Cardinality(Busy') <= Cardinality(Busy)
          /\ Cardinality(Inserting) \in Nat /\ Cardinality(Busy) \in Nat
      BY <1>0, <1>1, <3>1, Counts, FailureFacts
    <3>3. /\ Len(written) + Cardinality(Inserting) <= stamped
          /\ Len(fired) + Cardinality(Busy) <= stamped
      BY <1>0 DEF Shapes
    <3> QED
      BY <3>1, <3>2, <3>3
  <2>3. \A j \in Evaluators :
          /\ ~Is(j, "rest")' => eval'[j].stamp \in 1 .. clock
          /\ Listed(j)' => eval'[j].stamp \in Failures
          /\ Deciding(j)' => /\ eval'[j].row.seen = eval'[j].stamp
                             /\ eval'[j].row.status \in {"open", "closed"}
                             /\ eval'[j].fires => eval'[j].row.status = "open"
    BY <1>0, <1>1, <1>2 DEF Shapes, Is, Listed, Deciding
  <2> QED
    BY <1>0, <1>3, <2>1, <2>2, <2>3 DEF Shapes
<1>5. OpenIsKnown'
  <2>1. \A t : Known(t)' = Known(t)
    BY <1>3 DEF Known, SpellOf, OneSpell
  <2> QED
    BY <1>1, <1>2, <2>1 DEF FailureInv, OpenIsKnown, Deciding
<1>6. BurstsCome' /\ Once'
  BY DEF BurstsCome, Once
<1> QED
  BY <1>4, <1>5, <1>6 DEF FailureInv

LEMMA InsertKeeps ==
  ASSUME FailureInv, NEW k \in Evaluators, Insert(k)
  PROVE  FailureInv'
<1> DEFINE u == eval[k].stamp
           e == [eval[k] EXCEPT !.at = "count"]
<1>0. /\ FailureTypeOK /\ Shapes /\ Is(k, "insert")
      /\ UNCHANGED <<clock, stamped, incident, fired, crossed>>
  BY DEF FailureInv, Shapes, Insert
<1>1. CASE lost' = TRUE /\ Set(k, Asleep) /\ UNCHANGED written
  BY <1>0, <1>1, ErrorKeeps DEF Is
<1>2. CASE Whole /\ written' = Append(written, u) /\ Set(k, e)
  <2>1. u \in Times /\ u \in Nat /\ u \in 1 .. clock /\ eval[k] \in Evals
    BY <1>0, FailureFacts DEF Shapes, Is
  <2>2. e \in Evals /\ e.at = "count" /\ e.stamp = u
    BY <2>1 DEF Evals
  <2> HIDE DEF e
  <2>3. /\ eval' \in [Evaluators -> Evals] /\ eval'[k] = e
        /\ \A j \in Evaluators : j = k \/ eval'[j] = eval[j]
    BY <1>0, <1>2, <2>2, OneMoves
  <2>4. /\ written \in Seq(Times) /\ written' \in Seq(Times) /\ Len(written') = Len(written) + 1
        /\ Len(written) \in Nat
        /\ DOMAIN written' = DOMAIN written \cup {Len(written) + 1}
        /\ \A i \in DOMAIN written : written'[i] = written[i] /\ i # Len(written) + 1
        /\ written'[Len(written) + 1] = u
    <3>1. written \in Seq(Times)
      BY <1>0, FailureFacts
    <3> HIDE DEF u
    <3> QED
      BY <1>2, <2>1, <3>1
  <2>5. Failures' = Failures \cup {u} /\ Failures \in SUBSET Nat
    <3>1. \A i \in DOMAIN written' : written'[i] \in Failures \cup {u}
      BY <2>4 DEF Failures
    <3>2. \A w \in Failures : \E i \in DOMAIN written' : written'[i] = w
      BY <2>4 DEF Failures
    <3>3. \E i \in DOMAIN written' : written'[i] = u
      BY <2>4
    <3>4. Failures' = {written'[i] : i \in DOMAIN written'}
      BY DEF Failures
    <3> QED
      BY <1>0, <3>1, <3>2, <3>3, <3>4, FailureFacts
  <2>6. \A t \in Failures : Known(t) => Known(t)'
    <3>1. Failures \subseteq Nat /\ Failures' \subseteq Nat /\ Failures \subseteq Failures'
      BY <2>1, <2>5
    <3> QED
      BY <1>0, <3>1, KnownGrows
  <2>7. Shapes'
    <3>1. /\ Len(written') + Cardinality(Inserting') <= stamped'
          /\ Len(fired') + Cardinality(Busy') <= stamped'
      <4>1. eval'[k].at # "insert" /\ Is(k, "insert") /\ ~Is(k, "rest")
        BY <1>0, <2>2, <2>3 DEF Is
      <4>2. /\ Cardinality(Inserting') + 1 <= Cardinality(Inserting)
            /\ Cardinality(Busy') <= Cardinality(Busy)
            /\ Cardinality(Inserting') \in Nat /\ Cardinality(Busy') \in Nat
        BY <1>0, <2>3, <4>1, Counts
      <4>3. /\ Cardinality(Inserting) \in Nat /\ Cardinality(Busy) \in Nat
            /\ Len(written) \in Nat /\ Len(fired) \in Nat /\ stamped \in Nat
        BY <1>0, FailureFacts
      <4>4. /\ Len(written) + Cardinality(Inserting) <= stamped
            /\ Len(fired) + Cardinality(Busy) <= stamped
        BY <1>0 DEF Shapes
      <4>5. Len(fired') = Len(fired) /\ stamped' = stamped
        BY <1>0
      <4> QED
        BY <2>4, <4>2, <4>3, <4>4, <4>5
    <3>2. FailureTypeOK'
      <4>1. Cardinality(Inserting') \in Nat /\ stamped' = stamped /\ stamped <= MaxLogs /\ stamped \in Nat
        BY <1>0, <2>3, Counts, FailureFacts
      <4>2. Len(written') \in 0 .. MaxLogs
        BY <2>4, <3>1, <4>1, FailureNumbers
      <4>3. lost' = lost
        BY <1>2 DEF Whole
      <4> QED
        BY <1>0, <2>3, <2>4, <4>2, <4>3 DEF FailureTypeOK
    <3>3. \A j \in Evaluators :
            /\ ~Is(j, "rest")' => eval'[j].stamp \in 1 .. clock
            /\ Listed(j)' => eval'[j].stamp \in Failures'
            /\ Deciding(j)' => /\ eval'[j].row.seen = eval'[j].stamp
                               /\ eval'[j].row.status \in {"open", "closed"}
                               /\ eval'[j].fires => eval'[j].row.status = "open"
      BY <1>0, <2>1, <2>2, <2>3, <2>5 DEF Shapes, Is, Listed, Deciding
    <3>4. /\ clock' >= 1 /\ Failures' \subseteq 1 .. clock'
          /\ {fired'[i] : i \in DOMAIN fired'} \subseteq Failures'
          /\ incident' # NoRow => incident'.status # "none" /\ incident'.seen \in Failures'
      BY <1>0, <2>1, <2>5 DEF Shapes
    <3> QED
      BY <1>0, <3>1, <3>2, <3>3, <3>4 DEF Shapes
  <2>8. OpenIsKnown'
    <3>1. incident.status = "open" => incident.seen \in Failures
      BY <1>0 DEF Shapes, NoRow
    <3>2. incident'.status = "open" => Known(incident.seen)'
      BY <1>0, <2>6, <3>1 DEF FailureInv, OpenIsKnown
    <3>3. ASSUME NEW j \in Evaluators, Deciding(j)', eval'[j].row.status = "open", ~eval'[j].fires
          PROVE  Known(eval[j].stamp)'
      <4>1. eval'[j] = eval[j] /\ Deciding(j)
        BY <2>2, <2>3, <3>3 DEF Deciding
      <4>2. eval[j].stamp \in Failures
        BY <1>0, <4>1 DEF Shapes, Deciding, Listed
      <4>3. Known(eval[j].stamp)
        BY <3>3, <4>1 DEF FailureInv, OpenIsKnown
      <4> QED
        BY <2>6, <4>1, <4>2, <4>3
    <3> QED
      BY <3>2, <3>3 DEF OpenIsKnown
  <2>9. BurstsCome'
    <3> SUFFICES ASSUME ~lost', NEW t \in Failures', Within(t - Window + 1, t)' >= Threshold
                 PROVE  Known(t)' \/ \E j \in Evaluators : Comes(j, t)'
      BY DEF BurstsCome
    <3>0. ~lost
      BY <1>2 DEF Whole
    <3>1. CASE u \in (t - Window + 1) .. t
      <4>1. Comes(k, t)'
        BY <2>2, <2>3, <3>1 DEF Comes, Is
      <4> QED
        BY <4>1
    <3>2. CASE u \notin (t - Window + 1) .. t
      <4>1. t # u /\ t \in Failures /\ t \in Nat
        BY <2>1, <2>5, <3>2, FailureNumbers
      <4>2. Within(t - Window + 1, t)' = Within(t - Window + 1, t)
        <5>1. {i \in DOMAIN written' : t - Window + 1 <= written'[i] /\ written'[i] <= t}
                = {i \in DOMAIN written : t - Window + 1 <= written[i] /\ written[i] <= t}
          BY <2>1, <2>4, <3>2, <4>1, FailureNumbers
        <5> QED
          BY <5>1 DEF Within
      <4>3. Known(t) \/ \E j \in Evaluators : Comes(j, t)
        BY <3>0, <4>1, <4>2 DEF FailureInv, BurstsCome
      <4>4. \A j \in Evaluators : Comes(j, t) => Comes(j, t)'
        BY <1>0, <2>3 DEF Comes, Is, Deciding
      <4> QED
        BY <2>6, <4>1, <4>3, <4>4
    <3> QED
      BY <3>1, <3>2
  <2>10. Once'
    <3> SUFFICES ASSUME ~crossed', ~lost' PROVE Once'
      BY DEF Once
    <3>0. ~lost /\ ~crossed
      BY <1>0, <1>2 DEF Whole
    <3>1. \A j \in Evaluators : j = k \/ Is(j, "rest")
      BY <1>0, <3>0 DEF FailureInv, Once, Is
    <3>2. \A t \in Failures : t <= u
      BY <1>0, <3>0 DEF FailureInv, Once, Is
    <3>3. \A t \in Failures : incident # NoRow /\ t <= incident.seen
      BY <1>0, <3>0, <3>1 DEF FailureInv, Once, Is, Listed
    <3>4. \A i \in DOMAIN fired : incident # NoRow /\ fired[i] <= incident.seen /\ fired[i] \in Failures
      BY <1>0, <3>0 DEF FailureInv, Once, Shapes
    <3>5. \A a, b \in Failures : Same(Failures', a, b) => Same(Failures, a, b)
      BY <2>1, <2>5, <3>2, SameBeforeLast
    <3>6. incident.status = "closed" => incident.seen \in Failures
      BY <1>0 DEF Shapes, NoRow
    <3>7. \A i, j \in DOMAIN fired : Same(Failures', fired[i], fired[j]) => i = j
      BY <3>0, <3>4, <3>5 DEF FailureInv, Once
    <3>8. incident.status = "closed" =>
            \A i \in DOMAIN fired : ~Same(Failures', fired[i], incident.seen)
      BY <3>0, <3>4, <3>5, <3>6 DEF FailureInv, Once
    <3>9. /\ eval'[k].at = "count" /\ eval'[k].stamp = u
          /\ \A j \in Evaluators : j = k \/ eval'[j].at = "rest"
      BY <2>2, <2>3, <3>1 DEF Is
    <3>10. \A t \in Failures' : t <= u /\ (t = u \/ (incident # NoRow /\ t <= incident.seen))
      BY <2>1, <2>5, <3>2, <3>3
    <3> HIDE DEF u
    <3> QED
      BY <1>0, <3>4, <3>7, <3>8, <3>9, <3>10 DEF Once, Is, Listed, Deciding
  <2> QED
    BY <2>7, <2>8, <2>9, <2>10 DEF FailureInv
<1> QED
  BY <1>1, <1>2 DEF Insert, Error

\* An evaluation goes on, and nothing else changes.
LEMMA AlertGoesOn ==
  ASSUME FailureInv, NEW k \in Evaluators, Listed(k), NEW e \in Evals, Set(k, e),
         UNCHANGED <<clock, stamped, written, incident, fired, lost, crossed>>,
         e.stamp = eval[k].stamp, e.at \in {"load", "save", "create"},
         e.at \in {"save", "create"} =>
           /\ e.row.seen = e.stamp /\ e.row.status \in {"open", "closed"}
           /\ e.fires => e.row.status = "open"
  PROVE  /\ Shapes' /\ eval'[k] = e /\ Failures' = Failures
         /\ \A j \in Evaluators : j = k \/ eval'[j] = eval[j]
         /\ \A t : Known(t)' = Known(t)
         /\ \A t : Within(t - Window + 1, t)' = Within(t - Window + 1, t)
<1>0. FailureTypeOK /\ Shapes /\ ~Is(k, "rest") /\ ~Is(k, "insert")
  BY DEF FailureInv, Shapes, Listed, Is
<1>1. /\ eval' \in [Evaluators -> Evals] /\ eval'[k] = e
      /\ \A j \in Evaluators : j = k \/ eval'[j] = eval[j]
  BY <1>0, OneMoves
<1>2. Failures' = Failures
  BY DEF Failures
<1>3. Shapes'
  <2>1. FailureTypeOK'
    BY <1>0, <1>1 DEF FailureTypeOK
  <2>2. /\ Len(written') + Cardinality(Inserting') <= stamped'
        /\ Len(fired') + Cardinality(Busy') <= stamped'
    <3>1. /\ Cardinality(Inserting') <= Cardinality(Inserting)
          /\ Cardinality(Busy') <= Cardinality(Busy)
          /\ Cardinality(Inserting') \in Nat /\ Cardinality(Busy') \in Nat
      <4>1. eval'[k].at # "insert"
        BY <1>1
      <4> QED
        BY <1>0, <1>1, <4>1, Counts
    <3>2. /\ Cardinality(Inserting) \in Nat /\ Cardinality(Busy) \in Nat
          /\ Len(written) \in Nat /\ Len(fired) \in Nat /\ stamped \in Nat
      BY <1>0, FailureFacts
    <3> QED
      BY <1>0, <3>1, <3>2 DEF Shapes
  <2>3. \A j \in Evaluators :
          /\ ~Is(j, "rest")' => eval'[j].stamp \in 1 .. clock
          /\ Listed(j)' => eval'[j].stamp \in Failures
          /\ Deciding(j)' => /\ eval'[j].row.seen = eval'[j].stamp
                             /\ eval'[j].row.status \in {"open", "closed"}
                             /\ eval'[j].fires => eval'[j].row.status = "open"
    BY <1>0, <1>1 DEF Shapes, Is, Listed, Deciding
  <2> QED
    BY <1>0, <1>2, <2>1, <2>2, <2>3 DEF Shapes
<1>4. \A t : Known(t)' = Known(t)
  BY <1>2 DEF Known, SpellOf, OneSpell
<1>5. \A t : Within(t - Window + 1, t)' = Within(t - Window + 1, t)
  BY DEF Within
<1> QED
  BY <1>1, <1>2, <1>3, <1>4, <1>5

LEMMA CountKeeps ==
  ASSUME FailureInv, NEW k \in Evaluators, Count(k)
  PROVE  FailureInv'
<1> DEFINE u == eval[k].stamp
           n == Since(u - Window + 1)
           e == [eval[k] EXCEPT !.at = "load", !.count = n]
<1>0. /\ FailureTypeOK /\ Shapes /\ Is(k, "count") /\ Listed(k)
      /\ UNCHANGED <<clock, stamped, written, incident, fired, crossed>>
  BY DEF FailureInv, Shapes, Count, Is, Listed
<1>1. CASE lost' = TRUE /\ Set(k, Asleep)
  BY <1>0, <1>1, ErrorKeeps DEF Is
<1>2. CASE Whole /\ Set(k, e)
  <2>1. u \in Nat /\ eval[k] \in Evals /\ written \in Seq(Times) /\ IsFiniteSet(DOMAIN written)
    <3>1. u \in Nat /\ eval[k] \in Evals /\ written \in Seq(Times)
      BY <1>0, FailureFacts
    <3> QED
      BY <3>1, FS_Interval
  <2>2. n \in 0 .. MaxLogs
    <3> DEFINE S == {i \in DOMAIN written : u - Window + 1 <= written[i]}
    <3>0. DOMAIN written = 1 .. Len(written) /\ Len(written) \in Nat
      BY <2>1
    <3>1. S \in SUBSET DOMAIN written /\ Cardinality(DOMAIN written) = Len(written)
      <4>1. Cardinality(1 .. Len(written)) = IF 1 > Len(written) THEN 0 ELSE Len(written) - 1 + 1
        BY <3>0, FS_Interval
      <4> QED
        BY <3>0, <4>1
    <3>2. Cardinality(S) \in Nat /\ Cardinality(S) <= Len(written)
      <4> HIDE DEF S
      <4> QED
        BY <2>1, <3>1, Smaller
    <3>3. Len(written) \in Nat /\ Len(written) <= MaxLogs
      BY <1>0, FailureNumbers, FailureFacts DEF FailureTypeOK
    <3> HIDE DEF u
    <3> QED
      BY <3>2, <3>3, FailureNumbers DEF Since
  <2>3. \A t \in Nat : u \in (t - Window + 1) .. t => Within(t - Window + 1, t) <= n
    <3> SUFFICES ASSUME NEW t \in Nat, u \in (t - Window + 1) .. t PROVE Within(t - Window + 1, t) <= n
      OBVIOUS
    <3> DEFINE S == {i \in DOMAIN written : u - Window + 1 <= written[i]}
               R == {i \in DOMAIN written : t - Window + 1 <= written[i] /\ written[i] <= t}
    <3>1. u - Window + 1 <= t - Window + 1
      BY <2>1, FailureNumbers
    <3>2. \A i \in DOMAIN written : written[i] \in Nat
      <4>1. \A i \in DOMAIN written : written[i] \in Times
        BY <2>1
      <4> QED
        BY <4>1, FailureNumbers
    <3>3. \A i \in DOMAIN written : t - Window + 1 <= written[i] => u - Window + 1 <= written[i]
      <4> HIDE DEF u
      <4> QED
        BY <2>1, <3>1, <3>2, FailureNumbers
    <3>4. R \in SUBSET S /\ S \in SUBSET DOMAIN written
      BY <3>3
    <3>5. Cardinality(R) <= Cardinality(S)
      <4> HIDE DEF R, S
      <4>1. IsFiniteSet(S)
        BY <2>1, <3>4, Smaller
      <4> QED
        BY <3>4, <4>1, Smaller
    <3> QED
      BY <3>5 DEF Within, Since
  <2>4. e \in Evals /\ e.at = "load" /\ e.stamp = u /\ e.count = n
    <3> HIDE DEF n
    <3> QED
      BY <2>1, <2>2 DEF Evals
  <2> HIDE DEF e, n
  <2>5. UNCHANGED <<clock, stamped, written, incident, fired, lost, crossed>>
    BY <1>0, <1>2 DEF Whole
  <2>6. /\ Shapes' /\ eval'[k] = e /\ Failures' = Failures
        /\ \A j \in Evaluators : j = k \/ eval'[j] = eval[j]
        /\ \A t : Known(t)' = Known(t)
        /\ \A t : Within(t - Window + 1, t)' = Within(t - Window + 1, t)
    BY <1>0, <1>2, <2>4, <2>5, AlertGoesOn
  <2>7. OpenIsKnown'
    BY <2>4, <2>5, <2>6 DEF FailureInv, OpenIsKnown, Deciding
  <2>8. BurstsCome'
    <3> SUFFICES ASSUME ~lost', NEW t \in Failures', Within(t - Window + 1, t)' >= Threshold
                 PROVE  Known(t)' \/ \E j \in Evaluators : Comes(j, t)'
      BY DEF BurstsCome
    <3>1. Known(t) \/ \E j \in Evaluators : Comes(j, t)
      BY <2>5, <2>6 DEF FailureInv, BurstsCome
    <3>2. \A j \in Evaluators \ {k} : Comes(j, t) => Comes(j, t)'
      BY <2>6 DEF Comes, Is, Deciding
    <3>3. Comes(k, t) => Comes(k, t)'
      <4>1. t \in Nat /\ Within(t - Window + 1, t) >= Threshold
        BY <1>0, <2>6, FailureFacts
      <4>2. Within(t - Window + 1, t) \in Nat
        <5>1. {i \in DOMAIN written : t - Window + 1 <= written[i] /\ written[i] <= t} \in SUBSET DOMAIN written
          OBVIOUS
        <5> QED
          BY <2>1, <5>1, Smaller DEF Within
      <4>3. Comes(k, t) => n >= Threshold
        <5>1. Comes(k, t) => Within(t - Window + 1, t) <= n
          BY <2>3, <4>1 DEF Comes
        <5> QED
          BY <2>2, <4>1, <4>2, <5>1, FailureNumbers
      <4> QED
        BY <2>4, <2>6, <4>3 DEF Comes, Is
    <3> QED
      BY <2>6, <3>1, <3>2, <3>3
  <2>9. Once'
    <3>1. \A j \in Evaluators : /\ Is(j, "rest")' <=> Is(j, "rest")
                                /\ Listed(j)' <=> Listed(j)
                                /\ ~Is(j, "rest") => eval'[j].stamp = eval[j].stamp
                                /\ Deciding(j)' => Deciding(j) /\ eval'[j] = eval[j]
                                /\ Is(j, "create")' => Is(j, "create")
      BY <1>0, <2>4, <2>6 DEF Is, Listed, Deciding
    <3>2. \A j \in Evaluators : Listed(j) => ~Is(j, "rest")
      BY DEF Is, Listed
    <3> QED
      BY <2>5, <2>6, <3>1, <3>2 DEF FailureInv, Once
  <2> QED
    BY <2>6, <2>7, <2>8, <2>9 DEF FailureInv
<1> QED
  BY <1>1, <1>2 DEF Count, Error

LEMMA JudgedFacts ==
  ASSUME NEW row \in Alerts, NEW u \in Times, NEW n \in 0 .. MaxLogs
  PROVE  LET j     == Judged(row, u, n)
             quiet == row.seen > 0 /\ u - row.seen > Window
         IN /\ j.row \in Alerts /\ j.fires \in BOOLEAN
            /\ j.row.seen = u /\ j.row.status \in {"open", "closed"}
            /\ j.fires => j.row.status = "open"
            /\ j.row.status = "open" /\ ~j.fires => row.status = "open" /\ ~quiet
            /\ n >= Threshold => j.row.status = "open"
            /\ j.fires \/ j.row.status = "closed" => row.status # "open" \/ quiet
<1> DEFINE quiet  == row.seen > 0 /\ u - row.seen > Window
           status == IF quiet \/ row.status = "none" THEN "closed" ELSE row.status
           fires  == n >= Threshold /\ status # "open"
           after  == [seen |-> u, status |-> IF fires THEN "open" ELSE status]
<1>1. Judged(row, u, n) = [row |-> after, fires |-> fires]
  BY DEF Judged
<1>2. status \in {"open", "closed"} /\ fires \in BOOLEAN
  <2>1. row.status \in {"none", "open", "closed"}
    BY DEF Alerts
  <2> HIDE DEF quiet
  <2> QED
    BY <2>1
<1>3. status = "open" => row.status = "open" /\ ~quiet
  <2> HIDE DEF quiet
  <2> QED
    OBVIOUS
<1>4. status = "closed" => row.status # "open" \/ quiet
  <2> HIDE DEF quiet
  <2> QED
    OBVIOUS
<1>5. /\ fires => status = "closed"
      /\ n >= Threshold => fires \/ status = "open"
  <2> HIDE DEF status
  <2> QED
    BY <1>2
<1> HIDE DEF status, fires, quiet
<1>6. after \in Alerts /\ after.seen = u /\ after.status = IF fires THEN "open" ELSE status
  BY <1>2 DEF Alerts
<1> HIDE DEF after
<1>7. Judged(row, u, n).row = after /\ Judged(row, u, n).fires = fires
  BY <1>1
<1> QED
  BY <1>2, <1>3, <1>4, <1>5, <1>6, <1>7 DEF quiet

LEMMA LoadKeeps ==
  ASSUME FailureInv, NEW k \in Evaluators, Load(k)
  PROVE  FailureInv'
<1> DEFINE u == eval[k].stamp
           x == incident.seen
           quiet == x > 0 /\ u - x > Window
           row == Judged(incident, u, eval[k].count).row
           fires == Judged(incident, u, eval[k].count).fires
           e == [eval[k] EXCEPT !.at = "save", !.count = 0, !.row = row, !.fires = fires]
<1>0. /\ FailureTypeOK /\ Shapes /\ Is(k, "load") /\ Listed(k)
      /\ UNCHANGED <<clock, stamped, written, incident, fired, crossed>>
  BY DEF FailureInv, Shapes, Load, Is, Listed
<1>1. CASE lost' = TRUE /\ Set(k, Asleep)
  BY <1>0, <1>1, ErrorKeeps DEF Is
<1>2. CASE Whole /\ Set(k, e)
  <2>1. /\ u \in Times /\ u \in Nat /\ u \in Failures /\ eval[k] \in Evals /\ incident \in Alerts
        /\ eval[k].count \in 0 .. MaxLogs /\ Failures \in SUBSET Nat /\ fired \in Seq(Times)
        /\ Window \in Nat \ {0} /\ Threshold \in Nat /\ eval[k].count \in Nat
    BY <1>0, FailureFacts, FailureNumbers DEF Shapes
  <2>2. /\ row \in Alerts /\ fires \in BOOLEAN /\ row.seen = u /\ row.status \in {"open", "closed"}
        /\ fires => row.status = "open"
        /\ row.status = "open" /\ ~fires => incident.status = "open" /\ ~quiet
        /\ eval[k].count >= Threshold => row.status = "open"
        /\ fires \/ row.status = "closed" => incident.status # "open" \/ quiet
    BY <2>1, JudgedFacts
  <2> HIDE DEF row, fires
  <2>3. e \in Evals /\ e.at = "save" /\ e.stamp = u /\ e.row = row /\ e.fires = fires
    <3>1. 0 \in 0 .. MaxLogs
      BY FailureNumbers
    <3> QED
      BY <2>1, <2>2, <3>1 DEF Evals
  <2> HIDE DEF e
  <2>4. UNCHANGED <<clock, stamped, written, incident, fired, lost, crossed>>
    BY <1>0, <1>2 DEF Whole
  <2>5. /\ Shapes' /\ eval'[k] = e /\ Failures' = Failures
        /\ \A j \in Evaluators : j = k \/ eval'[j] = eval[j]
        /\ \A t : Known(t)' = Known(t)
        /\ \A t : Within(t - Window + 1, t)' = Within(t - Window + 1, t)
    BY <1>0, <1>2, <2>2, <2>3, <2>4, AlertGoesOn
  <2>6. incident # NoRow => x \in Failures /\ x \in Nat /\ x > 0
    <3>1. incident # NoRow => x \in Failures /\ x \in 1 .. clock
      BY <1>0 DEF Shapes
    <3> QED
      BY <1>0, <3>1, FailureFacts
  <2>7. row.status = "open" /\ ~fires => Known(u)
    <3> SUFFICES ASSUME row.status = "open", ~fires PROVE Known(u)
      OBVIOUS
    <3>1. incident.status = "open" /\ ~quiet /\ incident # NoRow
      BY <2>2 DEF NoRow
    <3>2. x \in Failures /\ u - x <= Window
      BY <2>1, <2>6, <3>1
    <3>3. Known(x)
      BY <3>1 DEF FailureInv, OpenIsKnown
    <3> HIDE DEF u, x
    <3> QED
      BY <2>1, <3>2, <3>3, KnownNear
  <2>8. OpenIsKnown'
    <3>1. incident'.status = "open" => Known(incident.seen)'
      BY <2>4, <2>5 DEF FailureInv, OpenIsKnown
    <3>2. ASSUME NEW j \in Evaluators, Deciding(j)', eval'[j].row.status = "open", ~eval'[j].fires
          PROVE  Known(eval'[j].stamp)
      <4>1. CASE j = k
        BY <2>3, <2>5, <2>7, <3>2, <4>1
      <4>2. CASE eval'[j] = eval[j]
        BY <3>2, <4>2 DEF FailureInv, OpenIsKnown, Deciding
      <4> QED
        BY <2>5, <4>1, <4>2
    <3> QED
      BY <2>5, <3>1, <3>2 DEF OpenIsKnown
  <2>9. BurstsCome'
    <3> SUFFICES ASSUME ~lost', NEW t \in Failures', Within(t - Window + 1, t)' >= Threshold
                 PROVE  Known(t)' \/ \E j \in Evaluators : Comes(j, t)'
      BY DEF BurstsCome
    <3>1. Known(t) \/ \E j \in Evaluators : Comes(j, t)
      BY <2>4, <2>5 DEF FailureInv, BurstsCome
    <3>2. \A j \in Evaluators \ {k} : Comes(j, t) => Comes(j, t)'
      BY <2>5 DEF Comes, Is, Deciding
    <3>3. Comes(k, t) => Comes(k, t)' \/ Known(t)
      <4> SUFFICES ASSUME Comes(k, t) PROVE Comes(k, t)' \/ Known(t)
        OBVIOUS
      <4>1. u \in (t - Window + 1) .. t /\ eval[k].count >= Threshold
        BY <1>0 DEF Comes, Is, Deciding
      <4>2. CASE fires
        BY <2>3, <2>5, <4>1, <4>2 DEF Comes, Deciding
      <4>3. CASE ~fires
        <5>1. Known(u)
          BY <2>2, <2>7, <4>1, <4>3
        <5>2. t \in Failures
          BY <2>5
        <5>3. t - u <= Window
          <6>1. t \in Nat
            BY <2>1, <5>2
          <6> HIDE DEF u
          <6> QED
            BY <2>1, <4>1, <6>1
        <5> HIDE DEF u
        <5> QED
          BY <2>1, <5>1, <5>2, <5>3, KnownNear
      <4> QED
        BY <4>2, <4>3
    <3> QED
      BY <2>5, <3>1, <3>2, <3>3
  <2>10. Once'
    <3> SUFFICES ASSUME ~crossed', ~lost' PROVE Once'
      BY DEF Once
    <3>0. ~lost /\ ~crossed
      BY <2>4
    <3>1. \A j \in Evaluators : j = k \/ Is(j, "rest")
      BY <1>0, <3>0 DEF FailureInv, Once, Is
    <3>2. \A t \in Failures : t <= u
      BY <1>0, <3>0 DEF FailureInv, Once, Is
    <3>3. \A t \in Failures : t = u \/ (incident # NoRow /\ t <= x)
      BY <3>0, <3>1 DEF FailureInv, Once, Is, Listed
    <3>4. /\ \A i \in DOMAIN fired : incident # NoRow /\ fired[i] <= x /\ fired[i] \in Failures
          /\ \A i, j \in DOMAIN fired : Same(Failures, fired[i], fired[j]) => i = j
          /\ incident.status = "closed" =>
               \A i \in DOMAIN fired : ~Same(Failures, fired[i], x)
      BY <1>0, <3>0 DEF FailureInv, Once, Shapes
    <3>5. fires \/ row.status = "closed" => \A i \in DOMAIN fired : ~Same(Failures, fired[i], u)
      <4> SUFFICES ASSUME fires \/ row.status = "closed", NEW i \in DOMAIN fired
                   PROVE  ~Same(Failures, fired[i], u)
        OBVIOUS
      <4>1. incident # NoRow /\ fired[i] <= x /\ fired[i] \in Failures /\ x \in Failures /\ x \in Nat /\ x > 0
        BY <2>6, <3>4
      <4>2. CASE quiet
        <5>1. x + Window < u
          BY <2>1, <4>1, <4>2
        <5>2. \A w \in Failures : w <= x \/ w = u
          BY <3>3
        <5> HIDE DEF x, u
        <5> QED
          BY <2>1, <4>1, <5>1, <5>2, NewSpell
      <4>3. CASE ~quiet
        <5>1. incident.status = "closed"
          <6>1. incident.status # "open" /\ incident.status # "none"
            BY <1>0, <2>2, <4>1, <4>3 DEF Shapes
          <6> QED
            BY <2>1, <6>1 DEF Alerts
        <5>2. ~Same(Failures, fired[i], x)
          BY <3>4, <5>1
        <5>3. x <= u /\ u <= x + Window
          BY <2>1, <3>2, <4>1, <4>3
        <5> HIDE DEF x, u
        <5>4. Same(Failures, x, u) /\ (Same(Failures, x, u) => Same(Failures, u, x))
          BY <2>1, <4>1, <5>3, SameFacts
        <5> QED
          BY <2>1, <4>1, <5>2, <5>4, SameFacts
      <4> QED
        BY <4>2, <4>3
    <3>6. /\ eval'[k].at = "save" /\ eval'[k].stamp = u /\ eval'[k].row = row /\ eval'[k].fires = fires
          /\ \A j \in Evaluators : j = k \/ eval'[j].at = "rest"
      BY <2>3, <2>5, <3>1 DEF Is
    <3> HIDE DEF u
    <3> QED
      BY <2>4, <2>5, <3>2, <3>3, <3>4, <3>5, <3>6 DEF Once, Is, Listed, Deciding
  <2> QED
    BY <2>5, <2>8, <2>9, <2>10 DEF FailureInv
<1> QED
  BY <1>1, <1>2 DEF Load, Error

\* The row is not there: SaveRow goes on to create it.
LEMMA ToCreateKeeps ==
  ASSUME FailureInv, NEW k \in Evaluators, Is(k, "save"), incident = NoRow,
         Set(k, [eval[k] EXCEPT !.at = "create"]),
         UNCHANGED <<clock, stamped, written, incident, fired, lost, crossed>>
  PROVE  FailureInv'
<1> DEFINE e == [eval[k] EXCEPT !.at = "create"]
<1>1. Listed(k) /\ Deciding(k) /\ eval[k] \in Evals
  BY FailureFacts DEF FailureInv, Shapes, Is, Listed, Deciding
<1>2. /\ e \in Evals /\ e.at = "create" /\ e.stamp = eval[k].stamp /\ e.row = eval[k].row
      /\ e.fires = eval[k].fires
  BY <1>1 DEF Evals
<1>3. /\ e.row.seen = e.stamp /\ e.row.status \in {"open", "closed"}
      /\ e.fires => e.row.status = "open"
  BY <1>1, <1>2 DEF FailureInv, Shapes
<1> HIDE DEF e
<1>4. Set(k, e)
  BY DEF e
<1>5. /\ Shapes' /\ eval'[k] = e /\ Failures' = Failures
      /\ \A j \in Evaluators : j = k \/ eval'[j] = eval[j]
      /\ \A t : Known(t)' = Known(t)
      /\ \A t : Within(t - Window + 1, t)' = Within(t - Window + 1, t)
  BY <1>1, <1>2, <1>3, <1>4, AlertGoesOn
<1>6. OpenIsKnown'
  <2>1. incident'.status = "open" => Known(incident.seen)'
    BY <1>5 DEF FailureInv, OpenIsKnown
  <2>2. ASSUME NEW j \in Evaluators, Deciding(j)', eval'[j].row.status = "open", ~eval'[j].fires
        PROVE  Known(eval'[j].stamp)
    <3>1. CASE j = k
      BY <1>1, <1>2, <1>5, <2>2, <3>1 DEF FailureInv, OpenIsKnown
    <3>2. CASE eval'[j] = eval[j]
      BY <2>2, <3>2 DEF FailureInv, OpenIsKnown, Deciding
    <3> QED
      BY <1>5, <3>1, <3>2
  <2> QED
    BY <1>5, <2>1, <2>2 DEF OpenIsKnown
<1>7. BurstsCome'
  <2>1. \A j \in Evaluators, t \in Failures : Comes(j, t) => Comes(j, t)'
    <3>1. \A t \in Failures : Comes(k, t) => Comes(k, t)'
      BY <1>1, <1>2, <1>5 DEF Comes, Is, Deciding
    <3>2. \A j \in Evaluators \ {k}, t \in Failures : Comes(j, t) => Comes(j, t)'
      BY <1>5 DEF Comes, Is, Deciding
    <3> QED
      BY <3>1, <3>2
  <2> QED
    BY <1>5, <2>1 DEF FailureInv, BurstsCome
<1>8. Once'
  <2>1. \A j \in Evaluators : /\ Is(j, "rest")' <=> Is(j, "rest")
                              /\ Listed(j)' <=> Listed(j)
                              /\ Deciding(j)' <=> Deciding(j)
                              /\ eval'[j].stamp = eval[j].stamp
                              /\ eval'[j].row = eval[j].row /\ eval'[j].fires = eval[j].fires
                              /\ Is(j, "create")' => incident = NoRow \/ Is(j, "create")
    BY <1>1, <1>2, <1>5 DEF Is, Listed, Deciding
  <2> QED
    BY <1>5, <2>1 DEF FailureInv, Once
<1> QED
  BY <1>5, <1>6, <1>7, <1>8 DEF FailureInv

\* An evaluation ends: it tells, when it is to, and has saved its row unless a statement
\* failed or another had created the row meanwhile.
LEMMA EndKeeps ==
  ASSUME FailureInv, NEW k \in Evaluators, Deciding(k), Told(k), Set(k, Asleep),
         UNCHANGED <<clock, stamped, written, crossed>>,
         \/ lost' = TRUE /\ incident' = incident
         \/ lost' = lost /\ incident' = eval[k].row
         \/ lost' = lost /\ incident' = incident /\ Is(k, "create") /\ incident # NoRow
  PROVE  FailureInv'
<1> DEFINE u == eval[k].stamp
           row == eval[k].row
           fires == eval[k].fires
<1>0. /\ FailureTypeOK /\ Shapes /\ ~Is(k, "rest") /\ ~Is(k, "insert") /\ Listed(k)
  BY DEF FailureInv, Shapes, Deciding, Listed, Is
<1>1. /\ eval' \in [Evaluators -> Evals] /\ eval'[k] = Asleep
      /\ \A j \in Evaluators : j = k \/ eval'[j] = eval[j]
  BY <1>0, FailureNumbers, OneMoves
<1>2. Asleep.at = "rest" /\ Failures' = Failures
  BY DEF Asleep, Failures
<1>3. /\ u \in Failures /\ u \in Times /\ u \in Nat /\ row \in Alerts /\ fires \in BOOLEAN
      /\ row.seen = u /\ row.status \in {"open", "closed"} /\ (fires => row.status = "open")
      /\ row # NoRow
      /\ fired \in Seq(Times) /\ Len(fired) \in Nat /\ Failures \in SUBSET Nat
  BY <1>0, FailureFacts DEF Shapes, NoRow
<1> HIDE DEF u, row, fires
<1>4. /\ fires => fired' = Append(fired, u)
      /\ ~fires => fired' = fired
  BY DEF Told, u, fires
<1>5. /\ fired' \in Seq(Times) /\ Len(fired') \in Nat /\ Len(fired') <= Len(fired) + 1
      /\ \A i \in DOMAIN fired : i \in DOMAIN fired' /\ fired'[i] = fired[i]
      /\ fires => /\ DOMAIN fired' = DOMAIN fired \cup {Len(fired) + 1}
                  /\ fired'[Len(fired) + 1] = u
      /\ \A i \in DOMAIN fired' : i \in DOMAIN fired \/ (fires /\ fired'[i] = u)
  <2>1. CASE fires
    BY <1>3, <1>4, <2>1
  <2>2. CASE ~fires
    BY <1>3, <1>4, <2>2
  <2> QED
    BY <2>1, <2>2
<1>6. \A t \in Failures : Known(t) => Known(t)'
  BY <1>2, <1>3, <1>5, KnownGrows
<1>7. ASSUME fires, NEW t \in Failures, u \in (t - Window + 1) .. t PROVE Known(t)'
  <2>1. Len(fired) + 1 \in DOMAIN fired' /\ u <= fired'[Len(fired) + 1]
    BY <1>3, <1>5, <1>7
  <2>2. Same(Failures, u, t)
    <3>1. t \in Nat /\ u <= t /\ t <= u + Window
      BY <1>3, <1>7, FailureNumbers
    <3> QED
      BY <1>3, <3>1, SameFacts
  <2>3. u \in SpellOf(t)'
    <3>1. u \in SpellOf(t)
      BY <1>3, <2>2 DEF SpellOf, OneSpell, Same, Linked
    <3> QED
      BY <1>2, <3>1 DEF SpellOf, OneSpell
  <2> QED
    BY <2>1, <2>3 DEF Known
<1>8. incident' = incident \/ incident' = row
  BY DEF row
<1>9. Shapes'
  <2>1. /\ Cardinality(Inserting') <= Cardinality(Inserting)
        /\ Cardinality(Busy') + 1 <= Cardinality(Busy)
        /\ Cardinality(Inserting') \in Nat /\ Cardinality(Busy') \in Nat
    <3>1. eval'[k].at = "rest"
      BY <1>1, <1>2
    <3> QED
      BY <1>0, <1>1, <3>1, Counts
  <2>2. /\ Cardinality(Inserting) \in Nat /\ Cardinality(Busy) \in Nat
        /\ Len(written) \in Nat /\ Len(fired) \in Nat /\ stamped \in Nat /\ stamped <= MaxLogs
    BY <1>0, FailureFacts
  <2>3. /\ Len(written') + Cardinality(Inserting') <= stamped'
        /\ Len(fired') + Cardinality(Busy') <= stamped'
    BY <1>0, <1>5, <2>1, <2>2 DEF Shapes
  <2>4. Len(fired') \in 0 .. MaxLogs
    BY <1>5, <2>1, <2>2, <2>3, FailureNumbers
  <2>5. FailureTypeOK'
    <3>1. incident' \in Alerts /\ lost' \in BOOLEAN
      BY <1>0, <1>3, <1>8, FailureFacts
    <3> QED
      BY <1>0, <1>1, <1>5, <2>4, <3>1 DEF FailureTypeOK
  <2>6. \A j \in Evaluators :
          /\ ~Is(j, "rest")' => eval'[j].stamp \in 1 .. clock
          /\ Listed(j)' => eval'[j].stamp \in Failures
          /\ Deciding(j)' => /\ eval'[j].row.seen = eval'[j].stamp
                             /\ eval'[j].row.status \in {"open", "closed"}
                             /\ eval'[j].fires => eval'[j].row.status = "open"
    BY <1>0, <1>1, <1>2 DEF Shapes, Is, Listed, Deciding
  <2>7. {fired'[i] : i \in DOMAIN fired'} \subseteq Failures'
    BY <1>0, <1>2, <1>3, <1>5 DEF Shapes
  <2>8. incident' # NoRow => incident'.status # "none" /\ incident'.seen \in Failures'
    BY <1>0, <1>2, <1>3, <1>8 DEF Shapes
  <2> QED
    BY <1>0, <1>2, <2>3, <2>5, <2>6, <2>7, <2>8 DEF Shapes
<1>10. OpenIsKnown'
  <2>1. CASE incident' = incident
    <3>1. incident.status = "open" => incident.seen \in Failures /\ Known(incident.seen)
      BY <1>0 DEF FailureInv, OpenIsKnown, Shapes, NoRow
    <3>2. \A c \in Failures : Known(c) => Known(c)'
      BY <1>6
    <3>3. incident'.status = "open" => Known(incident.seen)'
      BY <2>1, <3>1, <3>2
    <3>4. ASSUME NEW j \in Evaluators, Deciding(j)', eval'[j].row.status = "open", ~eval'[j].fires
          PROVE  Known(eval[j].stamp)'
      <4>1. eval'[j] = eval[j] /\ Deciding(j)
        BY <1>1, <1>2, <3>4 DEF Deciding
      <4>2. eval[j].stamp \in Failures /\ Known(eval[j].stamp)
        BY <1>0, <3>4, <4>1 DEF FailureInv, OpenIsKnown, Shapes, Deciding, Listed
      <4> QED
        BY <1>6, <4>1, <4>2
    <3> QED
      BY <3>3, <3>4 DEF OpenIsKnown
  <2>2. CASE incident' = row
    <3>1. incident'.seen = u /\ incident'.status = row.status
      BY <1>3, <2>2
    <3>2. ASSUME NEW c, c = u, row.status = "open" PROVE Known(c)'
      <4>1. c \in Failures
        BY <1>3, <3>2
      <4>2. CASE fires
        <5>1. u \in (c - Window + 1) .. c
          BY <1>3, <3>2, FailureNumbers
        <5> QED
          BY <1>7, <4>1, <4>2, <5>1
      <4>3. CASE ~fires
        <5>1. Known(c)
          BY <3>2, <4>3 DEF FailureInv, OpenIsKnown, u, row, fires
        <5> QED
          BY <1>6, <4>1, <5>1
      <4> QED
        BY <4>2, <4>3
    <3>3. incident'.status = "open" => Known(incident.seen)'
      BY <3>1, <3>2
    <3>4. ASSUME NEW j \in Evaluators, Deciding(j)', eval'[j].row.status = "open", ~eval'[j].fires
          PROVE  Known(eval[j].stamp)'
      <4>1. eval'[j] = eval[j] /\ Deciding(j)
        BY <1>1, <1>2, <3>4 DEF Deciding
      <4>2. eval[j].stamp \in Failures /\ Known(eval[j].stamp)
        BY <1>0, <3>4, <4>1 DEF FailureInv, OpenIsKnown, Shapes, Deciding, Listed
      <4> QED
        BY <1>6, <4>1, <4>2
    <3> QED
      BY <3>3, <3>4 DEF OpenIsKnown
  <2> QED
    BY <1>8, <2>1, <2>2
<1>11. BurstsCome'
  <2> SUFFICES ASSUME ~lost', NEW t \in Failures', Within(t - Window + 1, t)' >= Threshold
               PROVE  Known(t)' \/ \E j \in Evaluators : Comes(j, t)'
    BY DEF BurstsCome
  <2>1. Within(t - Window + 1, t)' = Within(t - Window + 1, t) /\ ~lost /\ t \in Failures
    BY <1>2 DEF Within
  <2>2. Known(t) \/ \E j \in Evaluators : Comes(j, t)
    BY <2>1 DEF FailureInv, BurstsCome
  <2>3. \A j \in Evaluators \ {k} : Comes(j, t) => Comes(j, t)'
    BY <1>1 DEF Comes, Is, Deciding
  <2>4. Comes(k, t) => Known(t)'
    <3>1. Comes(k, t) => fires /\ u \in (t - Window + 1) .. t
      BY DEF Comes, Is, Deciding, fires, u
    <3> QED
      BY <1>7, <2>1, <3>1
  <2> QED
    BY <1>6, <2>1, <2>2, <2>3, <2>4
<1>12. Once'
  <2> SUFFICES ASSUME ~crossed', ~lost' PROVE Once'
    BY DEF Once
  <2>0. ~lost /\ ~crossed
    OBVIOUS
  <2>1. \A j \in Evaluators : j = k \/ Is(j, "rest")
    BY <1>0, <2>0 DEF FailureInv, Once
  <2>2. \A t \in Failures : t <= u
    BY <1>0, <2>0 DEF FailureInv, Once, u
  <2>3. incident' = row
    BY <2>0 DEF FailureInv, Once, row
  <2>4. \A j \in Evaluators : eval'[j].at = "rest"
    BY <1>1, <1>2, <2>1 DEF Is
  <2>5. /\ \A i \in DOMAIN fired : fired[i] \in Failures
        /\ \A i, j \in DOMAIN fired : Same(Failures, fired[i], fired[j]) => i = j
        /\ fires \/ row.status = "closed" => \A i \in DOMAIN fired : ~Same(Failures, fired[i], u)
    BY <1>0, <2>0 DEF FailureInv, Once, Shapes, u, row, fires
  <2>6. \A i \in DOMAIN fired' : fired'[i] <= u
    BY <1>3, <1>5, <2>2, <2>5
  <2>7. ASSUME NEW i \in DOMAIN fired', NEW j \in DOMAIN fired', Same(Failures, fired'[i], fired'[j])
        PROVE  i = j
    <3>1. CASE i \in DOMAIN fired /\ j \in DOMAIN fired
      BY <1>5, <2>5, <2>7, <3>1
    <3>2. CASE i \notin DOMAIN fired /\ j \notin DOMAIN fired
      BY <1>5, <3>2
    <3>3. CASE i \in DOMAIN fired /\ j \notin DOMAIN fired
      BY <1>5, <2>5, <2>7, <3>3
    <3>4. CASE i \notin DOMAIN fired /\ j \in DOMAIN fired
      <4>1. fires /\ Same(Failures, u, fired[j]) /\ fired[j] \in Failures
        BY <1>5, <2>5, <2>7, <3>4
      <4>2. Same(Failures, fired[j], u)
        BY <1>3, <4>1, SameFacts
      <4> QED
        BY <2>5, <3>4, <4>1, <4>2
    <3> QED
      BY <3>1, <3>2, <3>3, <3>4
  <2>8. row.status = "closed" => \A i \in DOMAIN fired' : ~Same(Failures, fired'[i], u)
    BY <1>3, <1>5, <2>5
  <2> QED
    BY <1>2, <1>3, <2>2, <2>3, <2>4, <2>6, <2>7, <2>8 DEF Once, Is, Listed, Deciding
<1> QED
  BY <1>9, <1>10, <1>11, <1>12 DEF FailureInv

LEMMA FailureStep ==
  FailureInv /\ [FailureNext]_failureVars => FailureInv'
<1> SUFFICES ASSUME FailureInv, [FailureNext]_failureVars PROVE FailureInv'
  OBVIOUS
<1>1. CASE Tick \/ UNCHANGED failureVars
  BY <1>1, TickKeeps
<1>2. ASSUME NEW k \in Evaluators, SaveRow(k) PROVE FailureInv'
  <2>1. Is(k, "save") /\ Deciding(k) /\ UNCHANGED <<clock, stamped, written, crossed>>
    BY <1>2 DEF SaveRow, Deciding, Is
  <2>2. CASE Whole /\ incident # NoRow /\ incident' = eval[k].row /\ Told(k) /\ Set(k, Asleep)
    BY <2>1, <2>2, EndKeeps DEF Whole
  <2>3. CASE Whole /\ incident = NoRow /\ UNCHANGED <<incident, fired>>
             /\ Set(k, [eval[k] EXCEPT !.at = "create"])
    BY <2>1, <2>3, ToCreateKeeps DEF Whole
  <2>4. CASE Error /\ Told(k) /\ Set(k, Asleep) /\ UNCHANGED incident
    BY <2>1, <2>4, EndKeeps DEF Error
  <2> QED
    BY <1>2, <2>2, <2>3, <2>4 DEF SaveRow
<1>3. ASSUME NEW k \in Evaluators, CreateRow(k) PROVE FailureInv'
  <2>1. /\ Is(k, "create") /\ Deciding(k) /\ UNCHANGED <<clock, stamped, written, crossed>>
        /\ Told(k) /\ Set(k, Asleep)
    BY <1>3 DEF CreateRow, Deciding, Is
  <2>2. CASE Whole /\ incident' = IF incident = NoRow THEN eval[k].row ELSE incident
    BY <2>1, <2>2, EndKeeps DEF Whole
  <2>3. CASE Error /\ UNCHANGED incident
    BY <2>1, <2>3, EndKeeps DEF Error
  <2> QED
    BY <1>3, <2>2, <2>3 DEF CreateRow
<1> QED
  BY <1>1, <1>2, <1>3, StampKeeps, InsertKeeps, CountKeeps, LoadKeeps DEF FailureNext

\* The inductive invariant: a burst is told or an evaluation that will find it is at work,
\* who finds the alert open finds it told, and evaluations one after the other leave the
\* row of the last failure.
THEOREM FailureInvariantHolds == FailureSpec => []FailureInv
<1> QED
  BY FailureStarts, FailureStep, PTL DEF FailureSpec

\* Every variable of the failure alert keeps its type, and there are no more records and
\* notices than failures.
THEOREM FailureTypeCorrect == FailureSpec => []FailureTypeOK
<1>1. FailureInv => FailureTypeOK
  BY DEF FailureInv, Shapes
<1> QED
  BY <1>1, FailureInvariantHolds, PTL

\* EvaluateRequestFailureAlert (notification.go:479) tells of every burst of failures,
\* however its evaluations overlap, and once in a spell when they do not, unless a
\* statement fails.
THEOREM BurstToldOnceHolds == FailureSpec => []BurstToldOnce
<1>1. ASSUME FailureInv PROVE BurstToldOnce
  <2> SUFFICES ASSUME Quiet, ~lost, NEW t \in Failures
               PROVE  /\ Within(t - Window + 1, t) >= Threshold =>
                           \E s \in SpellOf(t), i \in DOMAIN fired : s <= fired[i]
                      /\ ~crossed =>
                           \A i, j \in DOMAIN fired : {fired[i], fired[j]} \subseteq SpellOf(t) => i = j
    BY DEF BurstToldOnce
  <2>1. Within(t - Window + 1, t) >= Threshold => Known(t)
    BY <1>1 DEF FailureInv, BurstsCome, Quiet, Comes, Is, Deciding
  <2>2. Failures \in SUBSET Nat /\ t \in Nat
    BY <1>1, FailureFacts DEF FailureInv, Shapes
  <2>3. \A s \in SpellOf(t) : s \in Failures /\ Same(Failures, s, t)
    BY DEF SpellOf, OneSpell, Same, Linked
  <2>4. \A a, b \in SpellOf(t) : Same(Failures, a, b)
    BY <2>2, <2>3, SameFacts
  <2>5. ~crossed => \A i, j \in DOMAIN fired : Same(Failures, fired[i], fired[j]) => i = j
    BY <1>1 DEF FailureInv, Once
  <2> QED
    BY <2>1, <2>4, <2>5 DEF Known
<1> QED
  BY <1>1, FailureInvariantHolds, PTL
-----------------------------------------------------------------------------
(* All of the parts                                                         *)

\* Every variable of these parts keeps to its range, in any interleaving of their steps,
\* for any number of goroutines, users, options, packages and addresses.
THEOREM TypesCorrect ==
  /\ HealthSpec /\ FailureSpec /\ RateSpec /\ SuppressionSpec
  /\ AccountsSpec /\ OptionsSpec /\ RestoreSpec /\ VerificationSpec
  => []TypesOK
<1>1. CodesInvariant => VerificationTypeOK
  BY DEF CodesInvariant
<1>2. RestoreInvariant => RestoreTypeOK
  BY DEF RestoreInvariant
<1>3. /\ HealthTypeOK /\ FailureTypeOK /\ RateTypeOK /\ SuppressionTypeOK
      /\ AccountsTypeOK /\ OptionsTypeOK /\ RestoreTypeOK /\ VerificationTypeOK
      => TypesOK
  BY DEF TypesOK
<1> QED
  BY <1>1, <1>2, <1>3, HealthTypeCorrect, FailureTypeCorrect, RateTypeCorrect,
     SuppressionTypeCorrect, AccountsTypeCorrect, OptionsTypeCorrect, RestoreInvariantHolds,
     CodesInvariantHolds, PTL
=============================================================================
