---------------------------- MODULE BackupProofs ----------------------------
(***************************************************************************)
(* Proofs about Backup, for every mode and every bound.                    *)
(***************************************************************************)
EXTENDS Backup, FiniteSetTheorems, WellFoundedInduction, TLAPS

-----------------------------------------------------------------------------
(* The row a pass works on. *)

\* A set of numbers that is not empty has a smallest member: of the intervals
\* 1 .. n that end in the set, take one that contains no other.
LEMMA SmallestExists ==
  ASSUME NEW S, S \subseteq Nat, S # {}
  PROVE  \E n \in S : \A m \in S : n <= m
<1> DEFINE T == {1 .. n : n \in S}
<1>1. T \subseteq FiniteSubsetsOf(Nat)
  <2>1. \A n \in S : IsFiniteSet(1 .. n) /\ 1 .. n \subseteq Nat
    BY FS_Interval
  <2> QED
    BY <2>1 DEF FiniteSubsetsOf
<1>2. T # {}
  OBVIOUS
<1>3. IsWellFoundedOn(StrictSubsetOrdering(Nat), FiniteSubsetsOf(Nat))
  BY FS_StrictSubsetOrderingWellFounded
<1>4. PICK x \in T : \A y \in T : ~ (<<y, x>> \in StrictSubsetOrdering(Nat))
  <2> HIDE DEF T
  <2> QED
    BY <1>1, <1>2, <1>3, WFMin
<1>5. PICK n \in S : x = 1 .. n
  BY <1>4
<1>6. ASSUME NEW m \in S PROVE n <= m
  <2>1. ~ (<<1 .. m, 1 .. n>> \in StrictSubsetOrdering(Nat))
    BY <1>4, <1>5
  <2>2. 1 .. m \subseteq Nat /\ 1 .. n \subseteq Nat
    OBVIOUS
  <2>3. ~ (1 .. m \subseteq 1 .. n /\ 1 .. m # 1 .. n)
    BY <2>1, <2>2 DEF StrictSubsetOrdering
  <2>4. ASSUME m < n PROVE FALSE
    <3>1. 1 .. m \subseteq 1 .. n
      BY <2>4
    <3>2. n \in 1 .. n /\ n \notin 1 .. m
      BY <2>4
    <3> QED
      BY <2>3, <3>1, <3>2
  <2> QED
    BY <2>4
<1> QED
  BY <1>6

LEMMA RowFact ==
  ASSUME NEW w \in Passes, pass[w].rows \subseteq Numbers, pass[w].rows # {}
  PROVE  Row(w) \in pass[w].rows /\ Row(w) \in Numbers
<1>1. Numbers \subseteq Nat
  BY DEF Numbers
<1>2. \E n \in pass[w].rows : \A m \in pass[w].rows : n <= m
  BY <1>1, SmallestExists
<1> QED
  BY <1>2 DEF Row

-----------------------------------------------------------------------------
(* Types, and what the labels say about the locals. *)

\* Labels between the row of the run and the release of the flag.
WithRun == {"recorded", "packed", "unpacked", "sent", "unsent", "queued", "ended"}
AtRow   == {"send", "sent", "unsent", "saved"}

TypeInv ==
  /\ TypeOK
  /\ \A t \in Triggers : job[t].at \in WithRun => job[t].run \in Numbers
  /\ \A w \in Passes : pass[w].at \in AtRow => pass[w].rows # {}
  /\ \A n \in Numbers : retry[n].status = "pending" => retry[n].count \in 0 .. MaxRetries

\* The parameters of the model are numbers, and so is the bound on the runs.
LEMMA Bounds ==
  /\ MinTicks \in Nat /\ MaxRetries \in Nat /\ MaxChanges \in Nat /\ MaxAsks \in Nat
  /\ MaxFaults \in Nat /\ MaxTogether \in Nat /\ MaxRuns \in Nat /\ Numbers \subseteq Nat \ {0}
BY BackupAssumption DEF MaxRuns, Numbers

LEMMA IdleTypes == Idle \in Jobs /\ NoPass \in PassLocals
<1>1. 0 \in 0 .. MaxRuns /\ 0 \in 0 .. MaxRetries
  BY Bounds
<1>2. Idle \in Jobs
  BY <1>1 DEF Idle, Jobs
<1>3. [n \in Numbers |-> 0] \in [Numbers -> 0 .. MaxRetries]
  BY <1>1
<1> QED
  BY <1>2, <1>3 DEF NoPass, PassLocals

LEMMA TypeInit == Init => TypeInv
<1> SUFFICES ASSUME Init PROVE TypeInv
  OBVIOUS
<1>1. /\ job \in [Triggers -> Jobs] /\ \A t \in Triggers : job[t].at = "idle"
  BY IdleTypes DEF Init, Idle
<1>2. /\ pass \in [Passes -> PassLocals] /\ \A w \in Passes : pass[w].at = "idle"
  BY IdleTypes DEF Init, NoPass
<1>3. runs \in [Numbers -> RunRows]
  BY Bounds DEF Init, NoRow, RunRows
<1>4. /\ retry \in [Numbers -> RetryRows]
      /\ \A n \in Numbers : retry[n].status = "none"
  BY Bounds DEF Init, RetryRows
<1>5. /\ changes \in 0 .. MaxChanges /\ unmarked \subseteq 1 .. changes
      /\ excused \subseteq 1 .. changes /\ cool \in 0 .. MinTicks
      /\ asks \in 0 .. MaxAsks /\ faults \in 0 .. MaxFaults
  BY Bounds DEF Init
<1>6. /\ {dirty, fresh, ranNow, running} \subseteq BOOLEAN
      /\ look \in {"none", "called", "open"} /\ files \subseteq Numbers /\ stored \subseteq Numbers
      /\ unsaved \subseteq Numbers
  BY DEF Init
<1> QED
  BY <1>1, <1>2, <1>3, <1>4, <1>5, <1>6 DEF TypeInv, TypeOK, WithRun, AtRow

\* A step of one goroutine of a backup, and of one over the queue.
LEMMA JobStep ==
  ASSUME TypeInv, NEW t \in Triggers, NEW j \in Jobs, job' = [job EXCEPT ![t] = j],
         j.at \in WithRun => j.run \in Numbers
  PROVE  /\ job' \in [Triggers -> Jobs] /\ job'[t] = j
         /\ \A u \in Triggers \ {t} : job'[u] = job[u]
         /\ \A u \in Triggers : job'[u].at \in WithRun => job'[u].run \in Numbers
BY DEF TypeInv, TypeOK

LEMMA PassStep ==
  ASSUME TypeInv, NEW w \in Passes, NEW p \in PassLocals, pass' = [pass EXCEPT ![w] = p],
         p.at \in AtRow => p.rows # {}
  PROVE  /\ pass' \in [Passes -> PassLocals] /\ pass'[w] = p
         /\ \A v \in Passes \ {w} : pass'[v] = pass[v]
         /\ \A v \in Passes : pass'[v].at \in AtRow => pass'[v].rows # {}
BY DEF TypeInv, TypeOK

\* A goroutine that goes on to another label with the same run.
LEMMA GotoStep ==
  ASSUME TypeInv, NEW t \in Triggers,
         NEW label \in {"asked", "begun"} \cup WithRun, Goto(t, label),
         label \in WithRun => job[t].at \in WithRun
  PROVE  /\ job' \in [Triggers -> Jobs]
         /\ job'[t] = [at |-> label, run |-> job[t].run]
         /\ \A u \in Triggers \ {t} : job'[u] = job[u]
         /\ \A u \in Triggers : job'[u].at \in WithRun => job'[u].run \in Numbers
<1> DEFINE j == [at |-> label, run |-> job[t].run]
<1>1. job[t] \in Jobs /\ job \in [Triggers -> Jobs]
  BY DEF TypeInv, TypeOK
<1>2. j \in Jobs
  BY <1>1 DEF Jobs, WithRun
<1>3. job' = [job EXCEPT ![t] = j]
  <2>1. job[t] = [at |-> job[t].at, run |-> job[t].run]
    BY <1>1 DEF Jobs
  <2>2. [job[t] EXCEPT !.at = label] = j
    BY <2>1
  <2> QED
    BY <1>1, <2>2 DEF Goto
<1>4. j.at \in WithRun => j.run \in Numbers
  BY DEF TypeInv
<1> HIDE DEF j
<1>5. /\ job' \in [Triggers -> Jobs] /\ job'[t] = j
      /\ \A u \in Triggers \ {t} : job'[u] = job[u]
      /\ \A u \in Triggers : job'[u].at \in WithRun => job'[u].run \in Numbers
  BY <1>2, <1>3, <1>4, JobStep
<1> QED
  BY <1>5 DEF j

\* What a step leaves to show when it keeps the other tables as they are.
LEMMA TypeKept ==
  ASSUME TypeInv,
         /\ changes' \in 0 .. MaxChanges /\ unmarked' \subseteq 1 .. changes'
         /\ excused' \subseteq 1 .. changes',
         /\ dirty' \in BOOLEAN /\ fresh' \in BOOLEAN /\ ranNow' \in BOOLEAN
         /\ running' \in BOOLEAN,
         cool' \in 0 .. MinTicks, look' \in {"none", "called", "open"},
         asks' \in 0 .. MaxAsks, faults' \in 0 .. MaxFaults,
         files' \subseteq Numbers /\ stored' \subseteq Numbers /\ unsaved' \subseteq Numbers,
         runs' \in [Numbers -> RunRows],
         \/ UNCHANGED job
         \/ /\ job' \in [Triggers -> Jobs]
            /\ \A t \in Triggers : job'[t].at \in WithRun => job'[t].run \in Numbers,
         \/ UNCHANGED pass
         \/ /\ pass' \in [Passes -> PassLocals]
            /\ \A w \in Passes : pass'[w].at \in AtRow => pass'[w].rows # {},
         \/ UNCHANGED retry
         \/ /\ retry' \in [Numbers -> RetryRows]
            /\ \A n \in Numbers :
                  retry'[n].status = "pending" => retry'[n].count \in 0 .. MaxRetries
  PROVE  TypeInv'
<1>1. /\ job' \in [Triggers -> Jobs]
      /\ \A t \in Triggers : job'[t].at \in WithRun => job'[t].run \in Numbers
  BY DEF TypeInv, TypeOK
<1>2. /\ pass' \in [Passes -> PassLocals]
      /\ \A w \in Passes : pass'[w].at \in AtRow => pass'[w].rows # {}
  BY DEF TypeInv, TypeOK
<1>3. /\ retry' \in [Numbers -> RetryRows]
      /\ \A n \in Numbers :
            retry'[n].status = "pending" => retry'[n].count \in 0 .. MaxRetries
  BY DEF TypeInv, TypeOK
<1>4. {dirty', fresh', ranNow', running'} \subseteq BOOLEAN
  OBVIOUS
<1> QED
  BY <1>1, <1>2, <1>3, <1>4 DEF TypeInv, TypeOK

\* The types of the plain variables, and the counters that a step may raise.
LEMMA Plain ==
  ASSUME TypeInv
  PROVE  /\ changes \in 0 .. MaxChanges /\ unmarked \subseteq 1 .. changes
         /\ excused \subseteq 1 .. changes
         /\ dirty \in BOOLEAN /\ fresh \in BOOLEAN /\ ranNow \in BOOLEAN
         /\ running \in BOOLEAN
         /\ cool \in 0 .. MinTicks /\ look \in {"none", "called", "open"}
         /\ asks \in 0 .. MaxAsks /\ faults \in 0 .. MaxFaults
         /\ files \subseteq Numbers /\ stored \subseteq Numbers /\ unsaved \subseteq Numbers
         /\ runs \in [Numbers -> RunRows]
BY DEF TypeInv, TypeOK

LEMMA Counters ==
  ASSUME TypeInv
  PROVE  /\ Faulty => faults' \in 0 .. MaxFaults
         /\ Asking => asks' \in 0 .. MaxAsks
<1>1. faults \in 0 .. MaxFaults /\ asks \in 0 .. MaxAsks
  BY Plain
<1> QED
  BY <1>1, Bounds DEF Faulty, Asking

\* A run whose row changes its status.
LEMMA StatusStep ==
  ASSUME TypeInv, NEW n \in Numbers, NEW status \in {"running", "success", "failed"},
         runs' = [runs EXCEPT ![n].status = status]
  PROVE  /\ runs' \in [Numbers -> RunRows]
         /\ runs'[n] = [status |-> status, version |-> runs[n].version]
         /\ \A m \in Numbers \ {n} : runs'[m] = runs[m]
<1> DEFINE r == [status |-> status, version |-> runs[n].version]
<1>1. runs \in [Numbers -> RunRows] /\ runs[n] \in RunRows /\ changes \in 0 .. MaxChanges
  BY Plain
<1>2. r \in RunRows
  BY <1>1 DEF RunRows
<1>3. [runs[n] EXCEPT !.status = status] = r
  BY <1>1 DEF RunRows
<1>4. runs' = [runs EXCEPT ![n] = r]
  BY <1>1, <1>3
<1> HIDE DEF r
<1>5. runs' \in [Numbers -> RunRows] /\ runs'[n] = r /\ \A m \in Numbers \ {n} : runs'[m] = runs[m]
  BY <1>1, <1>2, <1>4
<1> QED
  BY <1>5 DEF r

\* A run whose row changes its status, if it can be written.
LEMMA StatusOrNot ==
  ASSUME TypeInv, NEW n \in Numbers, NEW status \in {"running", "success", "failed"},
         runs' = [runs EXCEPT ![n].status = status] \/ UNCHANGED runs
  PROVE  /\ runs'[n].status \in {status, runs[n].status}
         /\ \A m \in Numbers : runs'[m].version = runs[m].version
         /\ \A m \in Numbers \ {n} : runs'[m] = runs[m]
<1>1. CASE UNCHANGED runs
  BY <1>1
<1>2. CASE runs' = [runs EXCEPT ![n].status = status]
  <2>1. /\ runs'[n] = [status |-> status, version |-> runs[n].version]
        /\ \A m \in Numbers \ {n} : runs'[m] = runs[m]
    BY <1>2, StatusStep
  <2>2. runs'[n].status = status /\ runs'[n].version = runs[n].version
    BY <2>1
  <2> QED
    BY <2>1, <2>2
<1> QED
  BY <1>1, <1>2

\* A run that gets the version of its package.
LEMMA VersionStep ==
  ASSUME TypeInv, NEW n \in Numbers, runs' = [runs EXCEPT ![n].version = changes]
  PROVE  /\ runs' \in [Numbers -> RunRows]
         /\ runs'[n] = [status |-> runs[n].status, version |-> changes]
         /\ \A m \in Numbers \ {n} : runs'[m] = runs[m]
<1> DEFINE r == [status |-> runs[n].status, version |-> changes]
<1>1. runs \in [Numbers -> RunRows] /\ runs[n] \in RunRows /\ changes \in 0 .. MaxChanges
  BY Plain
<1>2. r \in RunRows
  BY <1>1 DEF RunRows
<1>3. [runs[n] EXCEPT !.version = changes] = r
  BY <1>1 DEF RunRows
<1>4. runs' = [runs EXCEPT ![n] = r]
  BY <1>1, <1>3
<1> HIDE DEF r
<1>5. runs' \in [Numbers -> RunRows] /\ runs'[n] = r /\ \A m \in Numbers \ {n} : runs'[m] = runs[m]
  BY <1>1, <1>2, <1>4
<1> QED
  BY <1>5 DEF r

-----------------------------------------------------------------------------
(* The type invariant, action by action. *)

LEMMA TypeChanges ==
  ASSUME TypeInv, Commit \/ (\E c \in Changes : Mark(c)) \/ Minute \/ Look
  PROVE  TypeInv'
<1> USE DEF state, tables, world, counts
<1>1. /\ changes \in 0 .. MaxChanges /\ unmarked \subseteq 1 .. changes
      /\ excused \subseteq 1 .. changes /\ cool \in 0 .. MinTicks
      /\ MaxChanges \in Nat /\ MinTicks \in Nat
  BY Plain, Bounds
<1>2. CASE Commit
  <2>1. /\ changes' \in 0 .. MaxChanges
        /\ unmarked' \subseteq 1 .. changes' /\ excused' \subseteq 1 .. changes'
    BY <1>1, <1>2 DEF Commit
  <2> QED
    BY <2>1, <1>2, Plain, TypeKept DEF Commit
<1>3. ASSUME NEW c \in Changes, Mark(c)
      PROVE  TypeInv'
  <2>1. /\ unmarked' \subseteq 1 .. changes' /\ excused' \subseteq 1 .. changes'
        /\ changes' = changes
    BY <1>1, <1>3 DEF Mark
  <2>2. dirty' \in BOOLEAN /\ fresh' \in BOOLEAN
    BY <1>3 DEF Mark
  <2> QED
    BY <2>1, <2>2, <1>3, Plain, TypeKept DEF Mark
<1>4. CASE Minute
  <2>1. cool' \in 0 .. MinTicks
    BY <1>1, <1>4 DEF Minute
  <2>2. fresh' \in BOOLEAN /\ ranNow' \in BOOLEAN
    BY <1>4 DEF Minute
  <2> QED
    BY <2>1, <2>2, <1>4, Plain, TypeKept DEF Minute
<1>5. CASE Look
  <2>1. look' \in {"none", "called", "open"}
    BY <1>5 DEF Look
  <2> QED
    BY <2>1, <1>5, Plain, TypeKept DEF Look
<1> QED
  BY <1>2, <1>3, <1>4, <1>5

LEMMA AskStep ==
  ASSUME TypeInv, NEW t \in Triggers, Ask(t)
  PROVE  /\ job' \in [Triggers -> Jobs]
         /\ job'[t] = [at |-> "asked", run |-> 0]
         /\ \A u \in Triggers \ {t} : job'[u] = job[u]
         /\ \A u \in Triggers : job'[u].at \in WithRun => job'[u].run \in Numbers
<1>1. job[t] = Idle /\ Goto(t, "asked")
  BY DEF Ask, Goto
<1>2. "asked" \notin WithRun
  BY DEF WithRun
<1>3. /\ job' \in [Triggers -> Jobs]
      /\ job'[t] = [at |-> "asked", run |-> job[t].run]
      /\ \A u \in Triggers \ {t} : job'[u] = job[u]
      /\ \A u \in Triggers : job'[u].at \in WithRun => job'[u].run \in Numbers
  BY <1>1, <1>2, GotoStep
<1> QED
  BY <1>1, <1>3 DEF Idle

LEMMA StartStep ==
  ASSUME TypeInv, StartPass
  PROVE  /\ pass' \in [Passes -> PassLocals]
         /\ \A w \in Passes : pass'[w].at \in AtRow => pass'[w].rows # {}
         /\ \E w \in Passes :
               pass'[w].at = "asked" /\ \A v \in Passes \ {w} : pass'[v] = pass[v]
<1>1. PICK w \in Passes : pass[w].at = "idle" /\ pass' = [pass EXCEPT ![w].at = "asked"]
  BY DEF StartPass
<1> DEFINE p == [at |-> "asked", count |-> pass[w].count, rows |-> pass[w].rows]
<1>2. pass \in [Passes -> PassLocals] /\ pass[w] \in PassLocals
  BY DEF TypeInv, TypeOK
<1>3. p \in PassLocals /\ p.at \notin AtRow
  BY <1>2 DEF PassLocals, AtRow
<1>4. [pass[w] EXCEPT !.at = "asked"] = p
  BY <1>2 DEF PassLocals
<1>5. pass' = [pass EXCEPT ![w] = p]
  BY <1>1, <1>2, <1>4
<1>6. p.at = "asked"
  OBVIOUS
<1> HIDE DEF p
<1> QED
  BY <1>3, <1>5, <1>6, PassStep

LEMMA TypeDecisions ==
  ASSUME TypeInv, DecideEvent \/ DecideOther \/ Demand
  PROVE  TypeInv'
<1> USE DEF state, tables, world, counts
<1>1. {"event", "schedule", "manual"} = Triggers
  BY DEF Triggers
<1>2. CASE DecideEvent
  <2>1. Ask("event") /\ look' = "none"
    BY <1>2 DEF DecideEvent
  <2> QED
    BY <1>1, <1>2, <2>1, AskStep, Plain, TypeKept DEF DecideEvent
<1>3. CASE DecideOther
  <2>1. StartPass /\ look' = "none" /\ ((Ask("schedule") /\ Asking) \/ UNCHANGED <<job, asks>>)
    BY <1>3 DEF DecideOther
  <2>2. asks' \in 0 .. MaxAsks
    BY <2>1, Plain, Counters
  <2> QED
    BY <1>1, <1>3, <2>1, <2>2, AskStep, StartStep, Plain, TypeKept DEF DecideOther
<1>4. CASE Demand
  <2>1. Ask("manual") /\ asks' \in 0 .. MaxAsks
    BY <1>4, Counters DEF Demand
  <2> QED
    BY <1>1, <1>4, <2>1, AskStep, Plain, TypeKept DEF Demand
<1> QED
  BY <1>2, <1>3, <1>4

\* The goroutine of a backup comes to its end.
LEMMA IdleStep ==
  ASSUME TypeInv, NEW t \in Triggers, job' = [job EXCEPT ![t] = Idle]
  PROVE  /\ job' \in [Triggers -> Jobs] /\ job'[t] = Idle
         /\ \A u \in Triggers \ {t} : job'[u] = job[u]
         /\ \A u \in Triggers : job'[u].at \in WithRun => job'[u].run \in Numbers
<1>1. Idle.at \notin WithRun /\ Idle \in Jobs
  BY IdleTypes DEF Idle, WithRun
<1> QED
  BY <1>1, JobStep

LEMMA TypeBackup ==
  ASSUME TypeInv, NEW t \in Triggers, Backup(t)
  PROVE  TypeInv'
<1> USE DEF state, tables, world, counts
<1>1. CASE Begin(t)
  <2>1. "begun" \notin WithRun
    BY DEF WithRun
  <2>2. \/ running /\ job' = [job EXCEPT ![t] = Idle] /\ UNCHANGED running
        \/ ~running /\ Goto(t, "begun") /\ running' = TRUE
    BY <1>1 DEF Begin
  <2>3. /\ job' \in [Triggers -> Jobs]
        /\ \A u \in Triggers : job'[u].at \in WithRun => job'[u].run \in Numbers
    BY <2>1, <2>2, IdleStep, GotoStep
  <2>4. running' \in BOOLEAN
    BY <2>2, Plain
  <2> QED
    BY <1>1, <2>3, <2>4, Plain, TypeKept DEF Begin
<1>2. CASE RecordFails(t)
  <2>1. job' = [job EXCEPT ![t] = Idle] /\ running' = FALSE /\ faults' \in 0 .. MaxFaults
    BY <1>2, Counters DEF RecordFails
  <2> QED
    BY <1>2, <2>1, IdleStep, Plain, TypeKept DEF RecordFails
<1>3. CASE Record(t)
  <2>1. PICK n \in Numbers :
           /\ runs' = [runs EXCEPT ![n].status = "running"]
           /\ job' = [job EXCEPT ![t] = [at |-> "recorded", run |-> n]]
    BY <1>3 DEF Record
  <2>2. [at |-> "recorded", run |-> n] \in Jobs
    BY Bounds DEF Jobs, Numbers
  <2>3. /\ job' \in [Triggers -> Jobs]
        /\ \A u \in Triggers : job'[u].at \in WithRun => job'[u].run \in Numbers
    BY <2>1, <2>2, JobStep
  <2>4. runs' \in [Numbers -> RunRows]
    BY <2>1, StatusStep
  <2> QED
    BY <1>3, <2>3, <2>4, Plain, TypeKept DEF Record
<1>4. CASE Pack(t)
  <2> DEFINE n == job[t].run
  <2>1. job[t].at \in WithRun /\ n \in Numbers
    BY <1>4 DEF Pack, TypeInv, WithRun
  <2>2. \/ /\ Goto(t, "packed") /\ UNCHANGED faults
           /\ runs' = [runs EXCEPT ![n].version = changes] /\ files' = files \cup {n}
        \/ Goto(t, "unpacked") /\ Faulty /\ UNCHANGED <<runs, files>>
    BY <1>4 DEF Pack
  <2>3. {"packed", "unpacked"} \subseteq WithRun
    BY DEF WithRun
  <2>4. /\ job' \in [Triggers -> Jobs]
        /\ \A u \in Triggers : job'[u].at \in WithRun => job'[u].run \in Numbers
    BY <2>1, <2>2, <2>3, GotoStep
  <2>5. runs' \in [Numbers -> RunRows] /\ files' \subseteq Numbers
    BY <2>1, <2>2, VersionStep, Plain
  <2>6. faults' \in 0 .. MaxFaults
    BY <2>2, Counters, Plain
  <2> QED
    BY <1>4, <2>4, <2>5, <2>6, Plain, TypeKept DEF Pack
<1>5. CASE Upload(t)
  <2> DEFINE n == job[t].run
  <2>1. job[t].at \in WithRun /\ n \in Numbers
    BY <1>5 DEF Upload, TypeInv, WithRun
  <2>2. \/ Answered(n) /\ Goto(t, "sent")
        \/ (Unanswered(n) \/ Refused) /\ Goto(t, "unsent")
    BY <1>5 DEF Upload
  <2>3. {"sent", "unsent"} \subseteq WithRun
    BY DEF WithRun
  <2>4. /\ job' \in [Triggers -> Jobs]
        /\ \A u \in Triggers : job'[u].at \in WithRun => job'[u].run \in Numbers
    BY <2>1, <2>2, <2>3, GotoStep
  <2>5. stored' \subseteq Numbers /\ faults' \in 0 .. MaxFaults
    BY <2>1, <2>2, Plain, Counters DEF Answered, Unanswered, Refused
  <2> QED
    BY <1>5, <2>4, <2>5, Plain, TypeKept DEF Upload
<1>6. CASE Enqueue(t)
  <2> DEFINE n == job[t].run
             row == [status |-> "pending", count |-> 0]
  <2>1. job[t].at \in WithRun /\ n \in Numbers
    BY <1>6 DEF Enqueue, TypeInv, WithRun
  <2>2. /\ Goto(t, "queued")
        /\ \/ retry' = [retry EXCEPT ![n] = row] /\ UNCHANGED faults
           \/ UNCHANGED retry /\ Faulty
    BY <1>6 DEF Enqueue
  <2>3. "queued" \in WithRun
    BY DEF WithRun
  <2>4. /\ job' \in [Triggers -> Jobs]
        /\ \A u \in Triggers : job'[u].at \in WithRun => job'[u].run \in Numbers
    BY <2>1, <2>2, <2>3, GotoStep
  <2>5. row \in RetryRows /\ row.count \in 0 .. MaxRetries
    BY Bounds DEF RetryRows
  <2>6. \/ UNCHANGED retry
        \/ /\ retry' \in [Numbers -> RetryRows]
           /\ \A m \in Numbers :
                 retry'[m].status = "pending" => retry'[m].count \in 0 .. MaxRetries
    <3> HIDE DEF n, row
    <3> QED
      BY <2>1, <2>2, <2>5 DEF TypeInv, TypeOK
  <2>7. faults' \in 0 .. MaxFaults
    BY <2>2, Counters, Plain
  <2> QED
    BY <1>6, <2>4, <2>6, <2>7, Plain, TypeKept DEF Enqueue
<1>7. CASE Finish(t)
  <2> DEFINE n == job[t].run
             status == IF job[t].at = "sent" THEN "success" ELSE "failed"
  <2>1. job[t].at \in WithRun /\ n \in Numbers
    BY <1>7 DEF Finish, FinishRun, TypeInv, WithRun
  <2>2. /\ runs' = [runs EXCEPT ![n].status = status] \/ UNCHANGED runs
        /\ Goto(t, "ended")
        /\ files' \in {files, files \ {n}}
        /\ dirty' = (dirty /\ job[t].at # "sent") /\ ranNow' = (ranNow \/ t = "schedule")
        /\ cool' = MinTicks
        /\ UNCHANGED faults \/ Faulty
    BY <1>7 DEF Finish, FinishRun
  <2>3. "ended" \in WithRun /\ status \in {"running", "success", "failed"}
    BY DEF WithRun
  <2>4. /\ job' \in [Triggers -> Jobs]
        /\ \A u \in Triggers : job'[u].at \in WithRun => job'[u].run \in Numbers
    BY <2>1, <2>2, <2>3, GotoStep
  <2>5. runs' \in [Numbers -> RunRows]
    <3> HIDE DEF status, n
    <3> QED
      BY <2>1, <2>2, <2>3, StatusStep, Plain
  <2>6. files' \subseteq Numbers /\ faults' \in 0 .. MaxFaults
    BY <2>2, Plain, Counters
  <2>7. dirty' \in BOOLEAN /\ ranNow' \in BOOLEAN
    BY <2>2
  <2>8. cool' \in 0 .. MinTicks
    BY <2>2, Bounds
  <2> QED
    BY <1>7, <2>4, <2>5, <2>6, <2>7, <2>8, Plain, TypeKept DEF Finish, FinishRun
<1>8. CASE Release(t)
  <2>1. job' = [job EXCEPT ![t] = Idle] /\ running' = FALSE
    BY <1>8 DEF Release
  <2> QED
    BY <1>8, <2>1, IdleStep, Plain, TypeKept DEF Release
<1> QED
  BY <1>1, <1>2, <1>3, <1>4, <1>5, <1>6, <1>7, <1>8 DEF Backup

\* The pass goes on to another label with the rows and counts it has.
LEMMA MoveStep ==
  ASSUME TypeInv, NEW w \in Passes, pass[w].at \in AtRow,
         NEW label \in AtRow, pass' = [pass EXCEPT ![w].at = label]
  PROVE  /\ pass' \in [Passes -> PassLocals]
         /\ pass'[w] = [at |-> label, count |-> pass[w].count, rows |-> pass[w].rows]
         /\ \A v \in Passes \ {w} : pass'[v] = pass[v]
         /\ \A v \in Passes : pass'[v].at \in AtRow => pass'[v].rows # {}
<1> DEFINE p == [at |-> label, count |-> pass[w].count, rows |-> pass[w].rows]
<1>1. pass \in [Passes -> PassLocals] /\ pass[w] \in PassLocals
  BY DEF TypeInv, TypeOK
<1>2. p \in PassLocals
  BY <1>1 DEF PassLocals, AtRow
<1>3. [pass[w] EXCEPT !.at = label] = p
  BY <1>1 DEF PassLocals
<1>4. pass' = [pass EXCEPT ![w] = p]
  BY <1>1, <1>3
<1>5. p.rows # {}
  BY DEF TypeInv
<1> HIDE DEF p
<1>6. /\ pass' \in [Passes -> PassLocals] /\ pass'[w] = p
      /\ \A v \in Passes \ {w} : pass'[v] = pass[v]
      /\ \A v \in Passes : pass'[v].at \in AtRow => pass'[v].rows # {}
  BY <1>2, <1>4, <1>5, PassStep
<1> QED
  BY <1>6 DEF p

\* Where a pass is when it is done with a row.
LEMMA OnwardsFact ==
  ASSUME TypeInv, NEW w \in Passes, pass[w].at \in AtRow
  PROVE  /\ Onwards(w) \in PassLocals
         /\ Onwards(w).at \in {"idle", "send"}
         /\ Onwards(w).at \in AtRow => Onwards(w).rows # {}
         /\ Onwards(w).rows \subseteq pass[w].rows
<1>1. pass[w] \in PassLocals
  BY DEF TypeInv, TypeOK
<1>2. CASE Rest(w) = {}
  <2>1. Onwards(w) = NoPass
    BY <1>2 DEF Onwards
  <2> QED
    BY <2>1, IdleTypes DEF NoPass, AtRow
<1>3. CASE Rest(w) # {}
  <2> DEFINE n == Row(w)
             p == [at |-> "send", count |-> [pass[w].count EXCEPT ![n] = 0], rows |-> Rest(w)]
  <2>1. Onwards(w) = p
    BY <1>3 DEF Onwards
  <2>2. Rest(w) \subseteq pass[w].rows /\ Rest(w) \subseteq Numbers
    BY <1>1 DEF Rest, PassLocals
  <2>3. [pass[w].count EXCEPT ![n] = 0] \in [Numbers -> 0 .. MaxRetries]
    <3>1. pass[w].count \in [Numbers -> 0 .. MaxRetries] /\ 0 \in 0 .. MaxRetries
      BY <1>1, Bounds DEF PassLocals
    <3> HIDE DEF n
    <3> QED
      BY <3>1
  <2>4. p \in PassLocals
    <3> HIDE DEF n
    <3> QED
      BY <2>2, <2>3 DEF PassLocals
  <2>5. p.at = "send" /\ p.rows = Rest(w)
    OBVIOUS
  <2> HIDE DEF p
  <2> QED
    BY <1>3, <2>1, <2>2, <2>4, <2>5
<1> QED
  BY <1>2, <1>3

LEMMA TypePass ==
  ASSUME TypeInv, NEW w \in Passes, Pass(w)
  PROVE  TypeInv'
<1> USE DEF state, tables, world, counts
<1>1. pass[w] \in PassLocals /\ retry \in [Numbers -> RetryRows]
  BY DEF TypeInv, TypeOK
<1>2. ASSUME pass[w].at \in AtRow
      PROVE  Row(w) \in Numbers /\ Row(w) \in pass[w].rows
  BY <1>1, <1>2, RowFact DEF TypeInv, PassLocals
<1>3. CASE Fetch(w)
  <2>1. ASSUME NEW due \in (SUBSET Pending) \ {{}},
               pass' = [pass EXCEPT ![w] =
                          [at    |-> "send",
                           count |-> [n \in Numbers |-> IF n \in due THEN retry[n].count ELSE 0],
                           rows  |-> due]]
        PROVE  /\ pass' \in [Passes -> PassLocals]
               /\ \A v \in Passes : pass'[v].at \in AtRow => pass'[v].rows # {}
    <3> DEFINE count == [n \in Numbers |-> IF n \in due THEN retry[n].count ELSE 0]
               p == [at |-> "send", count |-> count, rows |-> due]
    <3>1. due \subseteq Numbers /\ \A n \in due : retry[n].count \in 0 .. MaxRetries
      BY DEF Pending, TypeInv
    <3>2. count \in [Numbers -> 0 .. MaxRetries]
      BY <3>1, Bounds
    <3>3. p \in PassLocals
      <4> HIDE DEF count
      <4> QED
        BY <3>1, <3>2 DEF PassLocals
    <3>4. p.rows # {} /\ pass' = [pass EXCEPT ![w] = p]
      BY <2>1
    <3> HIDE DEF p
    <3> QED
      BY <3>3, <3>4, PassStep
  <2>2. ASSUME pass' = [pass EXCEPT ![w] = NoPass]
        PROVE  /\ pass' \in [Passes -> PassLocals]
               /\ \A v \in Passes : pass'[v].at \in AtRow => pass'[v].rows # {}
    <3>1. NoPass.at \notin AtRow /\ NoPass \in PassLocals
      BY IdleTypes DEF NoPass, AtRow
    <3> QED
      BY <2>2, <3>1, PassStep
  <2>3. /\ pass' \in [Passes -> PassLocals]
        /\ \A v \in Passes : pass'[v].at \in AtRow => pass'[v].rows # {}
    BY <1>3, <2>1, <2>2 DEF Fetch
  <2>4. faults' \in 0 .. MaxFaults
    BY <1>3, Counters, Plain DEF Fetch
  <2> QED
    BY <1>3, <2>3, <2>4, Plain, TypeKept DEF Fetch
<1>4. CASE Send(w)
  <2>1. pass[w].at \in AtRow
    BY <1>4 DEF Send, AtRow
  <2>2. PICK label \in {"sent", "unsent"} : pass' = [pass EXCEPT ![w].at = label]
    BY <1>4 DEF Send
  <2>3. label \in AtRow
    BY DEF AtRow
  <2>4. /\ pass' \in [Passes -> PassLocals]
        /\ \A v \in Passes : pass'[v].at \in AtRow => pass'[v].rows # {}
    BY <2>1, <2>2, <2>3, MoveStep
  <2>5. stored' \subseteq Numbers /\ faults' \in 0 .. MaxFaults
    BY <1>4, <1>2, <2>1, Plain, Counters DEF Send, Answered, Unanswered, Refused
  <2> QED
    BY <1>4, <2>4, <2>5, Plain, TypeKept DEF Send
<1>5. CASE SaveDone(w)
  <2> DEFINE n   == Row(w)
             row == [status |-> "done",
                     count  |-> IF pass[w].count[n] = 0 THEN retry[n].count ELSE pass[w].count[n]]
  <2>1. pass[w].at \in AtRow /\ "saved" \in AtRow
    BY <1>5 DEF SaveDone, AtRow
  <2>2. n \in Numbers
    BY <1>2, <2>1
  <2>3. /\ pass' = [pass EXCEPT ![w].at = "saved"]
        /\ retry' = [retry EXCEPT ![n] = row] \/ UNCHANGED retry
        /\ unsaved' \in {unsaved, unsaved \cup {n}}
        /\ UNCHANGED faults \/ Faulty
    BY <1>1, <1>5, <2>2 DEF SaveDone
  <2>4. /\ pass' \in [Passes -> PassLocals]
        /\ \A v \in Passes : pass'[v].at \in AtRow => pass'[v].rows # {}
    BY <2>1, <2>3, MoveStep
  <2>5. row \in RetryRows /\ row.status = "done"
    <3>1. pass[w].count[n] \in 0 .. MaxRetries /\ retry[n].count \in 0 .. MaxRetries + 1
      BY <1>1, <2>2 DEF PassLocals, RetryRows
    <3> HIDE DEF n
    <3> QED
      BY <3>1, Bounds DEF RetryRows
  <2>6. /\ retry' \in [Numbers -> RetryRows]
        /\ \A m \in Numbers :
              retry'[m].status = "pending" => retry'[m].count \in 0 .. MaxRetries
    <3> HIDE DEF n, row
    <3> QED
      BY <1>1, <2>2, <2>3, <2>5 DEF TypeInv
  <2>7. unsaved' \subseteq Numbers /\ faults' \in 0 .. MaxFaults
    BY <2>2, <2>3, Plain, Counters
  <2> QED
    BY <1>5, <2>4, <2>6, <2>7, Plain, TypeKept DEF SaveDone
<1>6. CASE Settle(w)
  <2>1. pass[w].at \in AtRow
    BY <1>6 DEF Settle, AtRow
  <2>2. /\ pass' = [pass EXCEPT ![w] = Onwards(w)]
        /\ runs' = [runs EXCEPT ![Row(w)].status = "success"] \/ UNCHANGED runs
        /\ files' \subseteq files
        /\ UNCHANGED faults \/ Faulty
    BY <1>6 DEF Settle
  <2>3. /\ pass' \in [Passes -> PassLocals]
        /\ \A v \in Passes : pass'[v].at \in AtRow => pass'[v].rows # {}
    BY <2>1, <2>2, OnwardsFact, PassStep
  <2>4. /\ runs' \in [Numbers -> RunRows] /\ files' \subseteq Numbers
        /\ faults' \in 0 .. MaxFaults
    BY <1>2, <2>1, <2>2, StatusStep, Plain, Counters
  <2> QED
    BY <1>6, <2>3, <2>4, Plain, TypeKept DEF Settle
<1>7. CASE SaveFailure(w)
  <2> DEFINE n     == Row(w)
             count == pass[w].count[n] + 1
             row   == [status |-> IF count > MaxRetries THEN "failed" ELSE "pending",
                       count  |-> count]
  <2>1. pass[w].at \in AtRow
    BY <1>7 DEF SaveFailure, AtRow
  <2>2. n \in Numbers
    BY <1>2, <2>1
  <2>3. /\ pass' = [pass EXCEPT ![w] = Onwards(w)]
        /\ retry' = [retry EXCEPT ![n] = row] \/ UNCHANGED retry
        /\ UNCHANGED faults \/ Faulty
    BY <1>7 DEF SaveFailure
  <2>4. /\ pass' \in [Passes -> PassLocals]
        /\ \A v \in Passes : pass'[v].at \in AtRow => pass'[v].rows # {}
    BY <2>1, <2>3, OnwardsFact, PassStep
  <2>5. row \in RetryRows /\ (row.status = "pending" => row.count \in 0 .. MaxRetries)
    <3>1. pass[w].count[n] \in 0 .. MaxRetries
      BY <1>1, <2>2 DEF PassLocals
    <3>2. count \in 1 .. MaxRetries + 1
      BY <3>1, Bounds
    <3> HIDE DEF count
    <3> QED
      BY <3>2, Bounds DEF RetryRows
  <2>6. /\ retry' \in [Numbers -> RetryRows]
        /\ \A m \in Numbers :
              retry'[m].status = "pending" => retry'[m].count \in 0 .. MaxRetries
    <3> HIDE DEF n, row
    <3> QED
      BY <1>1, <2>2, <2>3, <2>5 DEF TypeInv
  <2> QED
    BY <1>7, <2>3, <2>4, <2>6, Plain, Counters, TypeKept DEF SaveFailure
<1> QED
  BY <1>3, <1>4, <1>5, <1>6, <1>7 DEF Pass

LEMMA TypeRestart ==
  ASSUME TypeInv, Restart
  PROVE  TypeInv'
<1> USE DEF state, tables, world, counts
<1>1. /\ job' = [t \in Triggers |-> Idle] /\ Idle \in Jobs /\ Idle.at \notin WithRun
      /\ pass' = [w \in Passes |-> NoPass] /\ NoPass \in PassLocals /\ NoPass.at \notin AtRow
  BY IdleTypes DEF Restart, Idle, NoPass, WithRun, AtRow
<1>2. /\ job' \in [Triggers -> Jobs]
      /\ \A t \in Triggers : job'[t].at \in WithRun => job'[t].run \in Numbers
      /\ pass' \in [Passes -> PassLocals]
      /\ \A w \in Passes : pass'[w].at \in AtRow => pass'[w].rows # {}
  BY <1>1
<1>3. /\ unmarked' \subseteq 1 .. changes' /\ excused' \subseteq 1 .. changes'
      /\ cool' \in 0 .. MinTicks /\ faults' \in 0 .. MaxFaults
  BY Bounds, Counters DEF Restart
<1> QED
  BY <1>2, <1>3, Plain, TypeKept DEF Restart

LEMMA TypeStep ==
  ASSUME TypeInv, [Next]_vars
  PROVE  TypeInv'
<1>1. CASE Next
  BY <1>1, TypeChanges, TypeDecisions, TypeBackup, TypePass, TypeRestart DEF Next
<1>2. CASE UNCHANGED vars
  <2>1. UNCHANGED <<changes, unmarked, dirty, fresh, cool, ranNow, running, look, job, runs,
                    retry, files, stored, unsaved, pass, excused, asks, faults>>
    BY <1>2 DEF vars, state, tables, world, counts
  <2> QED
    BY <2>1, Plain, TypeKept
<1> QED
  BY <1>1, <1>2

LEMMA TypeInvariant == SafeSpec => []TypeInv
<1>1. TypeInv /\ [Next]_vars => TypeInv'
  BY TypeStep
<1> QED
  BY <1>1, TypeInit, PTL DEF SafeSpec

\* Every variable keeps its type, whatever the mode and the bounds.
THEOREM BackupTypeCorrect == SafeSpec => []TypeOK
<1>1. TypeInv => TypeOK
  BY DEF TypeInv
<1> QED
  BY <1>1, TypeInvariant, PTL

-----------------------------------------------------------------------------
(* Exclusion. *)

Active(t) == job[t].at \notin {"idle", "asked"}

Exclusion ==
  /\ \A t, u \in Triggers : Active(t) /\ Active(u) => t = u
  /\ running <=> \E t \in Triggers : Active(t)

\* What a step of a backup does to its goroutine and to the flag.
LEMMA FlagEffect ==
  ASSUME TypeInv, NEW t \in Triggers, Backup(t)
  PROVE  /\ \A u \in Triggers \ {t} : job'[u] = job[u]
         /\ \/ ~Active(t) /\ job'[t].at = "idle" /\ UNCHANGED running
            \/ ~Active(t) /\ ~running /\ running' = TRUE /\ job'[t].at = "begun"
            \/ Active(t) /\ job'[t].at = "idle" /\ running' = FALSE
            \/ Active(t) /\ job'[t].at \in WithRun /\ UNCHANGED running
<1> USE DEF state
<1>1. CASE Begin(t)
  <2>1. "begun" \notin WithRun /\ ~Active(t)
    BY <1>1 DEF WithRun, Begin, Active
  <2>2. \/ job' = [job EXCEPT ![t] = Idle] /\ UNCHANGED running
        \/ ~running /\ Goto(t, "begun") /\ running' = TRUE
    BY <1>1 DEF Begin
  <2>3. CASE job' = [job EXCEPT ![t] = Idle] /\ UNCHANGED running
    BY <2>1, <2>3, IdleStep DEF Idle
  <2>4. CASE ~running /\ Goto(t, "begun") /\ running' = TRUE
    <3>1. /\ job'[t] = [at |-> "begun", run |-> job[t].run]
          /\ \A u \in Triggers \ {t} : job'[u] = job[u]
      BY <2>1, <2>4, GotoStep
    <3>2. job'[t].at = "begun"
      BY <3>1
    <3> QED
      BY <2>1, <2>4, <3>1, <3>2
  <2> QED
    BY <2>2, <2>3, <2>4
<1>2. CASE RecordFails(t) \/ Release(t)
  <2>1. job' = [job EXCEPT ![t] = Idle] /\ running' = FALSE /\ Active(t)
    BY <1>2 DEF RecordFails, Release, Active
  <2> QED
    BY <2>1, IdleStep DEF Idle
<1>3. CASE Record(t)
  <2>1. PICK n \in Numbers : job' = [job EXCEPT ![t] = [at |-> "recorded", run |-> n]]
    BY <1>3 DEF Record
  <2>2. [at |-> "recorded", run |-> n] \in Jobs /\ "recorded" \in WithRun
    BY Bounds DEF Jobs, Numbers, WithRun
  <2>3. Active(t) /\ UNCHANGED running
    BY <1>3 DEF Record, Active
  <2> QED
    BY <2>1, <2>2, <2>3, JobStep
<1>4. ASSUME Pack(t) \/ Upload(t) \/ Enqueue(t) \/ Finish(t)
      PROVE  /\ Active(t) /\ UNCHANGED running /\ job'[t].at \in WithRun
             /\ \A u \in Triggers \ {t} : job'[u] = job[u]
  <2>1. job[t].at \in WithRun /\ Active(t) /\ UNCHANGED running
    BY <1>4 DEF Pack, Upload, Enqueue, Finish, FinishRun, WithRun, Active
  <2>2. \E label \in {"packed", "unpacked", "sent", "unsent", "queued", "ended"} : Goto(t, label)
    BY <1>4 DEF Pack, Upload, Enqueue, Finish, FinishRun
  <2>3. PICK label \in WithRun : Goto(t, label)
    BY <2>2 DEF WithRun
  <2>4. job'[t] = [at |-> label, run |-> job[t].run] /\ \A u \in Triggers \ {t} : job'[u] = job[u]
    BY <2>1, <2>3, GotoStep
  <2> QED
    BY <2>1, <2>3, <2>4
<1> QED
  BY <1>1, <1>2, <1>3, <1>4 DEF Backup

LEMMA ExclusionStep ==
  ASSUME TypeInv, Exclusion, [Next]_vars
  PROVE  Exclusion'
<1> USE DEF state, tables, world, counts
<1>1. ASSUME NEW t \in Triggers, Backup(t)
      PROVE  Exclusion'
  <2>1. \A u \in Triggers \ {t} : Active(u)' <=> Active(u)
    BY <1>1, FlagEffect DEF Active
  <2>2. \/ ~Active(t) /\ ~Active(t)' /\ running' = running
        \/ ~Active(t) /\ ~running /\ running' = TRUE /\ Active(t)'
        \/ Active(t) /\ ~Active(t)' /\ running' = FALSE
        \/ Active(t) /\ Active(t)' /\ running' = running
    BY <1>1, FlagEffect DEF Active, WithRun
  <2>3. /\ \A u, v \in Triggers : Active(u) /\ Active(v) => u = v
        /\ running <=> \E u \in Triggers : Active(u)
    BY DEF Exclusion
  <2> HIDE DEF Active
  <2>4. \A u, v \in Triggers : Active(u)' /\ Active(v)' => u = v
    BY <2>1, <2>2, <2>3
  <2>5. running' <=> \E u \in Triggers : Active(u)'
    BY <2>1, <2>2, <2>3
  <2> QED
    BY <2>4, <2>5 DEF Exclusion
<1>2. ASSUME NEW t \in Triggers, Ask(t), UNCHANGED running
      PROVE  Exclusion'
  <2>1. \A u \in Triggers : Active(u)' <=> Active(u)
    BY <1>2, AskStep DEF Active, Ask, Idle
  <2> HIDE DEF Active
  <2> QED
    BY <1>2, <2>1 DEF Exclusion
<1>3. ASSUME UNCHANGED <<job, running>>
      PROVE  Exclusion'
  BY <1>3 DEF Exclusion, Active
<1>4. CASE DecideEvent \/ DecideOther \/ Demand
  <2>1. \/ Ask("event") /\ UNCHANGED running
        \/ Ask("schedule") /\ UNCHANGED running
        \/ Ask("manual") /\ UNCHANGED running
        \/ UNCHANGED <<job, running>>
    BY <1>4 DEF DecideEvent, DecideOther, Demand
  <2> QED
    BY <2>1, <1>2, <1>3 DEF Triggers
<1>5. CASE Commit \/ (\E c \in Changes : Mark(c)) \/ Minute \/ Look
  <2>1. UNCHANGED <<job, running>>
    BY <1>5 DEF Commit, Mark, Minute, Look
  <2> QED
    BY <2>1, <1>3
<1>6. CASE \E w \in Passes : Pass(w)
  <2>1. UNCHANGED <<job, running>>
    BY <1>6 DEF Pass, Fetch, Send, SaveDone, Settle, SaveFailure
  <2> QED
    BY <2>1, <1>3
<1>7. CASE Restart
  <2>1. running' = FALSE /\ \A t \in Triggers : ~Active(t)'
    BY <1>7 DEF Restart, Active, Idle
  <2> HIDE DEF Active
  <2> QED
    BY <2>1 DEF Exclusion
<1>8. CASE UNCHANGED vars
  <2>1. UNCHANGED <<job, running>>
    BY <1>8 DEF vars
  <2> QED
    BY <2>1, <1>3
<1> QED
  BY <1>1, <1>4, <1>5, <1>6, <1>7, <1>8 DEF Next

LEMMA ExclusionInvariant == SafeSpec => []Exclusion
<1>1. Init => Exclusion
  <2> SUFFICES ASSUME Init PROVE Exclusion
    OBVIOUS
  <2>1. running = FALSE /\ \A t \in Triggers : ~Active(t)
    BY DEF Init, Idle, Active
  <2> HIDE DEF Active
  <2> QED
    BY <2>1 DEF Exclusion
<1>2. TypeInv /\ Exclusion /\ [Next]_vars => Exclusion'
  BY ExclusionStep
<1> QED
  BY <1>1, <1>2, TypeInvariant, PTL DEF SafeSpec

\* From the moment the flag is up there is one backup, and no error leaves the
\* flag behind.
THEOREM BackupsExclude == SafeSpec => []OneBackupAtATime
<1>1. ASSUME Exclusion PROVE OneBackupAtATime
  <2> DEFINE active == {t \in Triggers : Active(t)}
  <2>1. \A t, u \in active : t = u
    BY <1>1 DEF Exclusion
  <2>2. running <=> active # {}
    BY <1>1 DEF Exclusion
  <2>3. Cardinality(active) <= 1
    <3>1. CASE active = {}
      BY <3>1, FS_EmptySet
    <3>2. CASE active # {}
      <4>1. PICK t \in active : TRUE
        BY <3>2
      <4>2. active = {t}
        BY <2>1, <4>1
      <4> HIDE DEF active
      <4> QED
        BY <4>2, FS_Singleton
    <3> QED
      BY <3>1, <3>2
  <2> QED
    BY <2>2, <2>3 DEF OneBackupAtATime, Active
<1> QED
  BY <1>1, ExclusionInvariant, PTL

-----------------------------------------------------------------------------
(* Rows, packages and the server. *)

\* Before its package is given to the queue a run has no row there.
BeforeQueue == {"recorded", "packed", "unpacked", "sent", "unsent"}

\* What the goroutine of a backup knows of its run.
JobKnows(t) ==
  LET n == job[t].run IN
    /\ job[t].at \in WithRun => runs[n].status # "none"
    /\ job[t].at \in BeforeQueue => retry[n].status = "none"
    /\ job[t].at \in {"packed", "unsent"} => n \in files
    /\ job[t].at = "sent" => n \in stored

\* What a pass knows of the rows it has copied.
PassKnows(w) ==
  /\ pass[w].at \in AtRow => \A n \in pass[w].rows : retry[n].status # "none"
  /\ pass[w].at \in {"sent", "saved"} => Row(w) \in stored

\* What the tables say of the disk and the server.
RowsTrue ==
  \A n \in Numbers :
    /\ retry[n].status # "none" => runs[n].status # "none" /\ n \in files \cup stored
    /\ runs[n].status = "success" => n \in stored

StoreInv ==
  /\ \A t \in Triggers : JobKnows(t)
  /\ \A w \in Passes : PassKnows(w)
  /\ RowsTrue

\* No row is taken back, nothing leaves the server.
TablesGrow ==
  /\ \A n \in Numbers : runs[n].status # "none" => runs'[n].status # "none"
  /\ \A n \in Numbers : retry[n].status # "none" => retry'[n].status # "none"
  /\ stored \subseteq stored'

LEMMA JobFrame ==
  ASSUME TypeInv, TablesGrow, NEW t \in Triggers, JobKnows(t), job'[t] = job[t],
         job[t].at \in BeforeQueue =>
           LET n == job[t].run IN
             /\ retry[n].status = "none" => retry'[n].status = "none"
             /\ n \in files => n \in files'
  PROVE  JobKnows(t)'
<1>1. job[t].at \in WithRun => job[t].run \in Numbers
  BY DEF TypeInv
<1>2. {"packed", "unsent"} \subseteq BeforeQueue /\ BeforeQueue \subseteq WithRun
  BY DEF BeforeQueue, WithRun
<1> QED
  BY <1>1, <1>2 DEF JobKnows, TablesGrow

LEMMA PassFrame ==
  ASSUME TypeInv, TablesGrow, NEW w \in Passes, PassKnows(w), pass'[w] = pass[w]
  PROVE  PassKnows(w)'
<1>1. pass[w].rows \subseteq Numbers
  BY DEF TypeInv, TypeOK, PassLocals
<1>2. Row(w)' = Row(w)
  BY DEF Row
<1> QED
  BY <1>1, <1>2 DEF PassKnows, TablesGrow

\* A backup knows nothing of a run before its row is there.
LEMMA NoRunNoClaim ==
  ASSUME NEW t \in Triggers, job'[t].at \notin WithRun
  PROVE  JobKnows(t)'
<1>1. {"packed", "unsent", "sent"} \subseteq WithRun /\ BeforeQueue \subseteq WithRun
  BY DEF BeforeQueue, WithRun
<1> QED
  BY <1>1 DEF JobKnows

\* While one backup is active the others have no run.
LEMMA OthersIdle ==
  ASSUME Exclusion, NEW t \in Triggers, Active(t),
         \A u \in Triggers \ {t} : job'[u] = job[u]
  PROVE  \A u \in Triggers \ {t} : JobKnows(u)'
<1>1. \A u \in Triggers \ {t} : ~Active(u)
  BY DEF Exclusion
<1>2. \A u \in Triggers \ {t} : job'[u].at \notin WithRun
  BY <1>1 DEF Active, WithRun
<1> QED
  BY <1>2, NoRunNoClaim

\* A step that leaves the tables, the disk and the server alone.
LEMMA StoreQuiet ==
  ASSUME TypeInv, StoreInv, UNCHANGED <<runs, retry, files, stored>>,
         \A t \in Triggers : job'[t] = job[t] \/ job'[t].at \notin WithRun,
         \A w \in Passes :
            \/ pass'[w] = pass[w]
            \/ /\ pass'[w].at \notin {"sent", "saved"}
               /\ pass'[w].at \in AtRow => \A n \in pass'[w].rows : retry[n].status # "none"
  PROVE  StoreInv'
<1>1. TablesGrow
  BY DEF TablesGrow
<1>2. \A t \in Triggers : JobKnows(t)'
  <2> TAKE t \in Triggers
  <2>1. JobKnows(t)
    BY DEF StoreInv
  <2> QED
    BY <1>1, <2>1, JobFrame, NoRunNoClaim
<1>3. \A w \in Passes : PassKnows(w)'
  <2> TAKE w \in Passes
  <2>1. CASE pass'[w] = pass[w]
    BY <1>1, <2>1, PassFrame DEF StoreInv
  <2>2. CASE /\ pass'[w].at \notin {"sent", "saved"}
             /\ pass'[w].at \in AtRow => \A n \in pass'[w].rows : retry[n].status # "none"
    BY <2>2 DEF PassKnows
  <2> QED
    BY <2>1, <2>2
<1>4. RowsTrue'
  BY DEF StoreInv, RowsTrue
<1> QED
  BY <1>2, <1>3, <1>4 DEF StoreInv

\* The one backup that is past its row has taken a step: it knows what it says,
\* the tables have grown, and they are true.
LEMMA StoreJobStep ==
  ASSUME TypeInv, Exclusion, StoreInv, NEW t \in Triggers, Active(t),
         \A u \in Triggers \ {t} : job'[u] = job[u], UNCHANGED pass,
         TablesGrow, JobKnows(t)', RowsTrue'
  PROVE  StoreInv'
<1>1. \A u \in Triggers : JobKnows(u)'
  BY OthersIdle
<1>2. \A w \in Passes : PassKnows(w)'
  BY PassFrame DEF StoreInv
<1> QED
  BY <1>1, <1>2 DEF StoreInv

LEMMA StoreBackup ==
  ASSUME TypeInv, Exclusion, StoreInv, NEW t \in Triggers, Backup(t)
  PROVE  StoreInv'
<1> USE DEF state, tables, world, counts
<1> DEFINE n == job[t].run
<1>1. JobKnows(t) /\ RowsTrue
  BY DEF StoreInv
<1>2. job[t].at \in WithRun => n \in Numbers
  BY DEF TypeInv
<1>3. CASE Begin(t) \/ RecordFails(t) \/ Release(t)
  <2>1. /\ UNCHANGED <<runs, retry, files, stored, pass>>
        /\ job[t].at \in {"asked", "begun", "ended"}
        /\ job' = [job EXCEPT ![t] = Idle] \/ Goto(t, "begun")
    BY <1>3 DEF Begin, RecordFails, Release
  <2>2. "begun" \notin WithRun /\ Idle.at \notin WithRun
    BY DEF WithRun, Idle
  <2>3. job'[t].at \notin WithRun
    <3>1. CASE job' = [job EXCEPT ![t] = Idle]
      BY <3>1, <2>2, IdleStep
    <3>2. CASE Goto(t, "begun")
      <4>1. job'[t] = [at |-> "begun", run |-> job[t].run]
        BY <2>2, <3>2, GotoStep
      <4>2. job'[t].at = "begun"
        BY <4>1
      <4> QED
        BY <2>2, <4>2
    <3> QED
      BY <2>1, <3>1, <3>2
  <2>4. \A u \in Triggers \ {t} : job'[u] = job[u]
    BY FlagEffect
  <2> QED
    BY <2>1, <2>3, <2>4, StoreQuiet
<1>4. CASE Record(t)
  <2>1. PICK m \in Numbers :
           /\ runs[m].status = "none" /\ runs' = [runs EXCEPT ![m].status = "running"]
           /\ job' = [job EXCEPT ![t] = [at |-> "recorded", run |-> m]]
    BY <1>4 DEF Record
  <2>2. /\ UNCHANGED <<retry, files, stored, pass>> /\ Active(t)
        /\ \A u \in Triggers \ {t} : job'[u] = job[u]
    BY <1>4, FlagEffect DEF Record, Active
  <2>3. job'[t] = [at |-> "recorded", run |-> m]
    <3>1. [at |-> "recorded", run |-> m] \in Jobs
      BY Bounds DEF Jobs, Numbers
    <3> QED
      BY <2>1, <3>1, JobStep
  <2>4. /\ runs'[m] = [status |-> "running", version |-> runs[m].version]
        /\ \A k \in Numbers \ {m} : runs'[k] = runs[k]
    BY <2>1, StatusStep
  <2>5. runs'[m].status = "running"
    BY <2>4
  <2>6. TablesGrow
    BY <2>2, <2>4, <2>5 DEF TablesGrow
  <2>7. JobKnows(t)'
    <3>1. job'[t].at = "recorded" /\ job'[t].run = m
      BY <2>3
    <3>2. retry'[m].status = "none"
      BY <1>1, <2>1, <2>2 DEF RowsTrue
    <3> QED
      BY <2>5, <3>1, <3>2 DEF JobKnows
  <2>8. RowsTrue'
    BY <1>1, <2>2, <2>4, <2>5 DEF RowsTrue
  <2> QED
    BY <2>2, <2>6, <2>7, <2>8, StoreJobStep
<1>5. ASSUME NEW label \in WithRun, Goto(t, label), job[t].at \in WithRun
      PROVE  job'[t].at = label /\ job'[t].run = n
  <2>1. job'[t] = [at |-> label, run |-> job[t].run]
    BY <1>5, GotoStep
  <2> QED
    BY <2>1
<1>6. {"packed", "unpacked", "sent", "unsent", "queued", "ended"} \subseteq WithRun
  BY DEF WithRun
<1>7. CASE Pack(t)
  <2>1. /\ UNCHANGED <<retry, stored, pass>> /\ Active(t)
        /\ \A u \in Triggers \ {t} : job'[u] = job[u]
        /\ n \in Numbers /\ runs[n].status # "none" /\ retry[n].status = "none"
    BY <1>1, <1>2, <1>7, FlagEffect DEF Pack, Active, JobKnows, WithRun, BeforeQueue
  <2>2. /\ runs'[n].status = runs[n].status
        /\ \A k \in Numbers \ {n} : runs'[k] = runs[k]
    <3>1. CASE runs' = [runs EXCEPT ![n].version = changes]
      <4>1. runs'[n] = [status |-> runs[n].status, version |-> changes]
        BY <2>1, <3>1, VersionStep
      <4>2. runs'[n].status = runs[n].status
        BY <4>1
      <4> QED
        BY <2>1, <3>1, <4>2, VersionStep
    <3> QED
      BY <1>7, <3>1 DEF Pack
  <2>3. TablesGrow
    BY <2>1, <2>2 DEF TablesGrow
  <2>4. job'[t].run = n /\ ((job'[t].at = "packed" /\ n \in files') \/ job'[t].at = "unpacked")
    BY <1>5, <1>6, <1>7 DEF Pack, WithRun
  <2>5. JobKnows(t)'
    BY <2>1, <2>2, <2>4 DEF JobKnows
  <2>6. files \subseteq files'
    BY <1>7 DEF Pack
  <2>7. RowsTrue'
    BY <1>1, <2>1, <2>2, <2>6 DEF RowsTrue
  <2> QED
    BY <2>1, <2>3, <2>5, <2>7, StoreJobStep
<1>8. CASE Upload(t)
  <2>1. /\ UNCHANGED <<runs, retry, files, pass>> /\ Active(t)
        /\ \A u \in Triggers \ {t} : job'[u] = job[u]
        /\ n \in Numbers /\ runs[n].status # "none" /\ retry[n].status = "none" /\ n \in files
    BY <1>1, <1>2, <1>8, FlagEffect DEF Upload, Active, JobKnows, WithRun, BeforeQueue
  <2>2. /\ job'[t].run = n /\ stored \subseteq stored'
        /\ (job'[t].at = "sent" /\ n \in stored') \/ job'[t].at = "unsent"
    BY <1>5, <1>6, <1>8 DEF Upload, Answered, Unanswered, Refused, WithRun
  <2>3. TablesGrow
    BY <2>1, <2>2 DEF TablesGrow
  <2>4. JobKnows(t)'
    BY <2>1, <2>2 DEF JobKnows
  <2>5. RowsTrue'
    BY <1>1, <2>1, <2>2 DEF RowsTrue
  <2> QED
    BY <2>1, <2>3, <2>4, <2>5, StoreJobStep
<1>9. CASE Enqueue(t)
  <2>1. /\ UNCHANGED <<runs, files, stored, pass>> /\ Active(t)
        /\ \A u \in Triggers \ {t} : job'[u] = job[u]
        /\ n \in Numbers /\ runs[n].status # "none" /\ n \in files
    BY <1>1, <1>2, <1>9, FlagEffect DEF Enqueue, Active, JobKnows, WithRun
  <2>2. job'[t].run = n /\ job'[t].at = "queued"
    BY <1>5, <1>6, <1>9 DEF Enqueue, WithRun
  <2>3. /\ retry[n].status # "none" => retry'[n].status # "none"
        /\ \A k \in Numbers \ {n} : retry'[k] = retry[k]
    BY <1>9, <2>1 DEF Enqueue, TypeInv, TypeOK
  <2>4. TablesGrow
    BY <2>1, <2>3 DEF TablesGrow
  <2>5. JobKnows(t)'
    BY <2>1, <2>2 DEF JobKnows, BeforeQueue
  <2>6. RowsTrue'
    BY <1>1, <2>1, <2>3 DEF RowsTrue
  <2> QED
    BY <2>1, <2>4, <2>5, <2>6, StoreJobStep
<1>10. CASE Finish(t)
  <2> DEFINE status == IF job[t].at = "sent" THEN "success" ELSE "failed"
  <2>1. /\ UNCHANGED <<retry, stored, pass>> /\ Active(t)
        /\ \A u \in Triggers \ {t} : job'[u] = job[u]
        /\ n \in Numbers
        /\ job[t].at = "sent" => n \in stored
        /\ job[t].at \in {"unpacked", "sent"} => retry[n].status = "none"
        /\ runs[n].status # "none"
    BY <1>1, <1>2, <1>10, FlagEffect DEF Finish, FinishRun, Active, JobKnows, WithRun, BeforeQueue
  <2>2. /\ job[t].at \in {"unpacked", "sent", "queued"}
        /\ runs' = [runs EXCEPT ![n].status = status] \/ UNCHANGED runs
        /\ files' = IF job[t].at = "queued" THEN files ELSE files \ {n}
        /\ Goto(t, "ended")
    BY <1>10 DEF Finish, FinishRun
  <2>3. job'[t].run = n /\ job'[t].at = "ended"
    BY <1>5, <1>6, <2>2 DEF WithRun
  <2>4. status \in {"running", "success", "failed"} /\ (status = "success" <=> job[t].at = "sent")
    OBVIOUS
  <2>5. /\ runs'[n].status \in {status, runs[n].status}
        /\ \A k \in Numbers \ {n} : runs'[k] = runs[k]
    <3> HIDE DEF n, status
    <3> QED
      BY <2>1, <2>2, <2>4, StatusOrNot
  <2>6. runs'[n].status # "none"
    BY <2>1, <2>4, <2>5
  <2>7. TablesGrow
    BY <2>1, <2>5, <2>6 DEF TablesGrow
  <2>8. JobKnows(t)'
    BY <2>3, <2>6 DEF JobKnows, BeforeQueue
  <2>9. RowsTrue'
    <3> SUFFICES ASSUME NEW k \in Numbers
                 PROVE  /\ retry'[k].status # "none" =>
                              runs'[k].status # "none" /\ k \in files' \cup stored'
                        /\ runs'[k].status = "success" => k \in stored'
      BY DEF RowsTrue
    <3>1. CASE k # n
      BY <1>1, <2>1, <2>2, <2>5, <3>1 DEF RowsTrue
    <3>2. CASE k = n
      <4>1. runs'[n].status = "success" => n \in stored'
        BY <1>1, <2>1, <2>4, <2>5 DEF RowsTrue
      <4>2. retry'[n].status # "none" => n \in files' \cup stored'
        BY <1>1, <2>1, <2>2 DEF RowsTrue
      <4> QED
        BY <2>6, <3>2, <4>1, <4>2
    <3> QED
      BY <3>1, <3>2
  <2> QED
    BY <2>1, <2>7, <2>8, <2>9, StoreJobStep
<1> QED
  BY <1>3, <1>4, <1>7, <1>8, <1>9, <1>10 DEF Backup

\* A pass has taken a step on its row: the backups keep what they know, since
\* their run has no row in the queue yet.
LEMMA StorePassStep ==
  ASSUME TypeInv, StoreInv, NEW w \in Passes, UNCHANGED job,
         \A v \in Passes \ {w} : pass'[v] = pass[v],
         TablesGrow, PassKnows(w)', RowsTrue',
         \A n \in Numbers : retry[n].status = "none" =>
            retry'[n].status = "none" /\ (n \in files => n \in files')
  PROVE  StoreInv'
<1>1. \A v \in Passes : PassKnows(v)'
  <2> TAKE v \in Passes
  <2>1. CASE v = w
    BY <2>1
  <2>2. CASE v # w
    BY <2>2, PassFrame DEF StoreInv
  <2> QED
    BY <2>1, <2>2
<1>2. \A t \in Triggers : JobKnows(t)'
  <2> TAKE t \in Triggers
  <2>1. job[t].at \in BeforeQueue => job[t].run \in Numbers /\ retry[job[t].run].status = "none"
    BY DEF StoreInv, JobKnows, BeforeQueue, TypeInv, WithRun
  <2>2. JobKnows(t)
    BY DEF StoreInv
  <2> QED
    BY <2>1, <2>2, JobFrame
<1> QED
  BY <1>1, <1>2 DEF StoreInv

LEMMA StorePass ==
  ASSUME TypeInv, StoreInv, NEW w \in Passes, Pass(w)
  PROVE  StoreInv'
<1> USE DEF state, tables, world, counts
<1>1. PassKnows(w) /\ RowsTrue
  BY DEF StoreInv
<1>2. /\ pass \in [Passes -> PassLocals] /\ pass[w].rows \subseteq Numbers
      /\ retry \in [Numbers -> RetryRows]
  BY DEF TypeInv, TypeOK, PassLocals
<1>3. ASSUME pass[w].at \in AtRow
      PROVE  /\ Row(w) \in Numbers /\ Row(w) \in pass[w].rows
             /\ retry[Row(w)].status # "none"
  BY <1>1, <1>2, <1>3, RowFact DEF TypeInv, PassKnows
<1>4. CASE Fetch(w)
  <2>1. UNCHANGED <<runs, retry, files, stored, job>>
    BY <1>4 DEF Fetch
  <2>2. \A v \in Passes \ {w} : pass'[v] = pass[v]
    BY <1>2, <1>4 DEF Fetch
  <2>3. /\ pass'[w].at \notin {"sent", "saved"}
        /\ pass'[w].at \in AtRow => \A n \in pass'[w].rows : retry[n].status # "none"
    <3>1. CASE pass' = [pass EXCEPT ![w] = NoPass]
      BY <1>2, <3>1 DEF NoPass, AtRow
    <3>2. ASSUME NEW due \in (SUBSET Pending) \ {{}}, NEW count,
                 pass' = [pass EXCEPT ![w] = [at |-> "send", count |-> count, rows |-> due]]
          PROVE  /\ pass'[w].at \notin {"sent", "saved"}
                 /\ pass'[w].at \in AtRow => \A n \in pass'[w].rows : retry[n].status # "none"
      <4>1. pass'[w] = [at |-> "send", count |-> count, rows |-> due]
        BY <1>2, <3>2
      <4>2. pass'[w].at = "send" /\ pass'[w].rows = due
        BY <4>1
      <4> QED
        BY <4>2 DEF Pending
    <3> QED
      BY <1>4, <3>1, <3>2 DEF Fetch
  <2> QED
    BY <2>1, <2>2, <2>3, StoreQuiet
<1>5. ASSUME pass[w].at \in AtRow, NEW label \in AtRow, pass' = [pass EXCEPT ![w].at = label]
      PROVE  /\ pass'[w].at = label /\ pass'[w].rows = pass[w].rows /\ Row(w)' = Row(w)
             /\ \A v \in Passes \ {w} : pass'[v] = pass[v]
  <2>1. /\ pass'[w] = [at |-> label, count |-> pass[w].count, rows |-> pass[w].rows]
        /\ \A v \in Passes \ {w} : pass'[v] = pass[v]
    BY <1>5, MoveStep
  <2>2. pass'[w].at = label /\ pass'[w].rows = pass[w].rows
    BY <2>1
  <2>3. Row(w)' = Row(w)
    BY <2>2 DEF Row
  <2> QED
    BY <2>1, <2>2, <2>3
<1>6. CASE Send(w)
  <2>1. /\ UNCHANGED <<runs, retry, files, job>> /\ pass[w].at \in AtRow
        /\ stored \subseteq stored'
    BY <1>6 DEF Send, AtRow, Answered, Unanswered, Refused
  <2>2. PICK label \in {"sent", "unsent"} :
           /\ pass' = [pass EXCEPT ![w].at = label]
           /\ label = "sent" => Row(w) \in stored'
    BY <1>6 DEF Send, Answered
  <2>3. label \in AtRow
    BY DEF AtRow
  <2>4. /\ pass'[w].at = label /\ pass'[w].rows = pass[w].rows /\ Row(w)' = Row(w)
        /\ \A v \in Passes \ {w} : pass'[v] = pass[v]
    BY <1>5, <2>1, <2>2, <2>3
  <2>5. TablesGrow
    BY <2>1 DEF TablesGrow
  <2>6. PassKnows(w)'
    BY <1>1, <2>1, <2>2, <2>4 DEF PassKnows
  <2>7. RowsTrue'
    BY <1>1, <2>1 DEF RowsTrue
  <2> QED
    BY <2>1, <2>4, <2>5, <2>6, <2>7, StorePassStep
<1>7. CASE SaveDone(w)
  <2>1. /\ UNCHANGED <<runs, files, stored, job>> /\ pass[w].at \in AtRow /\ "saved" \in AtRow
        /\ pass' = [pass EXCEPT ![w].at = "saved"]
        /\ Row(w) \in stored
    BY <1>1, <1>7 DEF SaveDone, AtRow, PassKnows
  <2>2. /\ Row(w) \in Numbers /\ retry[Row(w)].status # "none"
    BY <1>3, <2>1
  <2>3. retry'[Row(w)].status # "none" /\ \A n \in Numbers \ {Row(w)} : retry'[n] = retry[n]
    BY <1>2, <1>7, <2>2 DEF SaveDone
  <2>4. /\ pass'[w].at = "saved" /\ pass'[w].rows = pass[w].rows /\ Row(w)' = Row(w)
        /\ \A v \in Passes \ {w} : pass'[v] = pass[v]
    BY <1>5, <2>1
  <2>5. TablesGrow
    BY <2>1, <2>2, <2>3 DEF TablesGrow
  <2>6. PassKnows(w)'
    BY <1>1, <1>2, <2>1, <2>4, <2>5 DEF PassKnows, TablesGrow
  <2>7. RowsTrue'
    BY <1>1, <2>1, <2>2, <2>3 DEF RowsTrue
  <2>8. \A n \in Numbers : retry[n].status = "none" =>
           retry'[n].status = "none" /\ (n \in files => n \in files')
    BY <2>1, <2>2, <2>3
  <2> QED
    BY <2>1, <2>4, <2>5, <2>6, <2>7, <2>8, StorePassStep
<1>8. ASSUME pass[w].at \in AtRow, pass' = [pass EXCEPT ![w] = Onwards(w)], TablesGrow
      PROVE  PassKnows(w)' /\ \A v \in Passes \ {w} : pass'[v] = pass[v]
  <2>1. /\ Onwards(w) \in PassLocals /\ Onwards(w).at \in {"idle", "send"}
        /\ Onwards(w).rows \subseteq pass[w].rows
        /\ Onwards(w).at \in AtRow => Onwards(w).rows # {}
    BY <1>8, OnwardsFact
  <2>2. pass'[w] = Onwards(w) /\ \A v \in Passes \ {w} : pass'[v] = pass[v]
    BY <1>8, <2>1, PassStep
  <2>3. \A n \in pass[w].rows : retry'[n].status # "none"
    BY <1>1, <1>2, <1>8 DEF PassKnows, TablesGrow
  <2>4. pass'[w].at \notin {"sent", "saved"} /\ pass'[w].rows \subseteq pass[w].rows
    BY <2>1, <2>2
  <2> QED
    BY <2>2, <2>3, <2>4 DEF PassKnows
<1>9. CASE Settle(w)
  <2>1. /\ UNCHANGED <<retry, stored, job>> /\ pass[w].at \in AtRow
        /\ pass' = [pass EXCEPT ![w] = Onwards(w)]
        /\ runs' = [runs EXCEPT ![Row(w)].status = "success"] \/ UNCHANGED runs
        /\ files' = files \ {Row(w)}
        /\ Row(w) \in stored
    BY <1>1, <1>9 DEF Settle, AtRow, PassKnows
  <2>2. Row(w) \in Numbers /\ retry[Row(w)].status # "none"
    BY <1>3, <2>1
  <2>3. /\ runs'[Row(w)].status \in {"success", runs[Row(w)].status}
        /\ \A n \in Numbers \ {Row(w)} : runs'[n] = runs[n]
    BY <2>1, <2>2, StatusOrNot
  <2>4. TablesGrow
    BY <2>1, <2>3 DEF TablesGrow
  <2>5. PassKnows(w)' /\ \A v \in Passes \ {w} : pass'[v] = pass[v]
    BY <1>8, <2>1, <2>4
  <2>6. RowsTrue'
    BY <1>1, <2>1, <2>3 DEF RowsTrue
  <2>7. \A n \in Numbers : retry[n].status = "none" =>
           retry'[n].status = "none" /\ (n \in files => n \in files')
    BY <2>1, <2>2
  <2> QED
    BY <2>1, <2>4, <2>5, <2>6, <2>7, StorePassStep
<1>10. CASE SaveFailure(w)
  <2>1. /\ UNCHANGED <<runs, files, stored, job>> /\ pass[w].at \in AtRow
        /\ pass' = [pass EXCEPT ![w] = Onwards(w)]
    BY <1>10 DEF SaveFailure, AtRow
  <2>2. Row(w) \in Numbers /\ retry[Row(w)].status # "none"
    BY <1>3, <2>1
  <2>3. retry'[Row(w)].status # "none" /\ \A n \in Numbers \ {Row(w)} : retry'[n] = retry[n]
    BY <1>2, <1>10, <2>2 DEF SaveFailure
  <2>4. TablesGrow
    BY <2>1, <2>2, <2>3 DEF TablesGrow
  <2>5. PassKnows(w)' /\ \A v \in Passes \ {w} : pass'[v] = pass[v]
    BY <1>8, <2>1, <2>4
  <2>6. RowsTrue'
    BY <1>1, <2>1, <2>2, <2>3 DEF RowsTrue
  <2>7. \A n \in Numbers : retry[n].status = "none" =>
           retry'[n].status = "none" /\ (n \in files => n \in files')
    BY <2>1, <2>2, <2>3
  <2> QED
    BY <2>1, <2>4, <2>5, <2>6, <2>7, StorePassStep
<1> QED
  BY <1>4, <1>6, <1>7, <1>9, <1>10 DEF Pass

\* Steps of the minutes, the handlers and a restart.
LEMMA StoreOthers ==
  ASSUME TypeInv, StoreInv,
         \/ Commit \/ (\E c \in Changes : Mark(c)) \/ Minute \/ Look
         \/ DecideEvent \/ DecideOther \/ Demand \/ Restart \/ UNCHANGED vars
  PROVE  StoreInv'
<1> USE DEF state, tables, world, counts
<1>1. UNCHANGED <<runs, retry, files, stored>>
  BY DEF Commit, Mark, Minute, Look, DecideEvent, DecideOther, Demand, Restart, vars
<1>2. \A t \in Triggers : job'[t] = job[t] \/ job'[t].at \notin WithRun
  <2>1. ASSUME NEW t \in Triggers, Ask(t), NEW u \in Triggers
        PROVE  job'[u] = job[u] \/ job'[u].at \notin WithRun
    <3>1. job'[t] = [at |-> "asked", run |-> 0] /\ (u # t => job'[u] = job[u])
      BY <2>1, AskStep
    <3>2. job'[t].at = "asked"
      BY <3>1
    <3> QED
      BY <3>1, <3>2 DEF WithRun
  <2>2. CASE Restart
    BY <2>2 DEF Restart, Idle, WithRun
  <2>3. CASE DecideEvent \/ DecideOther \/ Demand
    <3>1. Ask("event") \/ Ask("schedule") \/ Ask("manual") \/ UNCHANGED job
      BY <2>3 DEF DecideEvent, DecideOther, Demand
    <3> QED
      BY <2>1, <3>1 DEF Triggers
  <2>4. CASE Commit \/ (\E c \in Changes : Mark(c)) \/ Minute \/ Look \/ UNCHANGED vars
    BY <2>4 DEF Commit, Mark, Minute, Look, vars
  <2> QED
    BY <2>2, <2>3, <2>4
<1>3. \A w \in Passes : pass'[w] = pass[w] \/ pass'[w].at \in {"asked", "idle"}
  <2>1. CASE DecideOther
    <3>1. StartPass
      BY <2>1 DEF DecideOther
    <3> QED
      BY <3>1, StartStep
  <2>2. CASE Restart
    BY <2>2 DEF Restart, NoPass
  <2>3. CASE \/ Commit \/ (\E c \in Changes : Mark(c)) \/ Minute \/ Look
             \/ DecideEvent \/ Demand \/ UNCHANGED vars
    BY <2>3 DEF Commit, Mark, Minute, Look, DecideEvent, Demand, vars
  <2> QED
    BY <2>1, <2>2, <2>3
<1> QED
  BY <1>1, <1>2, <1>3, StoreQuiet DEF AtRow

LEMMA StoreInvariant == SafeSpec => []StoreInv
<1>1. Init => StoreInv
  <2> SUFFICES ASSUME Init PROVE StoreInv
    OBVIOUS
  <2>1. /\ \A t \in Triggers : job[t].at = "idle"
        /\ \A w \in Passes : pass[w].at = "idle"
        /\ \A n \in Numbers : runs[n].status = "none" /\ retry[n].status = "none"
    BY DEF Init, Idle, NoPass, NoRow
  <2> QED
    BY <2>1 DEF StoreInv, JobKnows, PassKnows, RowsTrue, WithRun, BeforeQueue, AtRow
<1>2. TypeInv /\ Exclusion /\ StoreInv /\ [Next]_vars => StoreInv'
  BY StoreOthers, StoreBackup, StorePass DEF Next
<1> QED
  BY <1>1, <1>2, TypeInvariant, ExclusionInvariant, PTL DEF SafeSpec

\* Whatever uploads fail, repeat or lose their answer, and wherever the process
\* is started again: a run that is a success has its package on the server.
THEOREM SuccessesAreStored == SafeSpec => []SuccessIsStored
<1>1. StoreInv => SuccessIsStored
  BY DEF StoreInv, RowsTrue, SuccessIsStored
<1> QED
  BY <1>1, StoreInvariant, PTL

\* However many passes overlap, a package that was queued or given up is on the
\* disk or on the server.
THEOREM QueuedPackagesStay == SafeSpec => []QueuedNotLost
<1>1. StoreInv => QueuedNotLost
  BY DEF StoreInv, RowsTrue, QueuedNotLost
<1> QED
  BY <1>1, StoreInvariant, PTL

-----------------------------------------------------------------------------
(* Changes reach the server. *)

\* A backup past its snapshot holds every change that has been marked, but for
\* the excused ones.
SnapshotHolds ==
  \A t \in Snapped : \A c \in 1 .. changes :
     c \in unmarked \/ c \in excused \/ Version(job[t].run) >= c

ChangeInv == Events => ChangesBackedUp /\ SnapshotHolds
Held(c) == \E n \in stored : Version(n) >= c

\* A step that neither commits nor marks, and clears the mark only when the
\* server holds every change that is marked.
LEMMA ChangesKept ==
  ASSUME TypeInv, TypeInv', ChangeInv, UNCHANGED <<changes, unmarked, excused>>,
         stored \subseteq stored',
         \A n \in Numbers : runs'[n].version \in {runs[n].version, changes},
         dirty' \/ ~dirty
            \/ \A c \in 1 .. changes : c \in unmarked \/ c \in excused \/ Held(c)',
         \A t \in Snapped' :
            \/ t \in Snapped /\ job[t].run \in Numbers /\ job'[t].run = job[t].run
            \/ job'[t].run \in Numbers /\ runs'[job'[t].run].version = changes
  PROVE  ChangeInv'
<1> SUFFICES ASSUME Events PROVE ChangesBackedUp' /\ SnapshotHolds'
  BY DEF ChangeInv, Events
<1>1. ChangesBackedUp /\ SnapshotHolds
  BY DEF ChangeInv
<1>2. /\ changes \in Nat /\ changes' = changes /\ unmarked' = unmarked /\ excused' = excused
      /\ stored \subseteq Numbers
  BY Plain, Bounds
<1>3. \A n \in Numbers : runs[n].version \in Nat
  BY Plain, Bounds DEF RunRows
<1>4. \A n \in Numbers : \A c \in 1 .. changes : runs[n].version >= c => runs'[n].version >= c
  BY <1>2, <1>3
<1>5. \A c \in 1 .. changes : Held(c) => Held(c)'
  BY <1>2, <1>4 DEF Held, Version
<1>6. \A c \in 1 .. changes : c \in unmarked \/ c \in excused \/ dirty \/ Held(c)
  BY <1>1 DEF ChangesBackedUp, Held
<1>7. \A c \in 1 .. changes : c \in unmarked' \/ c \in excused' \/ dirty' \/ Held(c)'
  BY <1>2, <1>5, <1>6
<1>8. ChangesBackedUp'
  BY <1>2, <1>7 DEF ChangesBackedUp, Held
<1>9. ASSUME NEW t \in Snapped', NEW c \in 1 .. changes, c \notin unmarked, c \notin excused
      PROVE  runs'[job'[t].run].version >= c
  <2>1. CASE t \in Snapped /\ job[t].run \in Numbers /\ job'[t].run = job[t].run
    BY <1>1, <1>4, <1>9, <2>1 DEF SnapshotHolds, Version
  <2>2. CASE runs'[job'[t].run].version = changes
    BY <1>2, <2>2
  <2> QED
    BY <2>1, <2>2
<1> QED
  BY <1>2, <1>8, <1>9 DEF SnapshotHolds, Version

\* A step that keeps changes, marks, versions and packages, and takes no
\* snapshot.
LEMMA ChangesQuiet ==
  ASSUME TypeInv, TypeInv', ChangeInv, UNCHANGED <<changes, unmarked, excused, dirty>>,
         stored \subseteq stored',
         \A n \in Numbers : runs'[n].version = runs[n].version,
         \A t \in Triggers :
            \/ job'[t].at \notin {"packed", "sent", "unsent", "queued"}
            \/ t \in Snapped /\ job'[t].run = job[t].run
  PROVE  ChangeInv'
<1>1. \A t \in Snapped : job[t].run \in Numbers
  BY DEF Snapped, TypeInv, WithRun
<1>2. \A t \in Snapped' : t \in Snapped /\ job[t].run \in Numbers /\ job'[t].run = job[t].run
  BY <1>1 DEF Snapped
<1>3. dirty' \/ ~dirty
  BY Plain
<1>4. \A n \in Numbers : runs'[n].version \in {runs[n].version, changes}
  OBVIOUS
<1> QED
  BY <1>2, <1>3, <1>4, ChangesKept

LEMMA ChangesCommit ==
  ASSUME TypeInv, ChangeInv, Commit
  PROVE  ChangeInv'
<1> USE DEF state, tables, world, counts
<1> SUFFICES ASSUME Events PROVE ChangesBackedUp' /\ SnapshotHolds'
  BY DEF ChangeInv, Events
<1>1. ChangesBackedUp /\ SnapshotHolds /\ changes \in Nat
  BY Plain, Bounds DEF ChangeInv
<1>2. /\ changes' = changes + 1 /\ unmarked' = unmarked \cup {changes + 1}
      /\ UNCHANGED <<dirty, excused, stored, runs, job>>
  BY DEF Commit
<1>3. \A c \in 1 .. changes' : c \in 1 .. changes \/ c \in unmarked'
  BY <1>1, <1>2
<1>4. ChangesBackedUp'
  BY <1>1, <1>2, <1>3 DEF ChangesBackedUp, Version
<1>5. SnapshotHolds'
  BY <1>1, <1>2, <1>3 DEF SnapshotHolds, Snapped, Version
<1> QED
  BY <1>4, <1>5

LEMMA ChangesMark ==
  ASSUME TypeInv, ChangeInv, NEW c \in Changes, Mark(c)
  PROVE  ChangeInv'
<1> USE DEF state, tables, world, counts
<1> SUFFICES ASSUME Events PROVE ChangesBackedUp' /\ SnapshotHolds'
  BY DEF ChangeInv, Events
<1>1. SnapshotHolds
  BY DEF ChangeInv
<1>2. /\ unmarked' = unmarked \ {c} /\ dirty'
      /\ UNCHANGED <<changes, stored, runs, job>> /\ excused \subseteq excused'
      /\ (\E t \in Snapped : Version(job[t].run) < c) => c \in excused'
  BY DEF Mark
<1>3. ChangesBackedUp'
  BY <1>2 DEF ChangesBackedUp
<1>4. ASSUME NEW t \in Snapped
      PROVE  Version(job[t].run) \in Nat /\ c \in Nat
  <2>1. job[t].run \in Numbers
    BY DEF TypeInv, WithRun, Snapped
  <2>2. runs[job[t].run] \in RunRows
    BY <2>1, Plain
  <2> QED
    BY <2>2, Bounds DEF Version, RunRows, Changes
<1>5. ASSUME NEW t \in Snapped, NEW d \in 1 .. changes
      PROVE  d \in unmarked' \/ d \in excused' \/ Version(job[t].run) >= d
  <2>1. CASE d = c
    BY <1>2, <1>4, <2>1
  <2>2. CASE d # c
    BY <1>1, <1>2, <2>2 DEF SnapshotHolds
  <2> QED
    BY <2>1, <2>2
<1>6. SnapshotHolds'
  BY <1>2, <1>5 DEF SnapshotHolds, Snapped, Version
<1> QED
  BY <1>3, <1>6

LEMMA ChangesBackup ==
  ASSUME TypeInv, TypeInv', Exclusion, StoreInv, ChangeInv, NEW t \in Triggers, Backup(t)
  PROVE  ChangeInv'
<1> USE DEF state, tables, world, counts
<1> DEFINE n == job[t].run
           late == {"packed", "sent", "unsent", "queued"}
<1>1. UNCHANGED <<changes, unmarked, excused>> /\ \A u \in Triggers \ {t} : job'[u] = job[u]
  BY FlagEffect DEF Backup, Begin, RecordFails, Record, Pack, Upload, Enqueue, Finish,
         FinishRun, Release
<1>2. \A u \in Triggers \ {t} :
         job'[u].at \notin late \/ (u \in Snapped /\ job'[u].run = job[u].run)
  BY <1>1 DEF Snapped
<1>3. job[t].at \in WithRun => n \in Numbers
  BY DEF TypeInv
<1>4. ASSUME NEW label \in WithRun, Goto(t, label), job[t].at \in WithRun
      PROVE  job'[t].at = label /\ job'[t].run = n
  <2>1. job'[t] = [at |-> label, run |-> job[t].run]
    BY <1>4, GotoStep
  <2> QED
    BY <2>1
<1>5. CASE Begin(t) \/ RecordFails(t) \/ Release(t)
  <2>1. UNCHANGED <<dirty, stored, runs>> /\ (job' = [job EXCEPT ![t] = Idle] \/ Goto(t, "begun"))
    BY <1>5 DEF Begin, RecordFails, Release
  <2>2. job'[t].at \notin late
    <3>1. CASE job' = [job EXCEPT ![t] = Idle]
      <4>1. job'[t] = Idle
        BY <3>1, IdleStep
      <4> QED
        BY <4>1 DEF Idle
    <3>2. CASE Goto(t, "begun")
      <4>1. job'[t] = [at |-> "begun", run |-> job[t].run]
        BY <3>2, GotoStep DEF WithRun
      <4>2. job'[t].at = "begun"
        BY <4>1
      <4> QED
        BY <4>2
    <3> QED
      BY <2>1, <3>1, <3>2
  <2> QED
    BY <1>1, <1>2, <2>1, <2>2, ChangesQuiet
<1>6. CASE Record(t)
  <2>1. PICK m \in Numbers :
           /\ runs' = [runs EXCEPT ![m].status = "running"]
           /\ job' = [job EXCEPT ![t] = [at |-> "recorded", run |-> m]]
    BY <1>6 DEF Record
  <2>2. UNCHANGED <<dirty, stored>>
    BY <1>6 DEF Record
  <2>3. \A k \in Numbers : runs'[k].version = runs[k].version
    <3>1. /\ runs'[m] = [status |-> "running", version |-> runs[m].version]
          /\ \A k \in Numbers \ {m} : runs'[k] = runs[k]
      BY <2>1, StatusStep
    <3>2. runs'[m].version = runs[m].version
      BY <3>1
    <3> QED
      BY <3>1, <3>2
  <2>4. job'[t].at \notin late
    <3>1. job'[t] = [at |-> "recorded", run |-> m]
      BY <2>1 DEF TypeInv, TypeOK
    <3>2. job'[t].at = "recorded"
      BY <3>1
    <3> QED
      BY <3>2
  <2> QED
    BY <1>1, <1>2, <2>2, <2>3, <2>4, ChangesQuiet
<1>7. CASE Pack(t)
  <2>1. /\ UNCHANGED <<dirty, stored>> /\ job[t].at \in WithRun
        /\ \/ Goto(t, "packed") /\ runs' = [runs EXCEPT ![n].version = changes]
           \/ Goto(t, "unpacked") /\ UNCHANGED runs
    BY <1>7 DEF Pack, WithRun
  <2>2. {"packed", "unpacked"} \subseteq WithRun
    BY DEF WithRun
  <2>3. CASE Goto(t, "unpacked") /\ UNCHANGED runs
    <3>1. job'[t].at = "unpacked"
      BY <1>4, <2>1, <2>2, <2>3
    <3> QED
      BY <1>1, <1>2, <2>1, <2>3, <3>1, ChangesQuiet
  <2>4. CASE Goto(t, "packed") /\ runs' = [runs EXCEPT ![n].version = changes]
    <3>1. job'[t].at = "packed" /\ job'[t].run = n /\ n \in Numbers
      BY <1>3, <1>4, <2>1, <2>2, <2>4
    <3>2. runs'[n].version = changes /\ \A k \in Numbers \ {n} : runs'[k] = runs[k]
      <4>1. /\ runs'[n] = [status |-> runs[n].status, version |-> changes]
            /\ \A k \in Numbers \ {n} : runs'[k] = runs[k]
        BY <2>4, <3>1, VersionStep
      <4>2. runs'[n].version = changes
        BY <4>1
      <4> QED
        BY <4>1, <4>2
    <3>3. \A k \in Numbers : runs'[k].version \in {runs[k].version, changes}
      BY <3>1, <3>2
    <3>4. \A u \in Snapped' :
             \/ u \in Snapped /\ job[u].run \in Numbers /\ job'[u].run = job[u].run
             \/ job'[u].run \in Numbers /\ runs'[job'[u].run].version = changes
      <4> TAKE u \in Snapped'
      <4>1. CASE u = t
        BY <3>1, <3>2, <4>1
      <4>2. CASE u # t
        BY <1>1, <4>2 DEF Snapped, TypeInv, WithRun
      <4> QED
        BY <4>1, <4>2
    <3>5. dirty' \/ ~dirty
      BY <2>1
    <3> HIDE DEF n, late
    <3> QED
      BY <1>1, <2>1, <3>3, <3>4, <3>5, ChangesKept
  <2> QED
    BY <2>1, <2>3, <2>4
<1>8. CASE Upload(t) \/ Enqueue(t)
  <2>1. /\ UNCHANGED <<dirty, runs>> /\ job[t].at \in WithRun /\ t \in Snapped
        /\ stored \subseteq stored'
        /\ \E label \in {"sent", "unsent", "queued"} : Goto(t, label)
    BY <1>8 DEF Upload, Enqueue, Answered, Unanswered, Refused, Snapped, WithRun
  <2>2. {"sent", "unsent", "queued"} \subseteq WithRun
    BY DEF WithRun
  <2>3. job'[t].run = n
    BY <1>4, <2>1, <2>2
  <2> QED
    BY <1>1, <1>2, <2>1, <2>3, ChangesQuiet
<1>9. CASE Finish(t)
  <2> DEFINE status == IF job[t].at = "sent" THEN "success" ELSE "failed"
  <2>1. /\ job[t].at \in WithRun /\ "ended" \in WithRun /\ UNCHANGED stored
        /\ runs' = [runs EXCEPT ![n].status = status] \/ UNCHANGED runs
        /\ Goto(t, "ended") /\ dirty' = (dirty /\ job[t].at # "sent")
    BY <1>9 DEF Finish, FinishRun, WithRun
  <2>2. n \in Numbers /\ status \in {"running", "success", "failed"}
    BY <1>3, <2>1
  <2>3. \A k \in Numbers : runs'[k].version = runs[k].version
    <3> HIDE DEF status, n
    <3> QED
      BY <2>1, <2>2, StatusOrNot
  <2>4. job'[t].at = "ended"
    BY <1>4, <2>1
  <2>5. CASE job[t].at # "sent"
    <3>1. dirty' = dirty
      BY <2>1, <2>5, Plain
    <3> QED
      BY <1>1, <1>2, <2>1, <2>3, <2>4, <3>1, ChangesQuiet
  <2>6. CASE job[t].at = "sent"
    <3> SUFFICES ASSUME Events PROVE ChangeInv'
      BY DEF ChangeInv, Events
    <3>1. t \in Snapped /\ n \in stored
      BY <2>6 DEF Snapped, StoreInv, JobKnows
    <3>2. \A c \in 1 .. changes : c \in unmarked \/ c \in excused \/ Held(c)'
      BY <1>1, <2>1, <2>2, <2>3, <3>1 DEF ChangeInv, SnapshotHolds, Held, Version
    <3>3. \A u \in Snapped' : u \in Snapped /\ job[u].run \in Numbers /\ job'[u].run = job[u].run
      BY <1>1, <2>4 DEF Snapped, TypeInv, WithRun
    <3>4. \A k \in Numbers : runs'[k].version \in {runs[k].version, changes}
      BY <2>3
    <3> HIDE DEF n, late, status
    <3> QED
      BY <1>1, <2>1, <3>2, <3>3, <3>4, ChangesKept
  <2> QED
    BY <2>5, <2>6
<1> QED
  BY <1>5, <1>6, <1>7, <1>8, <1>9 DEF Backup

LEMMA ChangesOthers ==
  ASSUME TypeInv, TypeInv', ChangeInv,
         \/ Minute \/ Look \/ DecideEvent \/ DecideOther \/ Demand
         \/ (\E w \in Passes : Pass(w)) \/ UNCHANGED vars
  PROVE  ChangeInv'
<1> USE DEF state, tables, world, counts
<1>1. UNCHANGED <<changes, unmarked, excused, dirty>> /\ stored \subseteq stored'
  BY DEF Minute, Look, DecideEvent, DecideOther, Demand, vars, Pass, Fetch, Send, SaveDone,
         Settle, SaveFailure, Answered, Unanswered, Refused
<1>2. \A n \in Numbers : runs'[n].version = runs[n].version
  <2>1. ASSUME NEW w \in Passes, Settle(w)
        PROVE  \A n \in Numbers : runs'[n].version = runs[n].version
    <3>1. /\ pass[w].at \in AtRow
          /\ runs' = [runs EXCEPT ![Row(w)].status = "success"] \/ UNCHANGED runs
      BY <2>1 DEF Settle, AtRow
    <3>2. Row(w) \in Numbers
      BY <3>1, RowFact DEF TypeInv, TypeOK, PassLocals
    <3> QED
      BY <3>1, <3>2, StatusOrNot
  <2>2. UNCHANGED runs \/ \E w \in Passes : Settle(w)
    BY DEF Minute, Look, DecideEvent, DecideOther, Demand, vars, Pass, Fetch, Send, SaveDone,
           SaveFailure
  <2> QED
    BY <2>1, <2>2
<1>3. \A t \in Triggers :
         \/ job'[t].at \notin {"packed", "sent", "unsent", "queued"}
         \/ t \in Snapped /\ job'[t].run = job[t].run
  <2>1. ASSUME NEW t \in Triggers, Ask(t), NEW u \in Triggers
        PROVE  \/ job'[u].at \notin {"packed", "sent", "unsent", "queued"}
               \/ u \in Snapped /\ job'[u].run = job[u].run
    <3>1. job'[t] = [at |-> "asked", run |-> 0] /\ (u # t => job'[u] = job[u])
      BY <2>1, AskStep
    <3>2. job'[t].at = "asked"
      BY <3>1
    <3> QED
      BY <3>1, <3>2 DEF Snapped
  <2>2. Ask("event") \/ Ask("schedule") \/ Ask("manual") \/ UNCHANGED job
    BY DEF Minute, Look, DecideEvent, DecideOther, Demand, vars, Pass, Fetch, Send, SaveDone,
           Settle, SaveFailure
  <2>3. UNCHANGED job => \A t \in Triggers :
           \/ job'[t].at \notin {"packed", "sent", "unsent", "queued"}
           \/ t \in Snapped /\ job'[t].run = job[t].run
    BY DEF Snapped
  <2> QED
    BY <2>1, <2>2, <2>3 DEF Triggers
<1> QED
  BY <1>1, <1>2, <1>3, ChangesQuiet

LEMMA ChangesRestart ==
  ASSUME Restart
  PROVE  ChangeInv'
<1>1. excused' = 1 .. changes' /\ \A t \in Triggers : job'[t].at = "idle"
  BY DEF Restart, Idle
<1>2. ChangesBackedUp' /\ SnapshotHolds'
  BY <1>1 DEF ChangesBackedUp, SnapshotHolds, Snapped
<1> QED
  BY <1>2 DEF ChangeInv

LEMMA ChangeInvariant == SafeSpec => []ChangeInv
<1>1. Init => ChangeInv
  BY DEF Init, Idle, ChangeInv, ChangesBackedUp, SnapshotHolds, Snapped
<1>2. TypeInv /\ TypeInv' /\ Exclusion /\ StoreInv /\ ChangeInv /\ [Next]_vars => ChangeInv'
  BY ChangesCommit, ChangesMark, ChangesBackup, ChangesOthers, ChangesRestart DEF Next
<1> QED
  BY <1>1, <1>2, TypeInvariant, ExclusionInvariant, StoreInvariant, PTL DEF SafeSpec

\* Where marks start backups: a change that was committed is yet to be marked,
\* or marked, or held by a package on the server, or it was marked while a
\* backup was past its snapshot, or there was a restart since.
THEOREM ChangesReachTheServer == SafeSpec => []ChangesBackedUp
<1>1. ChangeInv => ChangesBackedUp
  BY DEF ChangeInv, ChangesBackedUp
<1> QED
  BY <1>1, ChangeInvariant, PTL

-----------------------------------------------------------------------------
(* One pass at a time. *)

\* A pass that is alone has copies of rows as they are in the table; the row
\* whose package it has sent may still be pending if it could not be written.
RowsFresh(w) ==
  pass[w].at \in AtRow =>
    \A n \in pass[w].rows :
      \/ retry[n].status = "pending" /\ (pass[w].at = "saved" /\ n = Row(w) => n \in unsaved)
      \/ retry[n].status = "done" /\ pass[w].at = "saved" /\ n = Row(w)

QueueInv == PackageKept /\ \A w \in Passes : RowsFresh(w)

\* A row of the queue is taken back by nobody.
DoneKept == \A n \in Numbers : retry[n].status = "done" => retry'[n].status = "done"

\* A backup gives the queue a row it has not, with its package, and takes away
\* no package that has a row.
LEMMA QueueBackup ==
  ASSUME TypeInv, StoreInv, QueueInv, NEW t \in Triggers, Backup(t)
  PROVE  QueueInv' /\ DoneKept
<1> USE DEF state, tables, world, counts
<1> DEFINE n == job[t].run
<1>1. UNCHANGED <<pass, unsaved>> /\ stored \subseteq stored'
  BY DEF Backup, Begin, RecordFails, Record, Pack, Upload, Enqueue, Finish,
         FinishRun, Release, Answered, Unanswered, Refused
<1>2. JobKnows(t) /\ (\A w \in Passes : PassKnows(w)) /\ (job[t].at \in WithRun => n \in Numbers)
  BY DEF StoreInv, TypeInv
<1>3. retry \in [Numbers -> RetryRows]
  BY DEF TypeInv, TypeOK
<1>4. \/ UNCHANGED retry
      \/ /\ n \in Numbers /\ retry[n].status = "none" /\ n \in files /\ UNCHANGED files
         /\ retry' = [retry EXCEPT ![n] = [status |-> "pending", count |-> 0]]
  <2>1. CASE Enqueue(t)
    BY <1>2, <2>1 DEF Enqueue, JobKnows, BeforeQueue, WithRun
  <2>2. CASE ~Enqueue(t)
    BY <2>2 DEF Backup, Begin, RecordFails, Record, Pack, Upload, Finish, FinishRun, Release
  <2> QED
    BY <2>1, <2>2
<1>5. files \subseteq files' \/ (retry[n].status = "none" /\ n \in Numbers /\ files' = files \ {n})
  <2>1. CASE Finish(t)
    BY <1>2, <2>1 DEF Finish, FinishRun, JobKnows, BeforeQueue, WithRun
  <2>2. CASE ~Finish(t)
    BY <2>2 DEF Backup, Begin, RecordFails, Record, Pack, Upload, Enqueue, Release
  <2> QED
    BY <2>1, <2>2
<1>6. \A m \in Numbers : \/ retry'[m] = retry[m]
                         \/ m = n /\ retry[n].status = "none" /\ n \in files /\ UNCHANGED files
  BY <1>3, <1>4
<1> HIDE DEF n
<1>7. PackageKept'
  BY <1>1, <1>5, <1>6 DEF QueueInv, PackageKept, Pending
<1>8. ASSUME NEW w \in Passes PROVE RowsFresh(w)'
  <2>1. /\ pass'[w] = pass[w] /\ Row(w)' = Row(w) /\ RowsFresh(w)
        /\ pass[w].rows \subseteq Numbers
    BY <1>1 DEF Row, QueueInv, TypeInv, TypeOK, PassLocals
  <2>2. pass[w].at \in AtRow => \A m \in pass[w].rows : retry'[m] = retry[m]
    BY <1>2, <1>6, <2>1 DEF PassKnows
  <2> QED
    BY <1>1, <2>1, <2>2 DEF RowsFresh
<1>9. DoneKept
  BY <1>6 DEF DoneKept
<1> QED
  BY <1>7, <1>8, <1>9 DEF QueueInv

LEMMA OnwardsRows ==
  ASSUME NEW w \in Passes, Onwards(w).at \in AtRow
  PROVE  Onwards(w).at = "send" /\ Onwards(w).rows = Rest(w)
BY DEF Onwards, NoPass, AtRow

\* The pass that is alone has taken a step with its row.
LEMMA QueuePass ==
  ASSUME \A v, w \in Passes : v = w, TypeInv, StoreInv, QueueInv,
         NEW w \in Passes, Pass(w)
  PROVE  QueueInv' /\ DoneKept
<1> USE DEF state, tables, world, counts
<1>1. /\ pass \in [Passes -> PassLocals] /\ pass[w].rows \subseteq Numbers
      /\ retry \in [Numbers -> RetryRows] /\ RowsFresh(w) /\ PackageKept /\ PassKnows(w)
  BY DEF TypeInv, TypeOK, PassLocals, QueueInv, StoreInv
<1>2. pass[w].at \in AtRow => Row(w) \in Numbers /\ Row(w) \in pass[w].rows
  BY <1>1, RowFact DEF TypeInv
<1>3. ASSUME RowsFresh(w)' PROVE \A v \in Passes : RowsFresh(v)'
  BY <1>3
<1>4. CASE Fetch(w)
  <2>1. UNCHANGED <<retry, files, stored, unsaved>>
    BY <1>4 DEF Fetch
  <2>2. PackageKept' /\ DoneKept
    BY <1>1, <2>1 DEF PackageKept, Pending, DoneKept
  <2>3. RowsFresh(w)'
    <3>1. CASE pass' = [pass EXCEPT ![w] = NoPass]
      BY <1>1, <3>1 DEF NoPass, AtRow, RowsFresh
    <3>2. ASSUME NEW due \in (SUBSET Pending) \ {{}}, NEW count,
                 pass' = [pass EXCEPT ![w] = [at |-> "send", count |-> count, rows |-> due]]
          PROVE  RowsFresh(w)'
      <4>1. pass'[w] = [at |-> "send", count |-> count, rows |-> due]
        BY <1>1, <3>2
      <4>2. pass'[w].at = "send" /\ pass'[w].rows = due
        BY <4>1
      <4> QED
        BY <2>1, <4>2 DEF Pending, RowsFresh
    <3> QED
      BY <1>4, <3>1, <3>2 DEF Fetch
  <2> QED
    BY <1>3, <2>2, <2>3 DEF QueueInv
<1>5. ASSUME pass[w].at \in AtRow, NEW label \in AtRow, pass' = [pass EXCEPT ![w].at = label]
      PROVE  pass'[w].at = label /\ pass'[w].rows = pass[w].rows /\ Row(w)' = Row(w)
  <2>1. pass'[w] = [at |-> label, count |-> pass[w].count, rows |-> pass[w].rows]
    BY <1>5, MoveStep
  <2>2. pass'[w].at = label /\ pass'[w].rows = pass[w].rows
    BY <2>1
  <2> QED
    BY <2>2 DEF Row
<1>6. CASE Send(w)
  <2>1. /\ UNCHANGED <<retry, files, unsaved>> /\ stored \subseteq stored'
        /\ pass[w].at \in AtRow /\ pass[w].at = "send"
    BY <1>6 DEF Send, AtRow, Answered, Unanswered, Refused
  <2>2. PICK label \in {"sent", "unsent"} : pass' = [pass EXCEPT ![w].at = label]
    BY <1>6 DEF Send
  <2>3. pass'[w].at = label /\ pass'[w].rows = pass[w].rows
    BY <1>5, <2>1, <2>2 DEF AtRow
  <2>4. RowsFresh(w)'
    BY <1>1, <2>1, <2>2, <2>3 DEF RowsFresh
  <2>5. PackageKept' /\ DoneKept
    BY <1>1, <2>1 DEF PackageKept, Pending, DoneKept
  <2> QED
    BY <1>3, <2>4, <2>5 DEF QueueInv
<1>7. CASE SaveDone(w)
  <2>1. /\ UNCHANGED <<files, stored>> /\ pass[w].at \in AtRow /\ pass[w].at = "sent"
        /\ pass' = [pass EXCEPT ![w].at = "saved"]
    BY <1>7 DEF SaveDone, AtRow
  <2>2. /\ pass'[w].at = "saved" /\ pass'[w].rows = pass[w].rows /\ Row(w)' = Row(w)
    BY <1>5, <2>1 DEF AtRow
  <2>3. /\ \/ retry'[Row(w)].status = "done" /\ UNCHANGED unsaved
           \/ UNCHANGED retry /\ unsaved' = unsaved \cup {Row(w)}
        /\ \A n \in Numbers \ {Row(w)} : retry'[n] = retry[n]
    BY <1>1, <1>2, <1>7, <2>1 DEF SaveDone
  <2>4. \A n \in pass[w].rows : retry[n].status = "pending"
    BY <1>1, <2>1 DEF RowsFresh
  <2>5. RowsFresh(w)'
    BY <1>1, <1>2, <2>1, <2>2, <2>3, <2>4 DEF RowsFresh
  <2>6. PackageKept' /\ DoneKept
    BY <1>1, <2>1, <2>3 DEF PackageKept, Pending, DoneKept
  <2> QED
    BY <1>3, <2>5, <2>6 DEF QueueInv
<1>8. ASSUME pass[w].at \in AtRow, pass' = [pass EXCEPT ![w] = Onwards(w)],
             \A n \in Rest(w) : retry[n].status = "pending",
             \A n \in Numbers \ {Row(w)} : retry'[n] = retry[n]
      PROVE  RowsFresh(w)'
  <2>1. pass'[w] = Onwards(w)
    BY <1>1, <1>8
  <2>2. Rest(w) \subseteq Numbers \ {Row(w)}
    BY <1>1 DEF Rest
  <2> QED
    BY <1>8, <2>1, <2>2, OnwardsRows DEF RowsFresh
<1>9. CASE Settle(w)
  <2>1. /\ UNCHANGED <<retry, stored, unsaved>>
        /\ pass[w].at \in AtRow /\ pass[w].at = "saved"
        /\ pass' = [pass EXCEPT ![w] = Onwards(w)] /\ files' = files \ {Row(w)}
    BY <1>9 DEF Settle, AtRow
  <2>2. /\ retry[Row(w)].status = "pending" => Row(w) \in unsaved \cap stored
        /\ \A n \in Rest(w) : retry[n].status = "pending"
    BY <1>1, <1>2, <2>1 DEF RowsFresh, Rest, PassKnows
  <2>3. RowsFresh(w)'
    BY <1>8, <2>1, <2>2
  <2>4. PackageKept' /\ DoneKept
    BY <1>1, <2>1, <2>2 DEF PackageKept, Pending, DoneKept
  <2> QED
    BY <1>3, <2>3, <2>4 DEF QueueInv
<1>10. CASE SaveFailure(w)
  <2>1. /\ UNCHANGED world /\ pass[w].at \in AtRow /\ pass[w].at = "unsent"
        /\ pass' = [pass EXCEPT ![w] = Onwards(w)]
    BY <1>10 DEF SaveFailure, AtRow
  <2>2. retry[Row(w)].status = "pending" /\ \A n \in Rest(w) : retry[n].status = "pending"
    BY <1>1, <1>2, <2>1 DEF RowsFresh, Rest
  <2>3. \A n \in Numbers \ {Row(w)} : retry'[n] = retry[n]
    BY <1>1, <1>10 DEF SaveFailure
  <2>4. RowsFresh(w)'
    BY <1>8, <2>1, <2>2, <2>3
  <2>5. PackageKept' /\ DoneKept
    BY <1>1, <1>2, <2>1, <2>2, <2>3 DEF PackageKept, Pending, DoneKept
  <2> QED
    BY <1>3, <2>4, <2>5 DEF QueueInv
<1> QED
  BY <1>4, <1>6, <1>7, <1>9, <1>10 DEF Pass

LEMMA QueueOthers ==
  ASSUME TypeInv, QueueInv,
         \/ Commit \/ (\E c \in Changes : Mark(c)) \/ Minute \/ Look
         \/ DecideEvent \/ DecideOther \/ Demand \/ Restart \/ UNCHANGED vars
  PROVE  QueueInv' /\ DoneKept
<1> USE DEF state, tables, world, counts
<1>1. UNCHANGED <<retry, world>>
  BY DEF Commit, Mark, Minute, Look, DecideEvent, DecideOther, Demand, Restart, vars
<1>2. \A w \in Passes : pass'[w] = pass[w] \/ pass'[w].at \in {"asked", "idle"}
  <2>1. CASE DecideOther
    <3>1. StartPass
      BY <2>1 DEF DecideOther
    <3> QED
      BY <3>1, StartStep
  <2>2. CASE Restart
    BY <2>2 DEF Restart, NoPass
  <2>3. CASE \/ Commit \/ (\E c \in Changes : Mark(c)) \/ Minute \/ Look
             \/ DecideEvent \/ Demand \/ UNCHANGED vars
    BY <2>3 DEF Commit, Mark, Minute, Look, DecideEvent, Demand, vars
  <2> QED
    BY <2>1, <2>2, <2>3
<1>3. PackageKept' /\ DoneKept
  BY <1>1 DEF QueueInv, PackageKept, Pending, DoneKept
<1>4. ASSUME NEW w \in Passes PROVE RowsFresh(w)'
  <2>1. CASE pass'[w] = pass[w]
    BY <1>1, <2>1 DEF QueueInv, RowsFresh, Row
  <2>2. CASE pass'[w].at \in {"asked", "idle"}
    BY <2>2 DEF RowsFresh, AtRow
  <2> QED
    BY <1>2, <2>1, <2>2
<1> QED
  BY <1>3, <1>4 DEF QueueInv

LEMMA QueueStep ==
  ASSUME \A v, w \in Passes : v = w, TypeInv, StoreInv, QueueInv, [Next]_vars
  PROVE  QueueInv' /\ DoneKept
BY QueueBackup, QueuePass, QueueOthers DEF Next

LEMMA QueueInvariant ==
  ASSUME \A v, w \in Passes : v = w
  PROVE  SafeSpec => []QueueInv
<1>1. Init => QueueInv
  BY DEF Init, NoPass, AtRow, QueueInv, PackageKept, Pending, RowsFresh
<1>2. TypeInv /\ StoreInv /\ QueueInv /\ [Next]_vars => QueueInv'
  BY QueueStep
<1> QED
  BY <1>1, <1>2, TypeInvariant, StoreInvariant, PTL DEF SafeSpec

\* As long as passes over the queue do not overlap, and whatever calls and
\* statements fail: the package of a row that is still to be uploaded stays on
\* the disk, unless it is on the server and only its "done" could not be written.
THEOREM PendingPackagesStay ==
  ASSUME \A v, w \in Passes : v = w
  PROVE  SafeSpec => []PackageKept
<1>1. QueueInv => PackageKept
  BY DEF QueueInv
<1> QED
  BY <1>1, QueueInvariant, PTL

\* As long as passes over the queue do not overlap: a row that was settled is not
\* opened again.
THEOREM SettledRowsStay ==
  ASSUME \A v, w \in Passes : v = w
  PROVE  SafeSpec => DoneStaysDone
<1>1. TypeInv /\ StoreInv /\ QueueInv /\ [Next]_vars => [DoneKept]_vars
  BY QueueStep
<1>2. SafeSpec => [][DoneKept]_vars
  BY <1>1, TypeInvariant, StoreInvariant, QueueInvariant, PTL DEF SafeSpec
<1> QED
  BY <1>2 DEF DoneStaysDone, DoneKept
=============================================================================
