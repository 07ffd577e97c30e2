--------------------------- MODULE CheckinProofs ---------------------------
(***************************************************************************)
(* Proofs about CheckinRun, for any number of providers, goroutines, days, *)
(* requests and faults.                                                    *)
(***************************************************************************)
EXTENDS CheckinRun, TLAPS

\* Does a goroutine with these locals hold the guard?
Holds(l) == l.trigger # "manual-provider" /\ l.pc \in {"load", "insert", "ask", "stamp", "release"}

LEMMA TaskEffect ==
  ASSUME TypeOK, NEW g \in Tasks, NEW l \in Locals, task' = [task EXCEPT ![g] = l]
  PROVE  /\ task' \in [Tasks -> Locals]
         /\ task'[g] = l
         /\ \A h \in Tasks \ {g} : task'[h] = task[h]
BY DEF TypeOK

\* A step of g that leaves the guard alone, takes it or gives it back.
LEMMA GuardEffect ==
  ASSUME TypeOK, OneRunAtATime, NEW g \in Tasks, NEW l \in Locals,
         task' = [task EXCEPT ![g] = l],
         \/ (Holds(l) <=> InRun(g)) /\ guard' = guard
         \/ Holds(l) /\ ~guard /\ guard' = TRUE
         \/ ~Holds(l) /\ InRun(g) /\ guard' = FALSE
  PROVE  OneRunAtATime'
<1>1. InRun(g)' <=> Holds(l)
  BY TaskEffect DEF InRun, Holds, Guarded
<1>2. \A h \in Tasks \ {g} : InRun(h)' <=> InRun(h)
  BY TaskEffect DEF InRun, Guarded
<1>3. \A h, k \in Tasks : InRun(h) /\ InRun(k) => h = k
  BY DEF OneRunAtATime
<1>4. guard <=> \E h \in Tasks : InRun(h)
  BY DEF OneRunAtATime
<1> HIDE DEF InRun, Holds
<1>5. \A h, k \in Tasks : InRun(h)' /\ InRun(k)' => h = k
  BY <1>1, <1>2, <1>3, <1>4
<1>6. guard' <=> \E h \in Tasks : InRun(h)'
  BY <1>1, <1>2, <1>3, <1>4
<1> QED
  BY <1>5, <1>6 DEF OneRunAtATime

\* What a step may do to what the runs have left behind.
HistoryKept ==
  /\ Len(rows) \in Nat /\ Len(rows') \in Nat /\ Len(rows) <= Len(rows')
  /\ \A i \in 1 .. Len(rows) : rows'[i].targets = rows[i].targets /\ rows'[i].day = rows[i].day
  /\ answers \subseteq answers'
  /\ day \in Nat /\ day' \in Nat /\ day <= day'

LEMMA AskingKept ==
  ASSUME TypeOK, HistoryKept, NEW g \in Tasks, Asking(g), task'[g] = task[g]
  PROVE  Asking(g)'
<1>1. /\ day \in Nat /\ day' \in Nat /\ day <= day' /\ answers \subseteq answers'
      /\ Len(rows) \in Nat /\ Len(rows') \in Nat /\ Len(rows) <= Len(rows')
  BY DEF HistoryKept
<1>2. task[g].runDay \in Nat
  BY DEF TypeOK, Locals, Days
<1>3. /\ task'[g].pc \in {"query", "acquire", "load", "release", "note"} => Guarded(g)'
      /\ task'[g].pc \in {"query", "acquire", "load", "insert"} => task'[g].row = 0
  BY DEF Asking, At, Guarded
<1>4. ASSUME task'[g].pc \in {"ask", "stamp"}
      PROVE  LET run == rows'[task'[g].row]
             IN /\ task'[g].row \in 1 .. Len(rows')
                /\ ~task'[g].failed =>
                      \A p \in run.targets \ task'[g].todo :
                         \E d \in run.day .. MaxDay : <<p, d, "granted">> \in answers'
  <2>1. task[g].row \in 1 .. Len(rows)
    BY <1>4 DEF Asking
  <2>2. /\ rows'[task[g].row].targets = rows[task[g].row].targets
        /\ rows'[task[g].row].day = rows[task[g].row].day
    BY <2>1 DEF HistoryKept
  <2>3. ~task[g].failed =>
           \A p \in rows[task[g].row].targets \ task[g].todo :
              \E d \in rows[task[g].row].day .. MaxDay : <<p, d, "granted">> \in answers
    BY <1>4 DEF Asking
  <2> QED
    BY <1>1, <2>1, <2>2, <2>3
<1>5. ASSUME At(g, "stamp")'
      PROVE  \A p \in task'[g].granter : \E d \in 1 .. day' : <<p, d, "granted">> \in answers'
  <2>1. \A p \in task[g].granter : \E d \in 1 .. day : <<p, d, "granted">> \in answers
    BY <1>5 DEF Asking, At
  <2>2. \A d \in 1 .. day : d \in 1 .. day'
    BY <1>1
  <2> QED
    BY <1>1, <2>1, <2>2
<1>6. task'[g].runDay <= day'
  BY <1>1, <1>2 DEF Asking
<1> QED
  BY <1>3, <1>4, <1>5, <1>6 DEF Asking

\* A step of g that touches neither the rows nor the answers nor the stamps.
LEMMA QuietStep ==
  ASSUME CheckinInv, NEW g \in Tasks, NEW l \in Locals,
         task' = [task EXCEPT ![g] = l],
         UNCHANGED <<clock, rows, answers, checkedIn>>,
         guard' \in BOOLEAN, lastRunDay' \in Days, enabled' \subseteq Providers,
         manuals' \in 0 .. MaxManual, faults' \in 0 .. MaxFaults,
         \/ (Holds(l) <=> InRun(g)) /\ guard' = guard
         \/ Holds(l) /\ ~guard /\ guard' = TRUE
         \/ ~Holds(l) /\ InRun(g) /\ guard' = FALSE,
         l.pc \notin {"ask", "stamp"},
         l.pc \in {"query", "acquire", "load", "release", "note"} => l.trigger # "manual-provider",
         l.pc \in {"query", "acquire", "load", "insert"} => l.row = 0,
         l.runDay <= day
  PROVE  CheckinInv'
<1> USE DEF CheckinInv
<1>1. /\ task' \in [Tasks -> Locals]
      /\ task'[g] = l
      /\ \A h \in Tasks \ {g} : task'[h] = task[h]
  BY TaskEffect
<1>2. UNCHANGED <<day, due, rows, answers, checkedIn>>
  BY DEF clock
<1>3. TypeOK'
  BY <1>1, <1>2 DEF TypeOK
<1>4. OneRunAtATime'
  BY GuardEffect
<1>5. \A h \in Tasks : Asking(h)'
  <2> TAKE h \in Tasks
  <2>1. CASE h = g
    BY <2>1, <1>1, <1>2 DEF Asking, At, Guarded
  <2>2. CASE h # g
    <3>1. HistoryKept
      <4>1. rows \in Seq(Runs) /\ day \in Nat
        BY DEF TypeOK, Days
      <4> QED
        BY <4>1, <1>2 DEF HistoryKept
    <3> QED
      BY <2>2, <3>1, <1>1, AskingKept
  <2> QED
    BY <2>1, <2>2
<1>6. (\A i \in 1 .. Len(rows') : rows'[i].day <= day') /\ SuccessMeansGranted' /\ CheckedInWasGranted'
  BY <1>2 DEF SuccessMeansGranted, CheckedInWasGranted
<1> QED
  BY <1>3, <1>4, <1>5, <1>6

-----------------------------------------------------------------------------
(* The quiet steps. *)

LEMMA FaultBound ==
  ASSUME TypeOK, Fault \/ UNCHANGED faults
  PROVE  faults' \in 0 .. MaxFaults
<1>1. faults \in 0 .. MaxFaults /\ MaxFaults \in Nat
  BY CheckinAssumption DEF TypeOK
<1> QED
  BY <1>1 DEF Fault

LEMMA IdleFacts ==
  Idle \in Locals /\ ~Holds(Idle) /\ Idle.pc = "idle" /\ Idle.runDay = 0
BY CheckinAssumption DEF Idle, Fresh, Locals, Triggers, Days, Holds

\* A goroutine's own locals with another label.
LEMMA Relabelled ==
  ASSUME TypeOK, NEW g \in Tasks,
         NEW label \in {"idle", "query", "acquire", "load", "insert", "ask", "stamp", "release", "note"}
  PROVE  LET l == [task[g] EXCEPT !.pc = label]
         IN /\ l \in Locals
            /\ l.pc = label /\ l.trigger = task[g].trigger /\ l.runDay = task[g].runDay
            /\ l.row = task[g].row /\ l.day = task[g].day
            /\ task[g].trigger \in Triggers /\ task[g].runDay \in Days
            /\ GoTo(g, label) => task' = [task EXCEPT ![g] = l]
<1>1. task[g] \in Locals
  BY DEF TypeOK
<1> QED
  BY <1>1 DEF Locals, GoTo, TypeOK

LEMMA RunScheduledStep ==
  ASSUME CheckinInv, NEW g \in Tasks, RunScheduledCheckinIfNeeded(g)
  PROVE  CheckinInv'
<1> DEFINE l == Fresh("cron", "query", day, 0, {})
<1>1. day \in Days /\ day >= 0
  BY CheckinAssumption DEF CheckinInv, TypeOK, Days
<1>2. l = [pc |-> "query", trigger |-> "cron", day |-> day, runDay |-> 0, todo |-> {},
           granter |-> {}, row |-> 0, failed |-> FALSE]
  BY DEF Fresh
<1> HIDE DEF l
<1>6. l \in Locals /\ l.pc = "query" /\ l.trigger = "cron" /\ l.runDay = 0
      /\ l.row = 0
  BY <1>1, <1>2, CheckinAssumption DEF Locals, Triggers, Days
<1>3. ~Holds(l) /\ ~InRun(g)
  BY <1>6 DEF Holds, InRun, RunScheduledCheckinIfNeeded, At
<1>4. /\ task' = [task EXCEPT ![g] = l]
      /\ UNCHANGED <<clock, rows, answers, checkedIn, guard, lastRunDay, enabled, manuals, faults>>
  BY DEF RunScheduledCheckinIfNeeded, memory, table, l
<1>5. /\ guard' \in BOOLEAN /\ lastRunDay' \in Days /\ enabled' \subseteq Providers
      /\ manuals' \in 0 .. MaxManual /\ faults' \in 0 .. MaxFaults
  BY <1>4 DEF CheckinInv, TypeOK
<1> QED
  BY <1>1, <1>6, <1>3, <1>4, <1>5, QuietStep

LEMMA QueryStep ==
  ASSUME CheckinInv, NEW g \in Tasks, Query(g)
  PROVE  CheckinInv'
<1>1. ~InRun(g) /\ day >= 0 /\ task[g].day \in Days /\ TypeOK
  BY CheckinAssumption DEF Query, At, InRun, CheckinInv, TypeOK, Days, Locals
<1>2. /\ UNCHANGED <<clock, rows, answers, checkedIn, guard, enabled, manuals>>
      /\ lastRunDay' \in Days /\ guard' \in BOOLEAN /\ enabled' \subseteq Providers
      /\ manuals' \in 0 .. MaxManual
  BY <1>1 DEF Query, table, CheckinInv, TypeOK
<1>3. faults' \in 0 .. MaxFaults
  BY <1>1, FaultBound DEF Query
<1>4. CASE Return(g)
  BY <1>1, <1>2, <1>3, <1>4, IdleFacts, QuietStep DEF Return
<1>5. CASE GoTo(g, "acquire")
  <2> DEFINE l == [task[g] EXCEPT !.pc = "acquire"]
  <2>1. l \in Locals /\ l.pc = "acquire" /\ l.runDay = task[g].runDay
        /\ l.row = task[g].row /\ l.trigger = task[g].trigger /\ task' = [task EXCEPT ![g] = l]
    BY <1>1, <1>5, Relabelled
  <2>2. ~Holds(l) /\ l.runDay <= day /\ l.trigger # "manual-provider" /\ l.row = 0
    BY <2>1 DEF Holds, CheckinInv, Asking, Guarded, Query, At
  <2> HIDE DEF l
  <2> QED
    BY <1>1, <1>2, <1>3, <2>1, <2>2, QuietStep
<1> QED
  BY <1>4, <1>5 DEF Query

LEMMA RequestStep ==
  ASSUME CheckinInv, NEW g \in Tasks, Request(g)
  PROVE  CheckinInv'
<1>1. ASSUME NEW l \in Locals, Begin(g, l), ~Holds(l), l.pc \notin {"ask", "stamp"},
             l.pc \in {"query", "acquire", "load", "release", "note"} => l.trigger # "manual-provider",
             l.pc \in {"query", "acquire", "load", "insert"} => l.row = 0, l.runDay <= day
      PROVE  CheckinInv'
  <2>1. ~InRun(g)
    BY <1>1 DEF Begin, At, InRun
  <2>2. /\ task' = [task EXCEPT ![g] = l]
        /\ UNCHANGED <<clock, rows, answers, checkedIn, guard, lastRunDay, enabled, faults>>
    BY <1>1 DEF Begin, table, memory
  <2>3. manuals' \in 0 .. MaxManual
    BY <1>1, CheckinAssumption DEF Begin, CheckinInv, TypeOK
  <2>4. /\ guard' \in BOOLEAN /\ lastRunDay' \in Days /\ enabled' \subseteq Providers
        /\ faults' \in 0 .. MaxFaults
    BY <2>2 DEF CheckinInv, TypeOK
  <2> QED
    BY <1>1, <2>1, <2>2, <2>3, <2>4, QuietStep
<1>2. CASE TriggerUncheckedCheckinRun(g)
  <2> DEFINE l == Fresh("manual", "acquire", 0, 0, {})
  <2>3. Begin(g, l)
    BY <1>2 DEF TriggerUncheckedCheckinRun
  <2>4. l = [pc |-> "acquire", trigger |-> "manual", day |-> 0, runDay |-> 0, todo |-> {},
             granter |-> {}, row |-> 0, failed |-> FALSE]
    BY DEF Fresh
  <2> HIDE DEF l
  <2>1. l \in Locals /\ l.pc = "acquire" /\ l.trigger = "manual" /\ l.runDay = 0 /\ day >= 0
        /\ l.row = 0
    BY <2>4, CheckinAssumption DEF Locals, Triggers, Days, CheckinInv, TypeOK
  <2>2. ~Holds(l)
    BY <2>1 DEF Holds
  <2> QED
    BY <1>1, <2>1, <2>2, <2>3
<1>3. ASSUME NEW p \in Providers, RunProviderCheckin(g, p)
      PROVE  CheckinInv'
  <2> DEFINE l == Fresh("manual-provider", "insert", 0, day, {p})
  <2>1. day \in Days /\ day \in Nat
    BY DEF CheckinInv, TypeOK, Days
  <2>4. Begin(g, l)
    BY <1>3 DEF RunProviderCheckin
  <2>5. l = [pc |-> "insert", trigger |-> "manual-provider", day |-> 0, runDay |-> day,
             todo |-> {p}, granter |-> {}, row |-> 0, failed |-> FALSE]
    BY DEF Fresh
  <2> HIDE DEF l
  <2>2. l \in Locals /\ l.pc = "insert" /\ l.runDay = day /\ l.row = 0
        /\ l.trigger = "manual-provider"
    BY <2>1, <2>5, CheckinAssumption DEF Locals, Triggers, Days
  <2>3. ~Holds(l)
    BY <2>2 DEF Holds
  <2> QED
    BY <1>1, <2>1, <2>2, <2>3, <2>4
<1> QED
  BY <1>2, <1>3 DEF Request

LEMMA AcquireStep ==
  ASSUME CheckinInv, NEW g \in Tasks, Acquire(g)
  PROVE  CheckinInv'
<1>1. ~InRun(g) /\ day >= 0 /\ TypeOK
  BY CheckinAssumption DEF Acquire, At, InRun, CheckinInv, TypeOK, Days
<1>2. /\ UNCHANGED <<clock, rows, answers, checkedIn, lastRunDay, enabled, manuals, faults>>
      /\ guard' \in BOOLEAN
  BY <1>1 DEF Acquire, table, CheckinInv, TypeOK
<1>3. /\ lastRunDay' \in Days /\ enabled' \subseteq Providers
      /\ manuals' \in 0 .. MaxManual /\ faults' \in 0 .. MaxFaults
  BY <1>1, <1>2 DEF TypeOK
<1>4. CASE guard /\ UNCHANGED guard /\ Return(g)
  BY <1>1, <1>2, <1>3, <1>4, IdleFacts, QuietStep DEF Return
<1>5. CASE ~guard /\ guard' = TRUE /\ GoTo(g, "load")
  <2> DEFINE l == [task[g] EXCEPT !.pc = "load"]
  <2>1. l \in Locals /\ l.pc = "load" /\ l.runDay = task[g].runDay /\ l.row = task[g].row
        /\ l.trigger = task[g].trigger /\ task' = [task EXCEPT ![g] = l]
    BY <1>1, <1>5, Relabelled
  <2>2. Holds(l) /\ l.runDay <= day /\ l.trigger # "manual-provider" /\ l.row = 0
    BY <2>1 DEF Holds, CheckinInv, Asking, Guarded, Acquire, At
  <2> HIDE DEF l
  <2> QED
    BY <1>1, <1>2, <1>3, <1>5, <2>1, <2>2, QuietStep
<1> QED
  BY <1>4, <1>5 DEF Acquire

LEMMA LoadStep ==
  ASSUME CheckinInv, NEW g \in Tasks, Load(g)
  PROVE  CheckinInv'
<1>1. TypeOK /\ Guarded(g) /\ InRun(g) /\ day \in Days /\ day \in Nat /\ task[g].runDay <= day
      /\ task[g] \in Locals
  BY DEF Load, At, InRun, CheckinInv, Asking, TypeOK, Days
<1>2. /\ UNCHANGED <<clock, rows, answers, checkedIn, guard, lastRunDay, enabled, manuals>>
      /\ guard' \in BOOLEAN /\ lastRunDay' \in Days /\ enabled' \subseteq Providers
      /\ manuals' \in 0 .. MaxManual
  BY <1>1 DEF Load, table, memory, TypeOK
<1>3. faults' \in 0 .. MaxFaults
  BY <1>1, FaultBound DEF Load
<1>4. CASE Leave(g)
  <2> DEFINE l == [task[g] EXCEPT !.pc = "release"]
  <2>1. l \in Locals /\ l.pc = "release" /\ l.runDay = task[g].runDay
        /\ l.trigger = task[g].trigger /\ task' = [task EXCEPT ![g] = l]
    BY <1>1, <1>4, Relabelled DEF Leave
  <2>2. Holds(l) /\ l.trigger # "manual-provider"
    BY <1>1, <2>1 DEF Holds, Guarded
  <2> HIDE DEF l
  <2> QED
    BY <1>1, <1>2, <1>3, <2>1, <2>2, QuietStep
<1>5. CASE task' = [task EXCEPT ![g].pc = "insert", ![g].runDay = day, ![g].todo = Selected(g)]
  <2> DEFINE S  == Selected(g)
             l1 == [task[g] EXCEPT !.pc = "insert"]
             l2 == [l1 EXCEPT !.runDay = day]
             l  == [l2 EXCEPT !.todo = S]
  <2>1. S \in SUBSET Providers
    BY <1>1 DEF Selected, TypeOK
  <2> HIDE DEF S
  <2>2. l1 \in Locals /\ l1.pc = "insert" /\ l1.trigger = task[g].trigger /\ l1.row = task[g].row
    BY <1>1 DEF Locals
  <2>3. task' = [task EXCEPT ![g] = l]
    BY <1>5 DEF TypeOK, S
  <2> HIDE DEF l1
  <2>4. l2 \in Locals /\ l2.pc = "insert" /\ l2.trigger = task[g].trigger /\ l2.runDay = day
        /\ l2.row = task[g].row
    BY <1>1, <2>2 DEF Locals
  <2> HIDE DEF l2
  <2>5. l \in Locals /\ l.pc = "insert" /\ l.trigger = task[g].trigger /\ l.runDay = day
        /\ l.row = task[g].row
    BY <2>1, <2>4 DEF Locals
  <2>6. Holds(l)
    BY <1>1, <2>5 DEF Holds, Guarded
  <2>7. task[g].row = 0 /\ l.runDay <= day
    BY <1>1, <2>5 DEF Load, At, CheckinInv, Asking
  <2> HIDE DEF l
  <2> QED
    BY <1>1, <1>2, <1>3, <2>3, <2>5, <2>6, <2>7, QuietStep
<1> QED
  BY <1>4, <1>5 DEF Load

LEMMA ReleaseStep ==
  ASSUME CheckinInv, NEW g \in Tasks, Release(g)
  PROVE  CheckinInv'
<1>1. TypeOK /\ Guarded(g) /\ InRun(g) /\ day >= 0 /\ task[g].runDay <= day
  BY CheckinAssumption DEF Release, At, InRun, CheckinInv, Asking, TypeOK, Days
<1>2. /\ UNCHANGED <<clock, rows, answers, checkedIn, lastRunDay, enabled, manuals, faults>>
      /\ guard' = FALSE
  BY DEF Release, table
<1>3. /\ guard' \in BOOLEAN /\ lastRunDay' \in Days /\ enabled' \subseteq Providers
      /\ manuals' \in 0 .. MaxManual /\ faults' \in 0 .. MaxFaults
  BY <1>1, <1>2 DEF TypeOK
<1>4. CASE Return(g)
  BY <1>1, <1>2, <1>3, <1>4, IdleFacts, QuietStep DEF Return
<1>5. CASE GoTo(g, "note")
  <2> DEFINE l == [task[g] EXCEPT !.pc = "note"]
  <2>1. l \in Locals /\ l.pc = "note" /\ l.runDay = task[g].runDay
        /\ l.trigger = task[g].trigger /\ task' = [task EXCEPT ![g] = l]
    BY <1>1, <1>5, Relabelled
  <2>2. ~Holds(l) /\ l.trigger # "manual-provider"
    BY <1>1, <2>1 DEF Holds, Guarded
  <2> HIDE DEF l
  <2> QED
    BY <1>1, <1>2, <1>3, <2>1, <2>2, QuietStep
<1> QED
  BY <1>4, <1>5 DEF Release

LEMMA NoteStep ==
  ASSUME CheckinInv, NEW g \in Tasks, Note(g)
  PROVE  CheckinInv'
<1>1. TypeOK /\ ~InRun(g) /\ day >= 0 /\ task[g].day \in Days
  BY CheckinAssumption DEF Note, At, InRun, CheckinInv, TypeOK, Days, Locals
<1>2. /\ UNCHANGED <<clock, rows, answers, checkedIn, guard, enabled, manuals, faults>>
      /\ lastRunDay' = task[g].day
      /\ task' = [task EXCEPT ![g] = Idle]
  BY DEF Note, table, Return
<1>3. /\ guard' \in BOOLEAN /\ lastRunDay' \in Days /\ enabled' \subseteq Providers
      /\ manuals' \in 0 .. MaxManual /\ faults' \in 0 .. MaxFaults
  BY <1>1, <1>2 DEF TypeOK
<1> QED
  BY <1>1, <1>2, <1>3, IdleFacts, QuietStep

-----------------------------------------------------------------------------
(* The steps that leave something behind. *)

LEMMA LoudStep ==
  ASSUME CheckinInv, NEW g \in Tasks, NEW l \in Locals,
         task' = [task EXCEPT ![g] = l], HistoryKept,
         UNCHANGED <<clock, memory, manuals>>,
         rows' \in Seq(Runs), enabled' \subseteq Providers, checkedIn' \in [Providers -> Days],
         answers' \subseteq Providers \X Days \X {"granted", "refused"},
         faults' \in 0 .. MaxFaults,
         Holds(l) <=> InRun(g),
         Asking(g)', \A i \in 1 .. Len(rows') : rows'[i].day <= day,
         SuccessMeansGranted', CheckedInWasGranted'
  PROVE  CheckinInv'
<1> USE DEF CheckinInv
<1>1. /\ task' \in [Tasks -> Locals]
      /\ \A h \in Tasks \ {g} : task'[h] = task[h]
  BY TaskEffect
<1>2. UNCHANGED <<day, due, guard, lastRunDay, manuals>>
  BY DEF clock, memory
<1>3. TypeOK'
  BY <1>1, <1>2 DEF TypeOK
<1>4. OneRunAtATime'
  BY <1>2, GuardEffect
<1>5. \A h \in Tasks : Asking(h)'
  BY <1>1, AskingKept
<1> QED
  BY <1>2, <1>3, <1>4, <1>5

LEMMA HistoryOfRows ==
  ASSUME CheckinInv, UNCHANGED <<clock, rows>>, answers \subseteq answers'
  PROVE  HistoryKept
<1>1. rows \in Seq(Runs) /\ day \in Nat /\ day' = day
  BY DEF CheckinInv, TypeOK, Days, clock
<1> QED
  BY <1>1 DEF HistoryKept

LEMMA AskStep ==
  ASSUME CheckinInv, NEW g \in Tasks, NEW p \in Providers, Ask(g, p)
  PROVE  CheckinInv'
<1>1. TypeOK /\ task[g] \in Locals /\ day \in Days /\ day \in 1 .. MaxDay /\ MaxDay \in Nat
  BY CheckinAssumption DEF CheckinInv, TypeOK, Days
<1>2. PICK answer \in {"granted", "refused"} :
        /\ answers' = answers \cup {<<p, day, answer>>}
        /\ \/ /\ answer = "granted"
              /\ task' = [task EXCEPT ![g].pc = "stamp", ![g].todo = @ \ {p}, ![g].granter = {p}]
              /\ UNCHANGED enabled
           \/ /\ task' = [task EXCEPT ![g].todo = @ \ {p}, ![g].failed = TRUE]
              /\ \/ UNCHANGED enabled
                 \/ answer = "refused" /\ enabled' = enabled \ {p}
  BY DEF Ask
<1>3. task[g].pc = "ask" /\ UNCHANGED <<clock, memory, rows, checkedIn, manuals, faults>>
  BY DEF Ask, At
<1>4. HistoryKept
  BY <1>2, <1>3, HistoryOfRows
<1>5. /\ answers' \subseteq Providers \X Days \X {"granted", "refused"}
      /\ enabled' \subseteq Providers
  BY <1>1, <1>2 DEF TypeOK
<1>6. /\ rows' \in Seq(Runs) /\ checkedIn' \in [Providers -> Days] /\ faults' \in 0 .. MaxFaults
      /\ day' = day
  BY <1>1, <1>3 DEF TypeOK, clock
<1>7. \A i \in 1 .. Len(rows') : rows'[i].day <= day
  BY <1>3 DEF CheckinInv
<1>8. SuccessMeansGranted'
  BY <1>2, <1>3 DEF CheckinInv, SuccessMeansGranted
<1>9. CheckedInWasGranted'
  BY <1>2, <1>3 DEF CheckinInv, CheckedInWasGranted
<1> DEFINE run == rows[task[g].row]
<1>10. /\ task[g].row \in 1 .. Len(rows)
       /\ task[g].runDay <= day
       /\ run.day <= day
       /\ ~task[g].failed => \A x \in run.targets \ task[g].todo :
                                \E d \in run.day .. MaxDay : <<x, d, "granted">> \in answers
  BY <1>3 DEF CheckinInv, Asking
<1>11. run.day \in Days /\ run.day \in Nat
  <2>1. run \in Runs
    BY <1>1, <1>10 DEF TypeOK
  <2> QED
    BY <2>1 DEF Runs, Days
<1>12. CASE /\ answer = "granted"
            /\ task' = [task EXCEPT ![g].pc = "stamp", ![g].todo = @ \ {p}, ![g].granter = {p}]
  <2> DEFINE l1 == [task[g] EXCEPT !.pc = "stamp"]
             l2 == [l1 EXCEPT !.todo = task[g].todo \ {p}]
             l  == [l2 EXCEPT !.granter = {p}]
  <2>1. task' = [task EXCEPT ![g] = l]
    BY <1>1, <1>12 DEF TypeOK, Locals
  <2>2. l1 \in Locals /\ l1.pc = "stamp" /\ l1.trigger = task[g].trigger /\ l1.row = task[g].row
        /\ l1.runDay = task[g].runDay /\ l1.failed = task[g].failed
    BY <1>1 DEF Locals
  <2> HIDE DEF l1
  <2>3. l2 \in Locals /\ l2.pc = "stamp" /\ l2.trigger = task[g].trigger /\ l2.row = task[g].row
        /\ l2.runDay = task[g].runDay /\ l2.failed = task[g].failed /\ l2.todo = task[g].todo \ {p}
    BY <1>1, <2>2 DEF Locals
  <2> HIDE DEF l2
  <2>4. l \in Locals /\ l.pc = "stamp" /\ l.trigger = task[g].trigger /\ l.row = task[g].row
        /\ l.runDay = task[g].runDay /\ l.failed = task[g].failed /\ l.todo = task[g].todo \ {p}
        /\ l.granter = {p}
    BY <1>1, <2>3 DEF Locals
  <2>5. Holds(l) <=> InRun(g)
    BY <1>3, <2>4 DEF Holds, InRun, Guarded
  <2> HIDE DEF l
  <2>6. task'[g] = l
    BY <1>1, <2>1, <2>4, TaskEffect
  <2>7. <<p, day, "granted">> \in answers'
    BY <1>2, <1>12
  <2>8. \A x \in run.targets \ l.todo : ~l.failed =>
           \E d \in run.day .. MaxDay : <<x, d, "granted">> \in answers'
    <3> SUFFICES ASSUME NEW x \in run.targets \ l.todo, ~l.failed
                 PROVE  \E d \in run.day .. MaxDay : <<x, d, "granted">> \in answers'
      OBVIOUS
    <3>1. CASE x = p
      <4>1. day \in run.day .. MaxDay
        BY <1>1, <1>10, <1>11
      <4> QED
        BY <3>1, <4>1, <2>7
    <3>2. CASE x # p
      BY <3>2, <1>2, <1>10, <2>4
    <3> QED
      BY <3>1, <3>2
  <2>9. Asking(g)'
    <3>1. \A x \in l.granter : \E d \in 1 .. day' : <<x, d, "granted">> \in answers'
      <4>1. day \in 1 .. day'
        BY <1>1, <1>6
      <4> QED
        BY <4>1, <2>4, <2>7
    <3> QED
      BY <1>3, <1>6, <1>10, <2>4, <2>6, <2>8, <3>1 DEF Asking, At, Guarded
  <2> QED
    BY <1>3, <1>4, <1>5, <1>6, <1>7, <1>8, <1>9, <2>1, <2>4, <2>5, <2>9, LoudStep
<1>13. CASE task' = [task EXCEPT ![g].todo = @ \ {p}, ![g].failed = TRUE]
  <2> DEFINE l1 == [task[g] EXCEPT !.todo = task[g].todo \ {p}]
             l  == [l1 EXCEPT !.failed = TRUE]
  <2>1. task' = [task EXCEPT ![g] = l]
    BY <1>1, <1>13 DEF TypeOK, Locals
  <2>2. l1 \in Locals /\ l1.pc = "ask" /\ l1.trigger = task[g].trigger /\ l1.row = task[g].row
        /\ l1.runDay = task[g].runDay
    BY <1>1, <1>3 DEF Locals
  <2> HIDE DEF l1
  <2>3. l \in Locals /\ l.pc = "ask" /\ l.trigger = task[g].trigger /\ l.row = task[g].row
        /\ l.runDay = task[g].runDay /\ l.failed
    BY <1>1, <2>2 DEF Locals
  <2>4. Holds(l) <=> InRun(g)
    BY <1>3, <2>3 DEF Holds, InRun, Guarded
  <2> HIDE DEF l
  <2>5. task'[g] = l
    BY <1>1, <2>1, <2>3, TaskEffect
  <2>6. Asking(g)'
    BY <1>3, <1>6, <1>10, <2>3, <2>5 DEF Asking, At, Guarded
  <2> QED
    BY <1>3, <1>4, <1>5, <1>6, <1>7, <1>8, <1>9, <2>1, <2>3, <2>4, <2>6, LoudStep
<1> QED
  BY <1>2, <1>12, <1>13

\* A run that leaves goes on to its deferred release, if it is a guarded one.
LEMMA LeaveEffect ==
  ASSUME CheckinInv, NEW g \in Tasks, task[g].pc \in {"insert", "ask"}, Leave(g)
  PROVE  \E l \in Locals :
           /\ task' = [task EXCEPT ![g] = l]
           /\ Holds(l) <=> InRun(g)
           /\ l.pc \in {"idle", "release"}
           /\ l.pc = "release" => l.trigger # "manual-provider"
           /\ l.runDay <= day
<1>1. TypeOK /\ task[g].runDay <= day /\ day >= 0
  BY CheckinAssumption DEF CheckinInv, TypeOK, Asking, Days
<1>2. CASE Guarded(g)
  <2> DEFINE l == [task[g] EXCEPT !.pc = "release"]
  <2>1. l \in Locals /\ l.pc = "release" /\ l.runDay = task[g].runDay
        /\ l.trigger = task[g].trigger /\ task' = [task EXCEPT ![g] = l]
    BY <1>1, <1>2, Relabelled DEF Leave
  <2>2. Holds(l) /\ InRun(g) /\ l.trigger # "manual-provider"
    BY <1>2, <2>1 DEF Holds, Guarded, InRun
  <2> HIDE DEF l
  <2> QED
    BY <1>1, <2>1, <2>2
<1>3. CASE ~Guarded(g)
  <2>1. task' = [task EXCEPT ![g] = Idle] /\ ~InRun(g)
    BY <1>3 DEF Leave, Return, InRun
  <2> QED
    BY <1>1, <2>1, IdleFacts
<1> QED
  BY <1>2, <1>3

LEMMA InsertStep ==
  ASSUME CheckinInv, NEW g \in Tasks, Insert(g)
  PROVE  CheckinInv'
<1>1. /\ TypeOK /\ task[g] \in Locals /\ rows \in Seq(Runs) /\ task[g].pc = "insert"
      /\ task[g].runDay <= day /\ task[g].runDay \in Days
  BY DEF Insert, At, CheckinInv, TypeOK, Asking, Locals
<1>2. /\ UNCHANGED <<clock, memory, enabled, checkedIn, answers, manuals>>
      /\ faults' \in 0 .. MaxFaults
  BY <1>1, FaultBound DEF Insert
<1>3. CASE Leave(g) /\ UNCHANGED rows
  <2>1. PICK l \in Locals :
           /\ task' = [task EXCEPT ![g] = l]
           /\ Holds(l) <=> InRun(g)
           /\ l.pc \in {"idle", "release"}
           /\ l.pc = "release" => l.trigger # "manual-provider"
           /\ l.runDay <= day
    BY <1>1, <1>3, LeaveEffect
  <2>2. /\ guard' = guard /\ guard' \in BOOLEAN /\ lastRunDay' \in Days
        /\ enabled' \subseteq Providers /\ manuals' \in 0 .. MaxManual
    BY <1>1, <1>2 DEF TypeOK, memory
  <2> QED
    BY <1>2, <1>3, <2>1, <2>2, QuietStep
<1>4. CASE /\ rows' = Append(rows, [trigger |-> task[g].trigger, day |-> task[g].runDay,
                                    targets |-> task[g].todo, status |-> "running"])
           /\ task' = [task EXCEPT ![g].pc = "ask", ![g].row = Len(rows) + 1]
  <2> DEFINE new == [trigger |-> task[g].trigger, day |-> task[g].runDay,
                     targets |-> task[g].todo, status |-> "running"]
             n   == Len(rows) + 1
             l1  == [task[g] EXCEPT !.pc = "ask"]
             l   == [l1 EXCEPT !.row = n]
  <2>1. new \in Runs /\ new.day = task[g].runDay /\ new.targets = task[g].todo
        /\ new.status = "running"
    BY <1>1 DEF Locals, Runs
  <2>2. task' = [task EXCEPT ![g] = l]
    BY <1>1, <1>4 DEF TypeOK
  <2>3. l1 \in Locals /\ l1.pc = "ask" /\ l1.trigger = task[g].trigger
        /\ l1.runDay = task[g].runDay /\ l1.todo = task[g].todo
    BY <1>1 DEF Locals
  <2> HIDE DEF l1
  <2>4. n \in Nat
    BY <1>1
  <2>5. l \in Locals /\ l.pc = "ask" /\ l.trigger = task[g].trigger /\ l.row = n
        /\ l.runDay = task[g].runDay /\ l.todo = task[g].todo
    BY <2>3, <2>4 DEF Locals
  <2>6. rows' = Append(rows, new)
    BY <1>4
  <2> HIDE DEF l, new
  <2>7. /\ rows' \in Seq(Runs) /\ Len(rows') = n /\ rows'[n] = new
        /\ \A i \in 1 .. Len(rows) : rows'[i] = rows[i]
        /\ Len(rows) \in Nat
    BY <1>1, <2>1, <2>6
  <2>8. day \in Nat /\ day' = day
    BY <1>1, <1>2 DEF TypeOK, Days, clock
  <2>9. HistoryKept
    BY <1>2, <2>7, <2>8 DEF HistoryKept
  <2>10. Holds(l) <=> InRun(g)
    BY <1>1, <2>5 DEF Holds, InRun, Guarded
  <2>11. task'[g] = l
    BY <1>1, <2>2, <2>5, TaskEffect
  <2>12. Asking(g)'
    BY <1>1, <2>1, <2>5, <2>7, <2>8, <2>11 DEF Asking, At, Guarded
  <2>13. \A i \in 1 .. Len(rows') : i = n \/ i \in 1 .. Len(rows)
    BY <2>7
  <2>14. \A i \in 1 .. Len(rows') : rows'[i].day <= day
    BY <1>1, <2>1, <2>7, <2>13 DEF CheckinInv
  <2>15. SuccessMeansGranted'
    BY <1>2, <2>1, <2>7, <2>13 DEF CheckinInv, SuccessMeansGranted
  <2>16. CheckedInWasGranted'
    BY <1>2 DEF CheckinInv, CheckedInWasGranted
  <2>17. /\ enabled' \subseteq Providers /\ checkedIn' \in [Providers -> Days]
         /\ answers' \subseteq Providers \X Days \X {"granted", "refused"}
    BY <1>1, <1>2 DEF TypeOK
  <2> QED
    BY <1>2, <2>2, <2>5, <2>7, <2>9, <2>10, <2>12, <2>14, <2>15, <2>16, <2>17, LoudStep
<1> QED
  BY <1>3, <1>4 DEF Insert

LEMMA StampStep ==
  ASSUME CheckinInv, NEW g \in Tasks, Stamp(g)
  PROVE  CheckinInv'
<1>1. /\ TypeOK /\ task[g] \in Locals /\ task[g].pc = "stamp" /\ day \in Days /\ day \in Nat
      /\ Asking(g)
  BY DEF Stamp, At, CheckinInv, TypeOK, Days
<1>2. /\ UNCHANGED <<clock, memory, rows, enabled, answers, manuals>>
      /\ faults' \in 0 .. MaxFaults
  BY <1>1, FaultBound DEF Stamp
<1> DEFINE l1 == [task[g] EXCEPT !.pc = "ask"]
           l  == [l1 EXCEPT !.granter = {}]
<1>3. task' = [task EXCEPT ![g] = l]
  BY <1>1 DEF TypeOK, Stamp
<1>4. l1 \in Locals /\ l1.pc = "ask" /\ l1.trigger = task[g].trigger /\ l1.row = task[g].row
      /\ l1.runDay = task[g].runDay /\ l1.todo = task[g].todo /\ l1.failed = task[g].failed
  BY <1>1 DEF Locals
<1> HIDE DEF l1
<1>5. l \in Locals /\ l.pc = "ask" /\ l.trigger = task[g].trigger /\ l.row = task[g].row
      /\ l.runDay = task[g].runDay /\ l.todo = task[g].todo /\ l.failed = task[g].failed
  BY <1>4 DEF Locals
<1> HIDE DEF l
<1>6. task'[g] = l
  BY <1>1, <1>3, <1>5, TaskEffect
<1>7. HistoryKept
  BY <1>2, HistoryOfRows
<1>8. Holds(l) <=> InRun(g)
  BY <1>1, <1>5 DEF Holds, InRun, Guarded
<1>9. day' = day
  BY <1>2 DEF clock
<1>10. Asking(g)'
  BY <1>1, <1>2, <1>5, <1>6, <1>9 DEF Asking, At, Guarded
<1>11. /\ rows' \in Seq(Runs) /\ enabled' \subseteq Providers
       /\ answers' \subseteq Providers \X Days \X {"granted", "refused"}
       /\ checkedIn' \in [Providers -> Days]
  BY <1>1, <1>2 DEF TypeOK, Stamp
<1>12. \A i \in 1 .. Len(rows') : rows'[i].day <= day
  BY <1>2 DEF CheckinInv
<1>13. SuccessMeansGranted'
  BY <1>2 DEF CheckinInv, SuccessMeansGranted
<1>14. CheckedInWasGranted'
  <2>1. \A p \in task[g].granter : \E d \in 1 .. day : <<p, d, "granted">> \in answers
    BY <1>1 DEF Asking, At
  <2>2. CASE checkedIn' = [p \in Providers |-> IF p \in task[g].granter THEN day ELSE checkedIn[p]]
    BY <2>1, <2>2, <1>2 DEF CheckinInv, CheckedInWasGranted
  <2>3. CASE UNCHANGED checkedIn
    BY <2>3, <1>2 DEF CheckinInv, CheckedInWasGranted
  <2> QED
    BY <2>2, <2>3 DEF Stamp
<1> QED
  BY <1>2, <1>3, <1>5, <1>7, <1>8, <1>10, <1>11, <1>12, <1>13, <1>14, LoudStep

\* A run without a failure has nobody left to ask, and all have granted.
LEMMA FinishStep ==
  ASSUME CheckinInv, NEW g \in Tasks, Finish(g)
  PROVE  CheckinInv'
<1>1. /\ TypeOK /\ rows \in Seq(Runs) /\ task[g].pc = "ask" /\ task[g].todo = {}
      /\ Asking(g) /\ day \in Nat
  BY DEF Finish, At, CheckinInv, TypeOK, Days
<1>2. /\ UNCHANGED <<clock, memory, enabled, checkedIn, answers, manuals>>
      /\ faults' \in 0 .. MaxFaults
  BY <1>1, FaultBound DEF Finish
<1>3. PICK l \in Locals :
         /\ task' = [task EXCEPT ![g] = l]
         /\ Holds(l) <=> InRun(g)
         /\ l.pc \in {"idle", "release"}
         /\ l.pc = "release" => l.trigger # "manual-provider"
         /\ l.runDay <= day
  BY <1>1, LeaveEffect DEF Finish
<1> DEFINE k == task[g].row
<1>4. k \in 1 .. Len(rows) /\ rows[k] \in Runs
  BY <1>1 DEF Asking
<1>5. ~task[g].failed => \A p \in rows[k].targets :
                            \E d \in rows[k].day .. MaxDay : <<p, d, "granted">> \in answers
  BY <1>1 DEF Asking
<1>6. CASE rows' = [rows EXCEPT ![k].status = Outcome(g)]
  <2> DEFINE new == [rows[k] EXCEPT !.status = Outcome(g)]
  <2>1. Outcome(g) \in {"success", "partial", "failed"} /\ (Outcome(g) = "success" => ~task[g].failed)
    BY DEF Outcome
  <2> DEFINE o == Outcome(g)
  <2> HIDE DEF o
  <2>2. new \in Runs /\ new.day = rows[k].day /\ new.targets = rows[k].targets /\ new.status = o
    BY <1>4, <2>1 DEF Runs, o
  <2>3. rows' = [rows EXCEPT ![k] = new]
    BY <1>1, <1>4, <1>6
  <2> HIDE DEF new, k
  <2>4. /\ rows' \in Seq(Runs) /\ Len(rows') = Len(rows) /\ Len(rows) \in Nat
        /\ \A i \in 1 .. Len(rows) : rows'[i] = IF i = k THEN new ELSE rows[i]
    BY <1>1, <1>4, <2>2, <2>3
  <2>5. HistoryKept
    BY <1>1, <1>2, <2>2, <2>4 DEF HistoryKept, clock
  <2>6. task'[g] = l
    BY <1>1, <1>3, TaskEffect
  <2>7. Asking(g)'
    BY <1>2, <1>3, <2>6 DEF Asking, At, Guarded, clock
  <2>8. \A i \in 1 .. Len(rows') : rows'[i].day <= day
    BY <1>4, <2>2, <2>4 DEF CheckinInv
  <2>9. SuccessMeansGranted'
    <3> SUFFICES ASSUME NEW i \in 1 .. Len(rows), rows'[i].status = "success"
                 PROVE  \A p \in rows'[i].targets :
                           \E d \in rows'[i].day .. MaxDay : <<p, d, "granted">> \in answers'
      BY <2>4 DEF SuccessMeansGranted
    <3>1. CASE i = k
      BY <3>1, <1>2, <1>5, <2>1, <2>2, <2>4 DEF o
    <3>2. CASE i # k
      BY <3>2, <1>2, <2>4 DEF CheckinInv, SuccessMeansGranted
    <3> QED
      BY <3>1, <3>2
  <2>10. CheckedInWasGranted'
    BY <1>2 DEF CheckinInv, CheckedInWasGranted
  <2>11. /\ enabled' \subseteq Providers /\ checkedIn' \in [Providers -> Days]
         /\ answers' \subseteq Providers \X Days \X {"granted", "refused"}
    BY <1>1, <1>2 DEF TypeOK
  <2> QED
    BY <1>2, <1>3, <2>4, <2>5, <2>7, <2>8, <2>9, <2>10, <2>11, LoudStep
<1>7. CASE UNCHANGED rows
  <2>1. /\ guard' = guard /\ guard' \in BOOLEAN /\ lastRunDay' \in Days
        /\ enabled' \subseteq Providers /\ manuals' \in 0 .. MaxManual
    BY <1>1, <1>2 DEF TypeOK, memory
  <2> QED
    BY <1>2, <1>3, <1>7, <2>1, QuietStep
<1> QED
  BY <1>6, <1>7 DEF Finish

-----------------------------------------------------------------------------
(* The surroundings, and the invariant. *)

LEMMA CrashStep ==
  ASSUME CheckinInv, Crash
  PROVE  CheckinInv'
<1>1. TypeOK /\ day \in Nat
  BY DEF CheckinInv, TypeOK, Days
<1>2. /\ guard' = FALSE /\ lastRunDay' = 0 /\ task' = [h \in Tasks |-> Idle]
      /\ UNCHANGED <<day, due, rows, enabled, checkedIn, answers, manuals>>
      /\ faults' \in 0 .. MaxFaults
  BY <1>1, FaultBound DEF Crash, clock, table
<1>3. TypeOK'
  <2>1. task' \in [Tasks -> Locals] /\ lastRunDay' \in Days
    BY <1>2, IdleFacts, CheckinAssumption DEF Days
  <2> QED
    BY <1>1, <1>2, <2>1 DEF TypeOK
<1>4. \A g \in Tasks : task'[g].pc = "idle" /\ task'[g].runDay = 0
  BY <1>2, IdleFacts
<1>5. OneRunAtATime'
  BY <1>2, <1>4 DEF OneRunAtATime, InRun
<1>6. \A g \in Tasks : Asking(g)'
  BY <1>1, <1>2, <1>4 DEF Asking, At
<1>7. (\A i \in 1 .. Len(rows') : rows'[i].day <= day') /\ SuccessMeansGranted' /\ CheckedInWasGranted'
  BY <1>2 DEF CheckinInv, SuccessMeansGranted, CheckedInWasGranted
<1> QED
  BY <1>3, <1>5, <1>6, <1>7 DEF CheckinInv

\* Time passes, or a provider is edited.
LEMMA OutsideStep ==
  ASSUME CheckinInv, Due \/ NextDay \/ (\E p \in Providers : Edit(p)) \/ UNCHANGED kvars
  PROVE  CheckinInv'
<1>1. TypeOK /\ day \in Nat /\ MaxDay \in Nat /\ day \in Days \ {0} /\ rows \in Seq(Runs)
  BY CheckinAssumption DEF CheckinInv, TypeOK, Days
<1>2. /\ UNCHANGED <<guard, lastRunDay, rows, checkedIn, answers, task, manuals, faults>>
      /\ due' \in BOOLEAN /\ day' \in Days \ {0} /\ day' \in Nat /\ day <= day'
  <2>1. CASE Due \/ (\E p \in Providers : Edit(p)) \/ UNCHANGED kvars
    <3>1. UNCHANGED <<day, guard, lastRunDay, rows, checkedIn, answers, task, manuals, faults>>
      BY <2>1 DEF Due, Edit, kvars, clock, memory, table
    <3>2. due' \in BOOLEAN
      <4>1. due \in BOOLEAN
        BY <1>1 DEF TypeOK
      <4>2. due' = TRUE \/ due' = due
        BY <2>1 DEF Due, Edit, kvars, clock
      <4> QED
        BY <4>1, <4>2
    <3> QED
      BY <1>1, <3>1, <3>2
  <2>2. CASE NextDay
    <3>1. /\ UNCHANGED <<guard, lastRunDay, rows, checkedIn, answers, task, manuals, faults>>
          /\ due' = FALSE /\ day' = day + 1 /\ day < MaxDay
      BY <2>2 DEF NextDay, memory, table
    <3>2. day' \in Days \ {0} /\ day' \in Nat /\ day <= day'
      BY <1>1, <3>1 DEF Days
    <3>3. due' \in BOOLEAN
      BY <3>1
    <3> QED
      BY <3>1, <3>2, <3>3
  <2> QED
    BY <2>1, <2>2
<1>3. enabled' \subseteq Providers
  BY <1>1 DEF Due, NextDay, Edit, kvars, table, TypeOK
<1>4. TypeOK'
  BY <1>1, <1>2, <1>3 DEF TypeOK
<1>5. OneRunAtATime'
  BY <1>2 DEF CheckinInv, OneRunAtATime, InRun, Guarded
<1>6. \A g \in Tasks : Asking(g)'
  <2>1. HistoryKept
    BY <1>1, <1>2 DEF HistoryKept
  <2> QED
    BY <1>1, <1>2, <2>1, AskingKept DEF CheckinInv
<1>7. \A i \in 1 .. Len(rows') : rows'[i].day <= day'
  <2> TAKE i \in 1 .. Len(rows')
  <2>1. rows[i] \in Runs
    BY <1>1, <1>2
  <2>2. rows[i].day \in Nat
    BY <2>1 DEF Runs, Days
  <2> QED
    BY <1>1, <1>2, <2>2 DEF CheckinInv
<1>8. SuccessMeansGranted' /\ CheckedInWasGranted'
  BY <1>2 DEF CheckinInv, SuccessMeansGranted, CheckedInWasGranted
<1> QED
  BY <1>4, <1>5, <1>6, <1>7, <1>8 DEF CheckinInv

LEMMA InitCheckinInv ==
  ASSUME Init
  PROVE  CheckinInv
<1>1. TypeOK
  <2>1. task \in [Tasks -> Locals] /\ 0 \in Days /\ 1 \in Days /\ <<>> \in Seq(Runs)
        /\ 0 \in 0 .. MaxManual /\ 0 \in 0 .. MaxFaults
    BY IdleFacts, CheckinAssumption DEF Init, Days
  <2>2. checkedIn \in [Providers -> Days] /\ enabled \subseteq Providers
    BY <2>1 DEF Init
  <2>3. due \in BOOLEAN /\ guard \in BOOLEAN
    BY DEF Init
  <2>4. day \in Days \ {0} /\ lastRunDay \in Days /\ rows \in Seq(Runs)
        /\ manuals \in 0 .. MaxManual /\ faults \in 0 .. MaxFaults
    BY <2>1 DEF Init
  <2>5. answers \subseteq Providers \X Days \X {"granted", "refused"}
    BY DEF Init
  <2> QED
    BY <2>1, <2>2, <2>3, <2>4, <2>5 DEF TypeOK
<1>2. \A g \in Tasks : task[g].pc = "idle" /\ task[g].runDay = 0
  BY IdleFacts DEF Init
<1>3. OneRunAtATime
  BY <1>2 DEF Init, OneRunAtATime, InRun
<1>4. \A g \in Tasks : Asking(g)
  BY <1>2 DEF Init, Asking, At
<1>5. (\A i \in 1 .. Len(rows) : rows[i].day <= day) /\ SuccessMeansGranted /\ CheckedInWasGranted
  BY DEF Init, SuccessMeansGranted, CheckedInWasGranted
<1> QED
  BY <1>1, <1>3, <1>4, <1>5 DEF CheckinInv

LEMMA NextCheckinInv ==
  ASSUME CheckinInv, [Next]_kvars
  PROVE  CheckinInv'
<1>1. ASSUME NEW g \in Tasks, Step(g)
      PROVE  CheckinInv'
  BY <1>1, RunScheduledStep, QueryStep, AcquireStep, LoadStep, InsertStep, AskStep, StampStep,
     FinishStep, ReleaseStep, NoteStep DEF Step
<1>2. ASSUME NEW g \in Tasks, Request(g)
      PROVE  CheckinInv'
  BY <1>2, RequestStep
<1> QED
  BY <1>1, <1>2, CrashStep, OutsideStep DEF Next

\* The invariant holds for any number of goroutines, requests, days and faults.
THEOREM CheckinInvariant == SafeSpec => []CheckinInv
<1>1. Init => CheckinInv
  BY InitCheckinInv
<1>2. CheckinInv /\ [Next]_kvars => CheckinInv'
  BY NextCheckinInv
<1> QED
  BY <1>1, <1>2, PTL DEF SafeSpec

\* Every variable of the check-in keeps its type.
THEOREM CheckinTypeCorrect == SafeSpec => []TypeOK
<1>1. CheckinInv => TypeOK
  BY DEF CheckinInv
<1> QED
  BY <1>1, CheckinInvariant, PTL

\* checkinRunGuard excludes runs and is full exactly while one is under way.
THEOREM OneRunAtATimeHolds == SafeSpec => []OneRunAtATime
<1>1. CheckinInv => OneRunAtATime
  BY DEF CheckinInv
<1> QED
  BY <1>1, CheckinInvariant, PTL

\* A row executeCheckinRun or RunProviderCheckin leaves with "success" is true.
THEOREM SuccessMeansGrantedHolds == SafeSpec => []SuccessMeansGranted
<1>1. CheckinInv => SuccessMeansGranted
  BY DEF CheckinInv
<1> QED
  BY <1>1, CheckinInvariant, PTL

\* last_checkin_at is only moved by a check-in an upstream has granted.
THEOREM CheckedInWasGrantedHolds == SafeSpec => []CheckedInWasGranted
<1>1. CheckinInv => CheckedInWasGranted
  BY DEF CheckinInv
<1> QED
  BY <1>1, CheckinInvariant, PTL

-----------------------------------------------------------------------------
(* Once a day, when one tick at a time is at work.                         *)

\* A step adds no scheduled run.
NoNewCron ==
  \A i \in 1 .. Len(rows') : rows'[i].trigger = "cron" =>
     i \in 1 .. Len(rows) /\ rows[i].trigger = "cron" /\ rows'[i].day = rows[i].day

LEMMA OnceKept ==
  ASSUME CronOncePerDay, NoNewCron
  PROVE  CronOncePerDay'
BY DEF CronOncePerDay, NoNewCron

LEMMA TickingKept ==
  ASSUME TypeOK, NEW g \in Tasks, Ticking(g), NoNewCron, task'[g] = task[g],
         day' \in Nat, day <= day'
  PROVE  Ticking(g)'
<1>1. task[g].day \in Nat /\ day \in Nat
  BY DEF TypeOK, Locals, Days
<1> QED
  BY <1>1 DEF Ticking, NoNewCron, At

\* A goroutine that goes on keeps the kind and the day of its run.
LEMMA StepKeepsRun ==
  ASSUME TypeOK, NEW g \in Tasks, Step(g), ~RunScheduledCheckinIfNeeded(g)
  PROVE  /\ \A h \in Tasks \ {g} : task'[h] = task[h]
         /\ UNCHANGED clock
         /\ task[g].pc # "idle"
         /\ \/ task'[g] = Idle
            \/ task'[g].trigger = task[g].trigger /\ task'[g].day = task[g].day
<1>1. task[g] \in Locals /\ task \in [Tasks -> Locals]
  BY DEF TypeOK
<1>2. ASSUME NEW label, GoTo(g, label)
      PROVE  /\ \A h \in Tasks \ {g} : task'[h] = task[h]
             /\ task'[g].trigger = task[g].trigger /\ task'[g].day = task[g].day
  BY <1>1, <1>2 DEF GoTo, Locals
<1>3. ASSUME Return(g)
      PROVE  (\A h \in Tasks \ {g} : task'[h] = task[h]) /\ task'[g] = Idle
  BY <1>1, <1>3 DEF Return
<1>4. CASE Query(g)
  BY <1>2, <1>3, <1>4 DEF Query, At
<1>5. CASE Acquire(g)
  BY <1>2, <1>3, <1>5 DEF Acquire, At
<1>6. CASE Load(g)
  <2>1. CASE task' = [task EXCEPT ![g].pc = "insert", ![g].runDay = day, ![g].todo = Selected(g)]
    BY <1>1, <1>6, <2>1 DEF Load, At, Locals
  <2>2. CASE Leave(g)
    BY <1>2, <1>3, <1>6, <2>2 DEF Load, At, Leave
  <2> QED
    BY <1>6, <2>1, <2>2 DEF Load
<1>7. CASE Insert(g)
  <2>1. CASE task' = [task EXCEPT ![g].pc = "ask", ![g].row = Len(rows) + 1]
    BY <1>1, <1>7, <2>1 DEF Insert, At, Locals
  <2>2. CASE Leave(g)
    BY <1>2, <1>3, <1>7, <2>2 DEF Insert, At, Leave
  <2> QED
    BY <1>7, <2>1, <2>2 DEF Insert
<1>8. ASSUME NEW p \in Providers, Ask(g, p)
      PROVE  /\ \A h \in Tasks \ {g} : task'[h] = task[h]
             /\ UNCHANGED clock
             /\ task[g].pc # "idle"
             /\ task'[g].trigger = task[g].trigger /\ task'[g].day = task[g].day
  <2>1. CASE task' = [task EXCEPT ![g].pc = "stamp", ![g].todo = @ \ {p}, ![g].granter = {p}]
    BY <1>1, <1>8, <2>1 DEF Ask, At, Locals
  <2>2. CASE task' = [task EXCEPT ![g].todo = @ \ {p}, ![g].failed = TRUE]
    BY <1>1, <1>8, <2>2 DEF Ask, At, Locals
  <2> QED
    BY <1>8, <2>1, <2>2 DEF Ask
<1>9. CASE Stamp(g)
  <2>1. task' = [task EXCEPT ![g].pc = "ask", ![g].granter = {}]
    BY <1>9 DEF Stamp
  <2> QED
    BY <1>1, <1>9, <2>1 DEF Stamp, At, Locals
<1>10. CASE Finish(g)
  BY <1>2, <1>3, <1>10 DEF Finish, At, Leave
<1>11. CASE Release(g)
  BY <1>2, <1>3, <1>11 DEF Release, At
<1>12. CASE Note(g)
  BY <1>3, <1>12 DEF Note, At
<1> QED
  BY <1>4, <1>5, <1>6, <1>7, <1>8, <1>9, <1>10, <1>11, <1>12 DEF Step

\* The goroutine that makes a step, as long as the step adds no scheduled run.
LEMMA OwnTicking ==
  ASSUME TypeOK, NEW g \in Tasks, Ticking(g), NoNewCron, Step(g), ~RunScheduledCheckinIfNeeded(g)
  PROVE  Ticking(g)'
<1>1. task[g] \in Locals /\ task \in [Tasks -> Locals] /\ day \in Nat /\ rows \in Seq(Runs)
  BY DEF TypeOK, Days
<1>2. UNCHANGED day /\ task[g].pc # "idle"
  BY StepKeepsRun DEF clock
<1>3. CASE task'[g] = Idle
  <2>1. task'[g].trigger = "cron" /\ task'[g].pc = "idle" /\ task'[g].day = 0
    BY <1>3 DEF Idle, Fresh
  <2> QED
    BY <1>1, <1>2, <2>1 DEF Ticking, At
<1>4. CASE task'[g].trigger = task[g].trigger /\ task'[g].day = task[g].day
  <2>1. CASE task'[g].pc \notin {"query", "acquire", "load", "insert"}
    BY <1>1, <1>2, <1>4, <2>1 DEF Ticking, At
  <2>2. ASSUME task'[g].pc \in {"query", "acquire", "load", "insert"}
        PROVE  \/ Query(g) /\ task'[g].pc = "acquire" /\ ~CronRunOf(task[g].day)
               \/ Acquire(g) /\ task'[g].pc = "load"
               \/ Load(g) /\ task'[g].pc = "insert" /\ task'[g].runDay = day
    <3>1. ASSUME NEW label, GoTo(g, label)
          PROVE  task'[g].pc = label
      BY <1>1, <3>1 DEF GoTo, Locals
    <3>2. ASSUME Return(g)
          PROVE  task'[g].pc = "idle"
      BY <1>1, <3>2, IdleFacts DEF Return
    <3>3. CASE Query(g)
      BY <2>2, <3>1, <3>2, <3>3 DEF Query
    <3>4. CASE Acquire(g)
      BY <2>2, <3>1, <3>2, <3>4 DEF Acquire
    <3>5. CASE Load(g)
      <4>1. CASE task' = [task EXCEPT ![g].pc = "insert", ![g].runDay = day,
                                      ![g].todo = Selected(g)]
        BY <1>1, <3>5, <4>1 DEF Locals
      <4>2. CASE Leave(g)
        BY <2>2, <3>1, <3>2, <4>2 DEF Leave
      <4> QED
        BY <3>5, <4>1, <4>2 DEF Load
    <3>6. CASE Insert(g)
      <4>1. CASE task' = [task EXCEPT ![g].pc = "ask", ![g].row = Len(rows) + 1]
        <5>1. task'[g].pc = "ask"
          BY <1>1, <4>1 DEF Locals
        <5> QED
          BY <2>2, <5>1
      <4>2. CASE Leave(g)
        BY <2>2, <3>1, <3>2, <4>2 DEF Leave
      <4> QED
        BY <3>6, <4>1, <4>2 DEF Insert
    <3>7. ASSUME NEW p \in Providers, Ask(g, p)
          PROVE  FALSE
      <4>1. CASE task' = [task EXCEPT ![g].pc = "stamp", ![g].todo = @ \ {p}, ![g].granter = {p}]
        <5>1. task'[g].pc = "stamp"
          BY <1>1, <4>1 DEF Locals
        <5> QED
          BY <2>2, <5>1
      <4>2. CASE task' = [task EXCEPT ![g].todo = @ \ {p}, ![g].failed = TRUE]
        <5>1. task'[g].pc = "ask"
          BY <1>1, <3>7, <4>2 DEF Locals, Ask, At
        <5> QED
          BY <2>2, <5>1
      <4> QED
        BY <3>7, <4>1, <4>2 DEF Ask
    <3>8. CASE Stamp(g)
      <4>1. task' = [task EXCEPT ![g].pc = "ask", ![g].granter = {}]
        BY <3>8 DEF Stamp
      <4>2. task'[g].pc = "ask"
        BY <1>1, <4>1 DEF Locals
      <4> QED
        BY <2>2, <4>2
    <3>9. CASE Finish(g) \/ Release(g) \/ Note(g)
      BY <2>2, <3>1, <3>2, <3>9 DEF Finish, Release, Note, Leave
    <3> QED
      BY <3>3, <3>4, <3>5, <3>6, <3>7, <3>8, <3>9 DEF Step
  <2>3. CASE Query(g) /\ task'[g].pc = "acquire" /\ ~CronRunOf(task[g].day)
    BY <1>1, <1>2, <1>4, <2>3 DEF Ticking, At, Query, NoNewCron, CronRunOf
  <2>4. CASE Acquire(g) /\ task'[g].pc = "load"
    BY <1>1, <1>2, <1>4, <2>4 DEF Ticking, At, Acquire, NoNewCron
  <2>5. CASE Load(g) /\ task'[g].pc = "insert" /\ task'[g].runDay = day
    BY <1>1, <1>2, <1>4, <2>5 DEF Ticking, At, Load, NoNewCron
  <2> QED
    BY <2>1, <2>2, <2>3, <2>4, <2>5
<1> QED
  BY <1>3, <1>4, StepKeepsRun

\* Only a scheduled run that writes its row adds one.
LEMMA WhoAddsCron ==
  ASSUME TypeOK, NEW g \in Tasks, Step(g)
  PROVE  \/ NoNewCron
         \/ /\ Insert(g) /\ task[g].trigger = "cron" /\ task'[g].pc = "ask"
            /\ rows' = Append(rows, [trigger |-> "cron", day |-> task[g].runDay,
                                     targets |-> task[g].todo, status |-> "running"])
<1>1. rows \in Seq(Runs) /\ task[g] \in Locals /\ task \in [Tasks -> Locals] /\ Len(rows) \in Nat
  BY DEF TypeOK
<1>2. CASE UNCHANGED rows
  BY <1>2 DEF NoNewCron
<1>3. CASE Insert(g) /\ ~UNCHANGED rows
  <2> DEFINE row == [trigger |-> task[g].trigger, day |-> task[g].runDay,
                     targets |-> task[g].todo, status |-> "running"]
  <2>1. rows' = Append(rows, row) /\ task' = [task EXCEPT ![g].pc = "ask", ![g].row = Len(rows) + 1]
    BY <1>3 DEF Insert
  <2>2. task'[g].pc = "ask"
    BY <1>1, <2>1 DEF Locals
  <2>3. row \in Runs /\ row.trigger = task[g].trigger
    BY <1>1 DEF Runs, Locals
  <2>4. CASE task[g].trigger = "cron"
    BY <1>3, <2>1, <2>2, <2>4
  <2> HIDE DEF row
  <2>5. /\ Len(rows') = Len(rows) + 1 /\ rows'[Len(rows) + 1] = row
        /\ \A i \in 1 .. Len(rows) : rows'[i] = rows[i]
    BY <1>1, <2>1, <2>3
  <2>6. CASE task[g].trigger # "cron"
    BY <1>1, <2>3, <2>5, <2>6 DEF NoNewCron
  <2> QED
    BY <2>4, <2>6
<1>4. CASE Finish(g) /\ ~UNCHANGED rows
  <2> DEFINE o == Outcome(g)
  <2>1. rows' = [rows EXCEPT ![task[g].row].status = o]
    BY <1>4 DEF Finish
  <2> HIDE DEF o
  <2>2. Len(rows') = Len(rows)
    BY <1>1, <2>1
  <2>3. \A i \in 1 .. Len(rows) : rows[i] \in Runs
    BY <1>1
  <2>4. \A i \in 1 .. Len(rows) : rows'[i].trigger = rows[i].trigger /\ rows'[i].day = rows[i].day
    BY <1>1, <2>1, <2>3 DEF Runs
  <2> QED
    BY <2>2, <2>4 DEF NoNewCron
<1> QED
  <2>1. UNCHANGED rows \/ Insert(g) \/ Finish(g)
    BY DEF Step, RunScheduledCheckinIfNeeded, Query, Acquire, Load, Ask, Stamp, Release, Note, table
  <2> QED
    BY <1>2, <1>3, <1>4, <2>1

\* A step of a goroutine.
LEMMA StepOncePerDay ==
  ASSUME NEW tick, CronTasks = {tick}, OncePerDayInv, NEW g \in Tasks, Step(g)
  PROVE  CronOncePerDay' /\ \A h \in Tasks : Ticking(h)'
<1>1. TypeOK /\ CheckinInv /\ CronOncePerDay /\ \A h \in Tasks : Ticking(h)
  BY DEF OncePerDayInv, CheckinInv
<1>2. day \in Nat /\ rows \in Seq(Runs) /\ task[g] \in Locals /\ Len(rows) \in Nat
      /\ task \in [Tasks -> Locals]
  BY <1>1 DEF TypeOK, Days
<1>3. CASE RunScheduledCheckinIfNeeded(g)
  <2> DEFINE l == Fresh("cron", "query", day, 0, {})
  <2>1. /\ UNCHANGED <<rows, day>> /\ g \in CronTasks /\ task' = [task EXCEPT ![g] = l]
    BY <1>3 DEF RunScheduledCheckinIfNeeded, table, clock
  <2>2. l.pc = "query" /\ l.trigger = "cron" /\ l.day = day
    BY DEF Fresh
  <2> HIDE DEF l
  <2>3. task'[g] = l /\ \A h \in Tasks \ {g} : task'[h] = task[h]
    BY <1>2, <2>1
  <2>4. \A i \in 1 .. Len(rows) : rows[i].day <= day
    BY <1>1 DEF CheckinInv
  <2>5. \A i \in 1 .. Len(rows) : rows[i].day \in Nat
    <3> TAKE i \in 1 .. Len(rows)
    <3>1. rows[i] \in Runs
      BY <1>2
    <3> QED
      BY <3>1 DEF Runs, Days
  <2>6. Ticking(g)'
    BY <1>2, <2>1, <2>2, <2>3, <2>4, <2>5 DEF Ticking, At
  <2>7. NoNewCron
    BY <2>1 DEF NoNewCron
  <2>8. \A h \in Tasks \ {g} : Ticking(h)'
    BY <1>1, <1>2, <2>1, <2>3, <2>7, TickingKept
  <2> QED
    BY <1>1, <2>6, <2>7, <2>8, OnceKept
<1>4. CASE ~RunScheduledCheckinIfNeeded(g) /\ NoNewCron
  <2>1. UNCHANGED day /\ \A h \in Tasks \ {g} : task'[h] = task[h]
    BY <1>1, <1>4, StepKeepsRun DEF clock
  <2>2. \A h \in Tasks \ {g} : Ticking(h)'
    BY <1>1, <1>2, <1>4, <2>1, TickingKept
  <2>3. Ticking(g)'
    BY <1>1, <1>4, OwnTicking
  <2> QED
    BY <1>1, <1>4, <2>2, <2>3, OnceKept
<1>5. ASSUME ~RunScheduledCheckinIfNeeded(g), Insert(g), task[g].trigger = "cron",
             task'[g].pc = "ask",
             rows' = Append(rows, [trigger |-> "cron", day |-> task[g].runDay,
                                   targets |-> task[g].todo, status |-> "running"])
      PROVE  CronOncePerDay' /\ \A h \in Tasks : Ticking(h)'
  <2> DEFINE row == [trigger |-> "cron", day |-> task[g].runDay,
                     targets |-> task[g].todo, status |-> "running"]
  <2>1. task[g].pc = "insert"
    BY <1>5 DEF Insert, At
  <2>2. g \in CronTasks
    BY <1>1, <1>5, <2>1 DEF Ticking, At
  <2>3. /\ task[g].runDay \in Nat /\ task[g].day \in Nat /\ task[g].runDay >= task[g].day
        /\ \A i \in 1 .. Len(rows) : rows[i].trigger = "cron" => rows[i].day < task[g].day
    BY <1>1, <1>2, <2>1, <2>2 DEF Ticking, At, Locals, Days
  <2>4. row \in Runs /\ row.day = task[g].runDay
    BY <1>2 DEF Runs, Locals, Triggers
  <2>5. rows' = Append(rows, row)
    BY <1>5
  <2> HIDE DEF row
  <2>6. /\ Len(rows') = Len(rows) + 1 /\ rows'[Len(rows) + 1] = row
        /\ \A i \in 1 .. Len(rows) : rows'[i] = rows[i]
    BY <1>2, <2>4, <2>5
  <2>7. \A i \in 1 .. Len(rows) : rows[i].day \in Nat
    <3> TAKE i \in 1 .. Len(rows)
    <3>1. rows[i] \in Runs
      BY <1>2
    <3> QED
      BY <3>1 DEF Runs, Days
  <2>8. CronOncePerDay'
    <3> SUFFICES ASSUME NEW i \in 1 .. Len(rows'), NEW j \in 1 .. Len(rows'),
                        rows'[i].trigger = "cron", rows'[j].trigger = "cron",
                        rows'[i].day = rows'[j].day
                 PROVE  i = j
      BY DEF CronOncePerDay
    <3>1. CASE i \in 1 .. Len(rows) /\ j \in 1 .. Len(rows)
      BY <1>1, <2>6, <3>1 DEF CronOncePerDay
    <3>2. CASE i = Len(rows) + 1 /\ j \in 1 .. Len(rows)
      BY <2>3, <2>4, <2>6, <2>7, <3>2
    <3>3. CASE j = Len(rows) + 1 /\ i \in 1 .. Len(rows)
      BY <2>3, <2>4, <2>6, <2>7, <3>3
    <3> QED
      BY <1>2, <2>6, <3>1, <3>2, <3>3
  <2>9. /\ UNCHANGED day /\ \A h \in Tasks \ {g} : task'[h] = task[h]
        /\ \/ task'[g] = Idle
           \/ task'[g].trigger = task[g].trigger /\ task'[g].day = task[g].day
    BY <1>1, <1>5, StepKeepsRun DEF clock
  <2>10. Ticking(g)'
    <3>1. task'[g].trigger = "cron" /\ task'[g].day = task[g].day
      BY <1>5, <2>9, IdleFacts
    <3>2. task[g].day <= day
      BY <1>1, <2>2 DEF Ticking
    <3> QED
      BY <1>5, <2>2, <2>9, <3>1, <3>2 DEF Ticking, At
  <2>11. \A h \in Tasks \ {g} : Ticking(h)'
    <3> TAKE h \in Tasks \ {g}
    <3>1. h \notin CronTasks
      BY <2>2
    <3>2. Ticking(h) /\ task'[h] = task[h]
      BY <1>1, <2>9
    <3> QED
      BY <3>1, <3>2 DEF Ticking, At
  <2> QED
    BY <2>8, <2>10, <2>11
<1> QED
  <2>1. CASE NoNewCron
    BY <1>3, <1>4, <2>1
  <2>2. CASE ~NoNewCron
    <3>1. /\ Insert(g) /\ task[g].trigger = "cron" /\ task'[g].pc = "ask"
          /\ rows' = Append(rows, [trigger |-> "cron", day |-> task[g].runDay,
                                   targets |-> task[g].todo, status |-> "running"])
      BY <1>1, <2>2, WhoAddsCron
    <3>2. ~RunScheduledCheckinIfNeeded(g)
      BY <3>1 DEF Insert, RunScheduledCheckinIfNeeded, At
    <3> QED
      BY <1>5, <3>1, <3>2
  <2> QED
    BY <2>1, <2>2

LEMMA NextOncePerDay ==
  ASSUME NEW tick, CronTasks = {tick}, OncePerDayInv, [Next]_kvars
  PROVE  OncePerDayInv'
<1>1. TypeOK /\ CheckinInv /\ CronOncePerDay /\ \A h \in Tasks : Ticking(h)
  BY DEF OncePerDayInv, CheckinInv
<1>2. CheckinInv'
  BY <1>1, NextCheckinInv
<1>3. day \in Nat /\ task \in [Tasks -> Locals]
  BY <1>1 DEF TypeOK, Days
<1>4. CASE \E g \in Tasks : Step(g)
  BY <1>2, <1>4, StepOncePerDay DEF OncePerDayInv
<1>5. ASSUME NEW g \in Tasks, Request(g)
      PROVE  OncePerDayInv'
  <2>1. PICK l : Begin(g, l) /\ l.trigger # "cron"
    <3>1. Fresh("manual", "acquire", 0, 0, {}).trigger # "cron"
      BY DEF Fresh
    <3>2. \A p \in Providers : Fresh("manual-provider", "insert", 0, day, {p}).trigger # "cron"
      BY DEF Fresh
    <3> QED
      BY <1>5, <3>1, <3>2 DEF Request, TriggerUncheckedCheckinRun, RunProviderCheckin
  <2>2. g \notin CronTasks
    BY <2>1, CheckinAssumption DEF Begin
  <2>3. UNCHANGED <<rows, day>> /\ task' = [task EXCEPT ![g] = l]
    BY <2>1 DEF Begin, table, clock
  <2>4. NoNewCron
    BY <2>3 DEF NoNewCron
  <2>5. task'[g] = l /\ \A h \in Tasks \ {g} : task'[h] = task[h]
    BY <1>3, <2>3
  <2>6. Ticking(g)'
    BY <2>1, <2>2, <2>5 DEF Ticking
  <2>7. \A h \in Tasks \ {g} : Ticking(h)'
    BY <1>1, <1>3, <2>3, <2>4, <2>5, TickingKept
  <2> QED
    BY <1>1, <1>2, <2>4, <2>6, <2>7, OnceKept DEF OncePerDayInv
<1>6. CASE Crash
  <2>1. UNCHANGED <<rows, day>> /\ task' = [h \in Tasks |-> Idle]
    BY <1>6 DEF Crash, table, clock
  <2>2. NoNewCron
    BY <2>1 DEF NoNewCron
  <2>3. Idle.trigger = "cron" /\ Idle.day = 0 /\ Idle.pc = "idle"
    BY DEF Idle, Fresh
  <2>4. \A h \in Tasks : Ticking(h)'
    BY <1>3, <2>1, <2>3 DEF Ticking, At
  <2> QED
    BY <1>1, <1>2, <2>2, <2>4, OnceKept DEF OncePerDayInv
<1>7. CASE Due \/ NextDay \/ (\E p \in Providers : Edit(p)) \/ UNCHANGED kvars
  <2>1. UNCHANGED <<rows, task>> /\ day' \in Nat /\ day <= day'
    BY <1>3, <1>7 DEF Due, NextDay, Edit, kvars, clock, table
  <2>2. NoNewCron
    BY <2>1 DEF NoNewCron
  <2>3. \A h \in Tasks : Ticking(h)'
    BY <1>1, <2>1, <2>2, TickingKept
  <2> QED
    BY <1>1, <1>2, <2>2, <2>3, OnceKept DEF OncePerDayInv
<1> QED
  BY <1>4, <1>5, <1>6, <1>7 DEF Next

\* The scheduled run is recorded at most once for each day, as long as the
\* minute's goroutine has returned before the next one starts.
THEOREM CronOncePerDayHolds ==
  ASSUME NEW tick, CronTasks = {tick}
  PROVE  SafeSpec => []CronOncePerDay
<1>1. Init => OncePerDayInv
  <2> SUFFICES ASSUME Init PROVE OncePerDayInv
    OBVIOUS
  <2>1. CheckinInv
    BY InitCheckinInv
  <2>2. Idle.trigger = "cron" /\ Idle.day = 0 /\ Idle.pc = "idle"
    BY DEF Idle, Fresh
  <2>3. day = 1 /\ rows = <<>> /\ \A h \in Tasks : task[h] = Idle
    BY DEF Init
  <2>4. \A h \in Tasks : Ticking(h)
    BY <2>2, <2>3 DEF Ticking, At
  <2>5. CronOncePerDay
    BY <2>3 DEF CronOncePerDay
  <2> QED
    BY <2>1, <2>4, <2>5 DEF OncePerDayInv
<1>2. OncePerDayInv /\ [Next]_kvars => OncePerDayInv'
  BY NextOncePerDay
<1>3. OncePerDayInv => CronOncePerDay
  BY DEF OncePerDayInv
<1> QED
  BY <1>1, <1>2, <1>3, PTL DEF SafeSpec
=============================================================================
