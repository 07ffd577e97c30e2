------------------------------ MODULE AdminProofs ------------------------------
(***************************************************************************)
(* Proofs about Options, for any number of requests at work, about         *)
(* Restore, for any number of requests and packages, and about RateLimit,  *)
(* for any limit, duration and number of requests at work.                 *)
(***************************************************************************)
EXTENDS Options, Restore, RateLimit, FiniteSetTheorems, TLAPS

-----------------------------------------------------------------------------
(* Options: what the steps do                                               *)

LEMMA LoadedTyped ==
  ASSUME NEW rows, rows \in [Keys -> {"absent", "", "true", "false", "id"}]
  PROVE  Loaded(rows) \in [Keys -> {"", "true", "false", "id"}]
<1>1. /\ Default["PasswordLoginEnabled"] = "true"
      /\ Default["GitHubOAuthEnabled"] = "false"
      /\ Default["GitHubClientId"] = ""
  BY DEF Default
<1>2. \A key \in Keys : Default[key] \in {"", "true", "false", "id"}
  BY <1>1 DEF Keys, Switches
<1> QED
  BY <1>2 DEF Loaded

LEMMA RestedTyped == Rested \in Asking
BY DEF Rested, Asking, Keys

LEMMA UpdateTyped ==
  ASSUME OptionsTypeOK, NEW u \in Updates
  PROVE  /\ update \in [Updates -> Asking] /\ update[u] \in Asking
         /\ update[u].key \in Keys
         /\ update[u].value \in {"true", "false", "", "id"}
<1>1. update \in [Updates -> Asking] /\ update[u] \in Asking
  BY DEF OptionsTypeOK
<1> QED
  BY <1>1 DEF Asking

\* A request that goes to another statement keeps its key and its value.
LEMMA GoesOn ==
  ASSUME OptionsTypeOK, NEW u \in Updates, NEW place \in {"create", "save", "set"},
         Goes(u, place)
  PROVE  /\ update' \in [Updates -> Asking]
         /\ update'[u].at = place
         /\ update'[u].key = update[u].key /\ update'[u].value = update[u].value
         /\ \A v \in Updates \ {u} : update'[v] = update[v]
<1>1. update \in [Updates -> Asking] /\ update[u] \in Asking
  BY UpdateTyped
<1>2. place # "rest"
  OBVIOUS
<1>3. update' = [update EXCEPT ![u] = [update[u] EXCEPT !.at = place]]
  BY <1>2 DEF Goes
<1>4. [update[u] EXCEPT !.at = place] \in Asking
  BY <1>1 DEF Asking
<1> QED
  BY <1>1, <1>3, <1>4 DEF Asking

LEMMA GoesToRest ==
  ASSUME OptionsTypeOK, NEW u \in Updates, Goes(u, "rest")
  PROVE  /\ update' \in [Updates -> Asking]
         /\ update'[u] = Rested
         /\ \A v \in Updates \ {u} : update'[v] = update[v]
<1>1. update \in [Updates -> Asking]
  BY UpdateTyped
<1>2. update' = [update EXCEPT ![u] = Rested]
  BY DEF Goes
<1> QED
  BY <1>1, <1>2, RestedTyped

LEMMA Asks ==
  ASSUME OptionsTypeOK, NEW u \in Updates, NEW key \in Keys, NEW value \in Values(key),
         UpdateOption(u, key, value)
  PROVE  /\ update' \in [Updates -> Asking]
         /\ update'[u].at = "create" /\ update'[u].key = key /\ update'[u].value = value
         /\ \A v \in Updates \ {u} : update'[v] = update[v]
<1>1. update \in [Updates -> Asking]
  BY UpdateTyped
<1>2. [at |-> "create", key |-> key, value |-> value] \in Asking
  BY DEF Values, Asking
<1>3. update' = [update EXCEPT ![u] = [at |-> "create", key |-> key, value |-> value]]
  BY DEF UpdateOption
<1> QED
  BY <1>1, <1>2, <1>3

-----------------------------------------------------------------------------
(* Types                                                                    *)

LEMMA OptionsTypeInitially == OptionsInit => OptionsTypeOK
<1> SUFFICES ASSUME OptionsInit PROVE OptionsTypeOK
  OBVIOUS
<1>1. table \in [Keys -> {"absent", "", "true", "false", "id"}]
  BY DEF OptionsInit
<1>2. memory \in [Keys -> {"", "true", "false", "id"}]
  BY <1>1, LoadedTyped DEF OptionsInit
<1>3. update \in [Updates -> Asking]
  BY RestedTyped DEF OptionsInit
<1>4. accepted \in 0 .. MaxUpdates
  BY OptionsAssumption DEF OptionsInit
<1> QED
  BY <1>1, <1>2, <1>3, <1>4 DEF OptionsInit, OptionsTypeOK

LEMMA OptionsTypeKept == OptionsTypeOK /\ [OptionsNext]_optionsVars => OptionsTypeOK'
<1> SUFFICES ASSUME OptionsTypeOK, [OptionsNext]_optionsVars
             PROVE  OptionsTypeOK'
  OBVIOUS
<1>0. /\ table \in [Keys -> {"absent", "", "true", "false", "id"}]
      /\ memory \in [Keys -> {"", "true", "false", "id"}]
      /\ overlapped \in BOOLEAN /\ halved \in BOOLEAN
      /\ unsure \subseteq Keys /\ accepted \in 0 .. MaxUpdates
  BY DEF OptionsTypeOK
<1>1. ASSUME NEW u \in Updates, NEW key \in Keys, NEW value \in Values(key),
             UpdateOption(u, key, value)
      PROVE  OptionsTypeOK'
  <2>1. update' \in [Updates -> Asking]
    BY <1>1, Asks
  <2>2. overlapped' \in BOOLEAN
    BY <1>1 DEF UpdateOption
  <2>3. accepted < MaxUpdates /\ accepted' = accepted + 1
    BY <1>1 DEF UpdateOption
  <2>4. accepted' \in 0 .. MaxUpdates
    <3>1. accepted \in 0 .. MaxUpdates
      BY <1>0
    <3>2. MaxUpdates \in Nat
      BY OptionsAssumption
    <3> QED
      BY <2>3, <3>1, <3>2
  <2>5. UNCHANGED <<table, memory, unsure, halved>>
    BY <1>1 DEF UpdateOption
  <2> QED
    BY <1>0, <2>1, <2>2, <2>4, <2>5 DEF OptionsTypeOK
<1>2. ASSUME NEW u \in Updates, FirstOrCreate(u) PROVE OptionsTypeOK'
  <2>1. update' \in [Updates -> Asking]
    BY <1>2, GoesOn DEF FirstOrCreate
  <2>2. table' \in [Keys -> {"absent", "", "true", "false", "id"}]
    BY <1>0, <1>2 DEF FirstOrCreate
  <2> QED
    BY <1>0, <1>2, <2>1, <2>2 DEF FirstOrCreate, OptionsTypeOK
<1>3. ASSUME NEW u \in Updates, SaveOption(u) PROVE OptionsTypeOK'
  <2>1. update' \in [Updates -> Asking]
    BY <1>3, GoesOn DEF SaveOption
  <2>2. update[u].key \in Keys /\ update[u].value \in {"", "true", "false", "id"}
    BY UpdateTyped
  <2>3. \/ table' = [table EXCEPT ![update[u].key] = update[u].value]
        \/ UNCHANGED table
    BY <1>3 DEF SaveOption
  <2>4. table' \in [Keys -> {"absent", "", "true", "false", "id"}]
    BY <1>0, <2>2, <2>3
  <2>5. unsure' \in {unsure \cup {update[u].key}, unsure \ {update[u].key}}
    BY <1>3 DEF SaveOption
  <2>6. unsure' \subseteq Keys
    BY <1>0, <2>2, <2>5
  <2>7. UNCHANGED <<memory, overlapped, halved, accepted>>
    BY <1>3 DEF SaveOption
  <2> QED
    BY <1>0, <2>1, <2>4, <2>6, <2>7 DEF OptionsTypeOK
<1>4. ASSUME NEW u \in Updates, SetOption(u) PROVE OptionsTypeOK'
  <2>1. update' \in [Updates -> Asking]
    BY <1>4, GoesToRest DEF SetOption
  <2>2. memory' \in [Keys -> {"", "true", "false", "id"}]
    BY <1>0, <1>4, UpdateTyped DEF SetOption
  <2> QED
    BY <1>0, <1>4, <2>1, <2>2 DEF SetOption, OptionsTypeOK
<1>5. ASSUME Restart PROVE OptionsTypeOK'
  <2>1. memory' \in [Keys -> {"", "true", "false", "id"}]
    BY <1>0, <1>5, LoadedTyped DEF Restart
  <2>2. halved' \in BOOLEAN
    BY <1>5 DEF Restart
  <2>3. update' \in [Updates -> Asking]
    BY <1>5, RestedTyped DEF Restart
  <2> QED
    BY <1>0, <1>5, <2>1, <2>2, <2>3 DEF Restart, OptionsTypeOK
<1>6. CASE UNCHANGED optionsVars
  BY <1>6 DEF optionsVars, OptionsTypeOK
<1> QED
  BY <1>1, <1>2, <1>3, <1>4, <1>5, <1>6 DEF OptionsNext

\* Every variable keeps to its range: the values of model/option.go are those of
\* the requests, of the defaults, and of a row that was created empty.
THEOREM OptionsTypeCorrect == OptionsSpec => []OptionsTypeOK
BY OptionsTypeInitially, OptionsTypeKept, PTL DEF OptionsSpec

-----------------------------------------------------------------------------
(* A way to log in                                                          *)

Off(u) == update[u].value = "false"
Other(key) == IF key = "PasswordLoginEnabled" THEN "GitHubOAuthEnabled" ELSE "PasswordLoginEnabled"
Sets(u, key) == Going(u, "set") /\ update[u].key = key

ValuesFit == \A u \in Updates : update[u].value \in Values(update[u].key)

\* Nobody switches the one method off while another request switches off the other,
OffsAgree == ~overlapped => \A u, v \in Updates : Off(u) /\ Off(v) => update[u].key = update[v].key

\* so that the other one stays on, whatever is under way,
OtherOn == ~overlapped /\ ~halved => \A u \in Updates : Off(u) => memory[Other(update[u].key)] = "true"
SomeOn  == ~overlapped /\ ~halved => \E key \in Switches : memory[key] = "true"

\* and what a restart loads is what is in memory or is about to be set.
Agree ==
  \A key \in Keys \ unsure :
    /\ \A u, v \in Updates : Sets(u, key) /\ Sets(v, key) => u = v
    /\ \A u \in Updates : Sets(u, key) => table[key] = update[u].value
    /\ (\A u \in Updates : ~Sets(u, key)) =>
         \/ Loaded(table)[key] = memory[key]
         \/ /\ key \in Switches /\ table[key] = ""
            /\ \E u \in Updates : Going(u, "save") /\ update[u].key = key

OptionsInvariant ==
  OptionsTypeOK /\ ValuesFit /\ OffsAgree /\ OtherOn /\ SomeOn /\ Agree

LEMMA OptionsInitially == OptionsInit => OptionsInvariant
<1> SUFFICES ASSUME OptionsInit PROVE OptionsInvariant
  OBVIOUS
<1>1. \A u \in Updates : update[u].at = "rest" /\ update[u].value = "" /\ update[u].key = "GitHubClientId"
  BY DEF OptionsInit, Rested
<1>2. ValuesFit
  BY <1>1 DEF ValuesFit, Values, Switches
<1>3. OffsAgree /\ OtherOn
  BY <1>1 DEF OffsAgree, OtherOn, Off
<1>4. memory["PasswordLoginEnabled"] = "true"
  <2>1. "PasswordLoginEnabled" \in Keys /\ Default["PasswordLoginEnabled"] = "true"
    BY DEF Keys, Switches, Default
  <2> QED
    BY <2>1 DEF OptionsInit, Loaded
<1>5. SomeOn
  BY <1>4 DEF SomeOn, Switches
<1>6. Agree
  BY <1>1 DEF Agree, Sets, Going, OptionsInit
<1> QED
  BY <1>2, <1>3, <1>5, <1>6, OptionsTypeInitially DEF OptionsInvariant

LEMMA ValuesKept ==
  ASSUME OptionsInvariant, [OptionsNext]_optionsVars
  PROVE  ValuesFit'
<1> USE DEF OptionsInvariant
<1>1. ASSUME NEW u \in Updates, NEW key \in Keys, NEW value \in Values(key),
             UpdateOption(u, key, value)
      PROVE  ValuesFit'
  <2>1. update'[u].value \in Values(update'[u].key)
    BY <1>1, Asks
  <2>2. \A v \in Updates \ {u} : update'[v] = update[v]
    BY <1>1, Asks
  <2> QED
    BY <2>1, <2>2 DEF ValuesFit
<1>2. ASSUME NEW u \in Updates, NEW place \in {"create", "save", "set"}, Goes(u, place)
      PROVE  ValuesFit'
  BY <1>2, GoesOn DEF ValuesFit
<1>3. Rested.value \in Values(Rested.key)
  BY DEF Rested, Values, Switches
<1>4. ASSUME NEW u \in Updates, SetOption(u) PROVE ValuesFit'
  BY <1>3, <1>4, GoesToRest DEF ValuesFit, SetOption
<1>5. ASSUME Restart PROVE ValuesFit'
  BY <1>3, <1>5 DEF ValuesFit, Restart
<1>6. CASE UNCHANGED optionsVars
  BY <1>6 DEF optionsVars, ValuesFit
<1> QED
  BY <1>1, <1>2, <1>4, <1>5, <1>6 DEF OptionsNext, FirstOrCreate, SaveOption

LEMMA OffsKept ==
  ASSUME OptionsInvariant, [OptionsNext]_optionsVars
  PROVE  OffsAgree'
<1> USE DEF OptionsInvariant
<1>1. ASSUME NEW u \in Updates, NEW key \in Keys, NEW value \in Values(key),
             UpdateOption(u, key, value)
      PROVE  OffsAgree'
  <2> SUFFICES ASSUME ~overlapped', NEW v \in Updates, NEW w \in Updates, Off(v)', Off(w)'
               PROVE  update'[v].key = update'[w].key
    BY DEF OffsAgree
  <2>1. ~overlapped /\ (value = "false" => ~OtherGoesOff(key))
    BY <1>1 DEF UpdateOption
  <2>2. update'[u].key = key /\ update'[u].value = value
    BY <1>1, Asks
  <2>3. \A x \in Updates \ {u} : update'[x] = update[x]
    BY <1>1, Asks
  <2> QED
    BY <2>1, <2>2, <2>3 DEF OffsAgree, Off, OtherGoesOff
<1>2. ASSUME NEW u \in Updates, NEW place \in {"create", "save", "set"}, Goes(u, place),
             UNCHANGED overlapped
      PROVE  OffsAgree'
  BY <1>2, GoesOn DEF OffsAgree, Off
<1>3. Rested.value # "false"
  BY DEF Rested
<1>4. ASSUME NEW u \in Updates, SetOption(u) PROVE OffsAgree'
  BY <1>3, <1>4, GoesToRest DEF OffsAgree, Off, SetOption
<1>5. ASSUME Restart PROVE OffsAgree'
  BY <1>3, <1>5 DEF OffsAgree, Off, Restart
<1>6. CASE UNCHANGED optionsVars
  BY <1>6 DEF optionsVars, OffsAgree, Off
<1> QED
  BY <1>1, <1>2, <1>4, <1>5, <1>6 DEF OptionsNext, FirstOrCreate, SaveOption

LEMMA OtherFacts ==
  ASSUME OptionsInvariant, NEW u \in Updates, Off(u)
  PROVE  /\ update[u].key \in Switches
         /\ Other(update[u].key) \in Switches \ {update[u].key}
<1>1. update[u].key \in Switches
  BY DEF OptionsInvariant, ValuesFit, Values, Off
<1> QED
  BY <1>1 DEF Other, Switches

LEMMA OtherKept ==
  ASSUME OptionsInvariant, [OptionsNext]_optionsVars
  PROVE  OtherOn'
<1> USE DEF OptionsInvariant
<1>1. ASSUME NEW u \in Updates, NEW key \in Keys, NEW value \in Values(key),
             UpdateOption(u, key, value)
      PROVE  OtherOn'
  <2> SUFFICES ASSUME ~overlapped', ~halved', NEW v \in Updates, Off(v)'
               PROVE  memory'[Other(update'[v].key)] = "true"
    BY DEF OtherOn
  <2>1. ~overlapped /\ ~halved /\ memory' = memory /\ Accepts(key, value)
    BY <1>1 DEF UpdateOption
  <2>2. CASE v # u
    <3>1. update'[v] = update[v]
      BY <1>1, <2>2, Asks
    <3> QED
      BY <2>1, <3>1 DEF OtherOn, Off
  <2>3. CASE v = u
    <3>1. update'[v].key = key /\ value = "false"
      BY <1>1, <2>3, Asks DEF Off
    <3>2. key \in Switches
      BY <3>1 DEF Values
    <3> QED
      BY <2>1, <3>1, <3>2 DEF Accepts, SwitchedOn, Other, Switches
  <2> QED
    BY <2>2, <2>3
<1>2. ASSUME NEW u \in Updates, NEW place \in {"create", "save", "set"}, Goes(u, place),
             UNCHANGED <<memory, overlapped, halved>>
      PROVE  OtherOn'
  <2>1. \A v \in Updates : update'[v].key = update[v].key /\ update'[v].value = update[v].value
    BY <1>2, GoesOn
  <2> QED
    BY <1>2, <2>1 DEF OtherOn, Off
<1>3. Rested.value # "false"
  BY DEF Rested
<1>4. ASSUME NEW u \in Updates, SetOption(u) PROVE OtherOn'
  <2> SUFFICES ASSUME ~overlapped', ~halved', NEW v \in Updates, Off(v)'
               PROVE  memory'[Other(update'[v].key)] = "true"
    BY DEF OtherOn
  <2>1. ~overlapped /\ ~halved
    BY <1>4 DEF SetOption
  <2>2. v # u /\ update'[v] = update[v]
    BY <1>3, <1>4, GoesToRest DEF Off, SetOption
  <2>3. Off(v) /\ memory[Other(update[v].key)] = "true"
    BY <2>1, <2>2 DEF OtherOn, Off
  <2>4. memory' = [memory EXCEPT ![update[u].key] = update[u].value]
    BY <1>4 DEF SetOption
  <2>5. CASE update[u].key # Other(update[v].key)
    BY <2>2, <2>3, <2>4, <2>5, OtherFacts DEF OptionsTypeOK, Keys
  <2>6. CASE update[u].key = Other(update[v].key)
    <3>1. ~Off(u)
      BY <2>1, <2>3, <2>6, OtherFacts DEF OffsAgree
    <3>2. update[u].value = "true"
      BY <2>3, <2>6, <3>1, OtherFacts DEF ValuesFit, Values, Off
    <3> QED
      BY <2>2, <2>3, <2>4, <2>6, <3>2, OtherFacts DEF OptionsTypeOK, Keys
  <2> QED
    BY <2>5, <2>6
<1>5. ASSUME Restart PROVE OtherOn'
  BY <1>3, <1>5 DEF OtherOn, Off, Restart
<1>6. CASE UNCHANGED optionsVars
  BY <1>6 DEF optionsVars, OtherOn, Off
<1> QED
  BY <1>1, <1>2, <1>4, <1>5, <1>6 DEF OptionsNext, FirstOrCreate, SaveOption

LEMMA SomeKept ==
  ASSUME OptionsInvariant, [OptionsNext]_optionsVars
  PROVE  SomeOn'
<1> USE DEF OptionsInvariant
<1> SUFFICES ASSUME ~overlapped', ~halved'
             PROVE  \E key \in Switches : memory'[key] = "true"
  BY DEF SomeOn
<1>1. CASE UNCHANGED <<memory, halved>> /\ ~overlapped
  BY <1>1 DEF SomeOn
<1>2. ASSUME NEW u \in Updates, NEW key \in Keys, NEW value \in Values(key),
             UpdateOption(u, key, value)
      PROVE  \E k \in Switches : memory'[k] = "true"
  BY <1>1, <1>2 DEF UpdateOption
<1>3. ASSUME NEW u \in Updates, FirstOrCreate(u) \/ SaveOption(u)
      PROVE  \E key \in Switches : memory'[key] = "true"
  BY <1>1, <1>3 DEF FirstOrCreate, SaveOption
<1>4. ASSUME NEW u \in Updates, SetOption(u)
      PROVE  \E key \in Switches : memory'[key] = "true"
  <2>1. ~overlapped /\ ~halved
    BY <1>4 DEF SetOption
  <2>2. PICK key \in Switches : memory[key] = "true"
    BY <2>1 DEF SomeOn
  <2>3. memory' = [memory EXCEPT ![update[u].key] = update[u].value]
    BY <1>4 DEF SetOption
  <2>4. CASE Off(u)
    <3>1. memory[Other(update[u].key)] = "true"
      BY <2>1, <2>4 DEF OtherOn
    <3>2. memory'[Other(update[u].key)] = "true"
      BY <2>3, <2>4, <3>1, OtherFacts DEF OptionsTypeOK, Keys
    <3> QED
      BY <2>4, <3>2, OtherFacts
  <2>5. CASE ~Off(u) /\ update[u].key = key
    <3>1. update[u].value = "true"
      BY <2>5 DEF ValuesFit, Values, Off
    <3> QED
      BY <2>3, <2>5, <3>1 DEF OptionsTypeOK, Keys
  <2>6. CASE update[u].key # key
    BY <2>2, <2>3, <2>6 DEF OptionsTypeOK, Keys
  <2> QED
    BY <2>4, <2>5, <2>6
<1>5. ASSUME Restart
      PROVE  \E key \in Switches : memory'[key] = "true"
  <2>1. /\ ~overlapped /\ ~halved /\ unsure = {}
        /\ \A key \in Switches : table[key] # ""
        /\ memory' = Loaded(table)
    BY <1>5 DEF Restart
  <2>2. ASSUME NEW key \in Switches, \A u \in Updates : ~Sets(u, key)
        PROVE  memory'[key] = memory[key]
    BY <2>1, <2>2 DEF Agree, Keys
  <2>3. ASSUME NEW key \in Switches, NEW u \in Updates, Sets(u, key)
        PROVE  memory'[key] = update[u].value
    <3>1. table[key] = update[u].value
      BY <2>1, <2>3 DEF Agree, Keys
    <3>2. update[u].value # "absent"
      BY UpdateTyped
    <3> QED
      BY <2>1, <3>1, <3>2 DEF Loaded, Keys
  <2>4. PICK key \in Switches : memory[key] = "true"
    BY <2>1 DEF SomeOn
  <2>5. CASE \A u \in Updates : ~Sets(u, key)
    BY <2>2, <2>4, <2>5
  <2>6. ASSUME NEW u \in Updates, Sets(u, key)
        PROVE  \E k \in Switches : memory'[k] = "true"
    <3>1. CASE ~Off(u)
      <4>1. update[u].value = "true"
        BY <2>6, <3>1 DEF ValuesFit, Values, Off, Sets
      <4> QED
        BY <2>3, <2>6, <4>1
    <3>2. CASE Off(u)
      <4> DEFINE other == Other(update[u].key)
      <4>1. other \in Switches /\ other # update[u].key /\ memory[other] = "true"
        BY <2>1, <3>2, OtherFacts DEF OtherOn
      <4>2. CASE \A v \in Updates : ~Sets(v, other)
        BY <2>2, <4>1, <4>2
      <4>3. ASSUME NEW v \in Updates, Sets(v, other)
            PROVE  memory'[other] = "true"
        <5>1. ~Off(v)
          BY <2>1, <3>2, <4>1, <4>3 DEF OffsAgree, Sets
        <5>2. update[v].value = "true"
          BY <4>1, <4>3, <5>1 DEF ValuesFit, Values, Off, Sets
        <5> QED
          BY <2>3, <4>1, <4>3, <5>2
      <4> QED
        BY <4>1, <4>2, <4>3
    <3> QED
      BY <3>1, <3>2
  <2> QED
    BY <2>5, <2>6
<1>6. CASE UNCHANGED optionsVars
  BY <1>1, <1>6 DEF optionsVars
<1> QED
  BY <1>2, <1>3, <1>4, <1>5, <1>6 DEF OptionsNext

LEMMA AgreeKept ==
  ASSUME OptionsInvariant, [OptionsNext]_optionsVars
  PROVE  Agree'
<1> USE DEF OptionsInvariant
<1> DEFINE Unique(key) == \A u, v \in Updates : Sets(u, key) /\ Sets(v, key) => u = v
           Saved(key)  == \A u \in Updates : Sets(u, key) => table[key] = update[u].value
           Made(key)   == /\ key \in Switches /\ table[key] = ""
                          /\ \E u \in Updates : Going(u, "save") /\ update[u].key = key
           Still(key)  == (\A u \in Updates : ~Sets(u, key)) =>
                            Loaded(table)[key] = memory[key] \/ Made(key)
<1>0. \A key \in Keys \ unsure : Unique(key) /\ Saved(key) /\ Still(key)
  BY DEF Agree
<1> SUFFICES ASSUME NEW key \in Keys, key \notin unsure'
             PROVE  (Unique(key) /\ Saved(key) /\ Still(key))'
  BY DEF Agree
<1> HIDE DEF Unique, Saved, Made, Still
<1>a. table \in [Keys -> {"absent", "", "true", "false", "id"}]
      /\ memory \in [Keys -> {"", "true", "false", "id"}]
  BY DEF OptionsTypeOK
\* A step that leaves the option "key" alone.
<1>b. ASSUME key \notin unsure, table'[key] = table[key], memory'[key] = memory[key],
             \A v \in Updates : /\ Sets(v, key)' <=> Sets(v, key)
                                /\ Sets(v, key) => update'[v].value = update[v].value
                                /\ Going(v, "save") /\ update[v].key = key =>
                                     (Going(v, "save") /\ update[v].key = key)'
      PROVE  (Unique(key) /\ Saved(key) /\ Still(key))'
  <2>1. Unique(key) /\ Saved(key) /\ Still(key)
    BY <1>0, <1>b
  <2>2. Unique(key)'
    BY <1>b, <2>1 DEF Unique
  <2>3. Saved(key)'
    BY <1>b, <2>1 DEF Saved
  <2>4. Loaded(table)'[key] = Loaded(table)[key]
    BY <1>b DEF Loaded
  <2>5. Made(key) => Made(key)'
    BY <1>b DEF Made
  <2>6. Still(key)'
    BY <1>b, <2>1, <2>4, <2>5 DEF Still
  <2> QED
    BY <2>2, <2>3, <2>6
<1>1. ASSUME NEW u \in Updates, NEW k \in Keys, NEW value \in Values(k),
             UpdateOption(u, k, value)
      PROVE  (Unique(key) /\ Saved(key) /\ Still(key))'
  <2>1. update[u].at = "rest" /\ update'[u].at = "create"
    BY <1>1, Asks DEF UpdateOption, Going
  <2>2. \A v \in Updates \ {u} : update'[v] = update[v]
    BY <1>1, Asks
  <2>3. UNCHANGED <<table, memory, unsure>>
    BY <1>1 DEF UpdateOption
  <2> QED
    BY <1>b, <2>1, <2>2, <2>3 DEF Sets, Going
<1>2. ASSUME NEW u \in Updates, FirstOrCreate(u)
      PROVE  (Unique(key) /\ Saved(key) /\ Still(key))'
  <2>1. /\ update[u].at = "create" /\ update'[u].at = "save" /\ update'[u].key = update[u].key
        /\ \A v \in Updates \ {u} : update'[v] = update[v]
    BY <1>2, GoesOn DEF FirstOrCreate, Going
  <2>2. UNCHANGED <<memory, unsure>>
    BY <1>2 DEF FirstOrCreate
  <2>3. CASE table'[key] = table[key]
    BY <1>b, <2>1, <2>2, <2>3 DEF Sets, Going
  <2>4. CASE table'[key] # table[key]
    <3>1. update[u].key = key /\ table[key] = "absent" /\ table'[key] = ""
      BY <1>2, <1>a, <2>4 DEF FirstOrCreate
    <3>2. \A v \in Updates : ~Sets(v, key)
      <4> SUFFICES ASSUME NEW v \in Updates, Sets(v, key) PROVE FALSE
        OBVIOUS
      <4>1. table[key] = update[v].value
        BY <1>0, <2>2 DEF Saved
      <4> QED
        BY <3>1, <4>1, UpdateTyped
    <3>3. \A v \in Updates : ~Sets(v, key)'
      BY <2>1, <3>2 DEF Sets, Going
    <3>4. Loaded(table)[key] = memory[key]
      BY <1>0, <2>2, <3>1, <3>2 DEF Still, Made
    <3>5. CASE key \in Switches
      <4>1. Made(key)'
        BY <2>1, <3>1, <3>5 DEF Made, Going
      <4> QED
        BY <3>3, <4>1 DEF Unique, Saved, Still
    <3>6. CASE key \notin Switches
      <4>1. Default[key] = ""
        <5>1. Default["GitHubClientId"] = ""
          BY DEF Default
        <5> QED
          BY <3>6, <5>1 DEF Keys
      <4>2. Loaded(table)'[key] = memory'[key]
        BY <2>2, <3>1, <3>4, <4>1 DEF Loaded
      <4> QED
        BY <3>3, <4>2 DEF Unique, Saved, Still
    <3> QED
      BY <3>5, <3>6
  <2> QED
    BY <2>3, <2>4
<1>3. ASSUME NEW u \in Updates, SaveOption(u)
      PROVE  (Unique(key) /\ Saved(key) /\ Still(key))'
  <2>1. /\ update[u].at = "save" /\ update'[u].at = "set" /\ update'[u].key = update[u].key
        /\ update'[u].value = update[u].value
        /\ \A v \in Updates \ {u} : update'[v] = update[v]
    BY <1>3, GoesOn DEF SaveOption, Going
  <2>2. CASE update[u].key # key
    <3>1. key \notin unsure /\ table'[key] = table[key] /\ memory' = memory
      BY <1>3, <1>a, <2>2 DEF SaveOption
    <3> QED
      BY <1>b, <2>1, <2>2, <3>1 DEF Sets, Going
  <2>3. CASE update[u].key = key
    <3>1. table'[key] = update[u].value /\ \A v \in Updates : ~Sets(v, key)
      BY <1>3, <1>a, <2>3 DEF SaveOption, Sets
    <3>2. Sets(u, key)' /\ \A v \in Updates \ {u} : ~Sets(v, key)'
      BY <2>1, <2>3, <3>1 DEF Sets, Going
    <3> QED
      BY <2>1, <3>1, <3>2 DEF Unique, Saved, Still
  <2> QED
    BY <2>2, <2>3
<1>4. ASSUME NEW u \in Updates, SetOption(u)
      PROVE  (Unique(key) /\ Saved(key) /\ Still(key))'
  <2>1. /\ update[u].at = "set" /\ update'[u] = Rested
        /\ \A v \in Updates \ {u} : update'[v] = update[v]
    BY <1>4, GoesToRest DEF SetOption, Going
  <2>2. ~Sets(u, key)' /\ ~Going(u, "save")
    <3>1. Rested.at = "rest"
      BY DEF Rested
    <3> QED
      BY <2>1, <3>1 DEF Sets, Going
  <2>3. /\ UNCHANGED <<table, unsure>>
        /\ memory' = [memory EXCEPT ![update[u].key] = update[u].value]
    BY <1>4 DEF SetOption
  <2>4. CASE update[u].key # key
    BY <1>a, <1>b, <2>1, <2>2, <2>3, <2>4 DEF Sets, Going
  <2>5. CASE update[u].key = key
    <3>1. Sets(u, key)
      BY <2>1, <2>5 DEF Sets, Going
    <3>2. Unique(key) /\ table[key] = update[u].value
      BY <1>0, <2>3, <3>1 DEF Saved
    <3>3. \A v \in Updates : ~Sets(v, key)'
      BY <2>1, <2>2, <3>1, <3>2 DEF Unique, Sets, Going
    <3>4. Loaded(table)'[key] = memory'[key]
      BY <1>a, <2>3, <2>5, <3>2, UpdateTyped DEF Loaded
    <3> QED
      BY <3>3, <3>4 DEF Unique, Saved, Still
  <2> QED
    BY <2>4, <2>5
<1>5. ASSUME Restart
      PROVE  (Unique(key) /\ Saved(key) /\ Still(key))'
  <2>1. \A v \in Updates : ~Sets(v, key)'
    BY <1>5 DEF Restart, Sets, Going, Rested
  <2>2. Loaded(table)'[key] = memory'[key]
    BY <1>5 DEF Restart, Loaded
  <2> QED
    BY <2>1, <2>2 DEF Unique, Saved, Still
<1>6. CASE UNCHANGED optionsVars
  BY <1>b, <1>6 DEF optionsVars, Sets, Going
<1> QED
  BY <1>1, <1>2, <1>3, <1>4, <1>5, <1>6 DEF OptionsNext

\* Nobody switches off both methods unless requests overlap, what is in memory is
\* what a restart would load or is about to be set, and the value of a request is
\* one of its key.
THEOREM OptionsInvariantHolds == OptionsSpec => []OptionsInvariant
<1>1. OptionsInvariant /\ [OptionsNext]_optionsVars => OptionsInvariant'
  BY OptionsTypeKept, ValuesKept, OffsKept, OtherKept, SomeKept, AgreeKept DEF OptionsInvariant
<1> QED
  BY <1>1, OptionsInitially, PTL DEF OptionsSpec

\* controller/option.go:46: one way to log in is always left, and memory agrees with
\* the table, but for the cases that LoginLeft names.
THEOREM LoginLeftHolds == OptionsSpec => []LoginLeft
<1>1. OptionsInvariant => LoginLeft
  <2> SUFFICES ASSUME OptionsInvariant PROVE LoginLeft
    OBVIOUS
  <2>1. ~overlapped /\ ~halved => \E key \in Switches : SwitchedOn(key)
    BY DEF OptionsInvariant, SomeOn, SwitchedOn
  <2>2. ASSUME NEW key \in Keys \ unsure,
               \A u \in Updates : Going(u, "rest") \/ update[u].key # key
        PROVE  memory[key] = Loaded(table)[key]
    BY <2>2 DEF OptionsInvariant, Agree, Sets, Going
  <2> QED
    BY <2>1, <2>2 DEF LoginLeft
<1> QED
  BY <1>1, OptionsInvariantHolds, PTL

-----------------------------------------------------------------------------
\* What the step of one request does to the others: nothing.
OthersStay(k) == \A j \in Restorers : j # k => restore'[j] = restore[j]

-----------------------------------------------------------------------------
(* Restore: types                                                           *)

LEMMA WaitingIsOne ==
  /\ Waiting \in Restores
  /\ Waiting.at = "free" /\ ~Waiting.alone
BY DEF Waiting, Restores, Contents

LEMMA OverwrittenStays ==
  ASSUME NEW old \in Contents, NEW new \in Contents
  PROVE  Overwritten(old, new) \subseteq Contents
BY DEF Overwritten, Contents

Places == {"free", "open", "fill", "verify", "save", "saving", "swap", "swapping", "health",
           "remove"}

\* What the two ways on do to the request that goes on, and to the others.
LEMMA ReachesFacts ==
  ASSUME restore \in [Restorers -> Restores], NEW k \in Restorers,
         NEW place \in Places, Reaches(k, place)
  PROVE  /\ restore' \in [Restorers -> Restores]
         /\ OthersStay(k) /\ restore'[k].at = place
         /\ restore'[k].alone = restore[k].alone
         /\ restore'[k].package = restore[k].package /\ restore'[k].data = restore[k].data
<1>1. restore' = [restore EXCEPT ![k].at = place]
  BY DEF Reaches
<1>2. [restore[k] EXCEPT !.at = place] \in Restores
  BY DEF Places, Restores
<1> QED
  BY <1>1, <1>2 DEF OthersStay, Restores

LEMMA QuitsFacts ==
  ASSUME restore \in [Restorers -> Restores], NEW k \in Restorers, Quits(k)
  PROVE  /\ restore' \in [Restorers -> Restores]
         /\ OthersStay(k) /\ restore'[k].at = "remove"
         /\ restore'[k].alone = restore[k].alone
<1>1. restore' = [restore EXCEPT ![k].at = "remove", ![k].executes = FALSE, ![k].data = "none"]
  BY DEF Quits
<1>2. [restore[k] EXCEPT !.at = "remove", !.executes = FALSE, !.data = "none"] \in Restores
  <2>1. restore[k] \in Restores /\ "none" \in Contents
    BY DEF Contents
  <2> QED
    BY <2>1 DEF Restores
<1> QED
  BY <1>1, <1>2 DEF OthersStay, Restores

\* The type invariant is kept by every step of the specification.
LEMMA RestoreTypeKept ==
  ASSUME RestoreTypeOK, [RestoreNext]_restoreVars
  PROVE  RestoreTypeOK'
<1> USE DEF RestoreTypeOK
<1>1. ASSUME NEW k \in Restorers, BeginRestore(k) PROVE RestoreTypeOK'
  <2> DEFINE alone == \A i \in Restorers : ~AtWork(i)
  <2>1. PICK package \in Packages, executes \in BOOLEAN :
          restore' = [j \in Restorers |->
                        IF j = k
                        THEN [Waiting EXCEPT !.at = "open", !.package = package,
                                             !.executes = executes, !.alone = alone]
                        ELSE [restore[j] EXCEPT !.alone = FALSE]]
    BY <1>1 DEF BeginRestore
  <2>2. alone \in BOOLEAN
    OBVIOUS
  <2> HIDE DEF alone
  <2>3. [Waiting EXCEPT !.at = "open", !.package = package, !.executes = executes,
                        !.alone = alone] \in Restores
    BY <2>2 DEF Waiting, Restores, Contents
  <2>4. ASSUME NEW j \in Restorers PROVE [restore[j] EXCEPT !.alone = FALSE] \in Restores
    <3>1. restore[j] \in Restores
      OBVIOUS
    <3> QED
      BY <3>1 DEF Restores
  <2>5. restore' \in [Restorers -> Restores]
    BY <2>1, <2>3, <2>4
  <2> QED
    BY <1>1, <2>5 DEF BeginRestore
<1>2. ASSUME NEW k \in Restorers, Open(k) PROVE RestoreTypeOK'
  BY <1>2, WaitingIsOne DEF Open, Reaches, Restores, Contents
<1>3. ASSUME NEW k \in Restorers, Fill(k) PROVE RestoreTypeOK'
  <2>1. restore' \in [Restorers -> Restores]
    BY <1>3, WaitingIsOne DEF Fill, Restores
  <2>2. payload' \in Contents
    <3>1. restore[k].package \in Contents
      BY DEF Restores, Contents
    <3> QED
      BY <1>3, <3>1, OverwrittenStays DEF Fill
  <2> QED
    BY <1>3, <2>1, <2>2 DEF Fill
<1>4. ASSUME NEW k \in Restorers, Verify(k) PROVE RestoreTypeOK'
  <2>1. restore' \in [Restorers -> Restores]
    BY <1>4, ReachesFacts, QuitsFacts DEF Verify, Places
  <2> QED
    BY <1>4, <2>1 DEF Verify
<1>5. ASSUME NEW k \in Restorers, RemovePayload(k) PROVE RestoreTypeOK'
  <2>1. /\ payload' = "none" /\ UNCHANGED <<database, saved, before, mixed>>
        /\ restore' = [j \in Restorers |->
                         IF j = k
                         THEN IF restore[k].executes /\ ~restore[k].again
                              THEN [restore[k] EXCEPT !.at = "open", !.again = TRUE] ELSE Waiting
                         ELSE [restore[j] EXCEPT !.unlinked = @ \/ Reached(j, "fill")]]
    BY <1>5 DEF RemovePayload
  <2>2. [restore[k] EXCEPT !.at = "open", !.again = TRUE] \in Restores /\ Waiting \in Restores
    BY WaitingIsOne DEF Restores
  <2>3. ASSUME NEW j \in Restorers
        PROVE  [restore[j] EXCEPT !.unlinked = @ \/ Reached(j, "fill")] \in Restores
    <3> DEFINE cut == restore[j].unlinked \/ Reached(j, "fill")
    <3>1. restore[j] \in Restores /\ cut \in BOOLEAN
      OBVIOUS
    <3> HIDE DEF cut
    <3>2. [restore[j] EXCEPT !.unlinked = cut] \in Restores
      BY <3>1 DEF Restores
    <3> QED
      BY <3>2 DEF cut
  <2>4. restore' \in [Restorers -> Restores]
    BY <2>1, <2>2, <2>3
  <2> QED
    BY <2>1, <2>4 DEF Contents
<1>6. ASSUME NEW k \in Restorers, SaveDatabase(k) PROVE RestoreTypeOK'
  <2>1. CASE Quits(k) /\ UNCHANGED <<saved, before, mixed>>
    BY <1>6, <2>1, QuitsFacts DEF SaveDatabase
  <2>2. CASE restore' = [restore EXCEPT ![k].at = "saving", ![k].data = database]
    <3> DEFINE crossed == mixed \/ \E j \in Restorers : Copying(j)
    <3>1. crossed \in BOOLEAN
      OBVIOUS
    <3>2. [restore[k] EXCEPT !.at = "saving", !.data = database] \in Restores
      BY DEF Restores
    <3>3. restore' \in [Restorers -> Restores]
      BY <2>2, <3>2
    <3>4. \/ saved' = "cut" /\ before' = database /\ mixed' = crossed
          \/ UNCHANGED <<saved, before, mixed>>
      BY <1>6 DEF SaveDatabase
    <3> HIDE DEF crossed
    <3> QED
      BY <1>6, <3>1, <3>3, <3>4 DEF SaveDatabase, Contents
  <2> QED
    BY <1>6, <2>1, <2>2 DEF SaveDatabase
<1>7. ASSUME NEW k \in Restorers, Saving(k) PROVE RestoreTypeOK'
  <2>1. restore' \in [Restorers -> Restores]
    BY <1>7, ReachesFacts, QuitsFacts DEF Saving, Places
  <2>2. saved' \in Contents
    <3>1. restore[k].data \in Contents
      BY DEF Restores
    <3> QED
      BY <1>7, <3>1, OverwrittenStays DEF Saving
  <2> QED
    BY <1>7, <2>1, <2>2 DEF Saving
<1>8. ASSUME NEW k \in Restorers, SwapDatabase(k) PROVE RestoreTypeOK'
  <2>1. CASE Quits(k)
    BY <1>8, <2>1, QuitsFacts DEF SwapDatabase, Contents
  <2>2. CASE restore' = [restore EXCEPT ![k].at = "swapping", ![k].data = payload]
    <3>1. [restore[k] EXCEPT !.at = "swapping", !.data = payload] \in Restores
      BY DEF Restores
    <3> QED
      BY <1>8, <2>2, <3>1 DEF SwapDatabase, Contents
  <2> QED
    BY <1>8, <2>1, <2>2 DEF SwapDatabase
<1>9. ASSUME NEW k \in Restorers, Swapping(k) PROVE RestoreTypeOK'
  <2>1. restore' \in [Restorers -> Restores]
    BY <1>9, ReachesFacts, QuitsFacts DEF Swapping, Places
  <2>2. database' \in Contents
    <3>1. restore[k].data \in Contents
      BY DEF Restores
    <3> QED
      BY <1>9, <3>1, OverwrittenStays DEF Swapping
  <2> QED
    BY <1>9, <2>1, <2>2 DEF Swapping
<1>10. ASSUME NEW k \in Restorers, HealthCheck(k) PROVE RestoreTypeOK'
  BY <1>10, QuitsFacts DEF HealthCheck
<1>11. CASE StopRestoring
  BY <1>11, WaitingIsOne DEF StopRestoring
<1>12. CASE UNCHANGED restoreVars
  BY <1>12 DEF restoreVars
<1> QED
  BY <1>1, <1>2, <1>3, <1>4, <1>5, <1>6, <1>7, <1>8, <1>9, <1>10, <1>11, <1>12 DEF RestoreNext

-----------------------------------------------------------------------------
(* The invariant                                                            *)

\* A request that has been alone since it began has the file it unpacked, then the
\* copy, then the database to itself.
Lone(k) ==
  restore[k].alone =>
    /\ \A j \in Restorers : j # k => Reached(j, "free")
    /\ restore[k].at \in {"save", "saving", "swap"} => payload = restore[k].package
    /\ Reached(k, "saving") => saved = "cut" /\ restore[k].data = before
    /\ restore[k].at \in {"swap", "swapping", "health"} => saved = before
    /\ Reached(k, "swapping") => database = "cut" /\ restore[k].data = restore[k].package
    /\ Reached(k, "health") => database = restore[k].package

\* Until two have copied at the same time there is one that copies, or none.
OneCopies ==
  \A i, j \in Restorers : Copying(i) /\ Copying(j) => i = j

\* What the one that copies has left of the database of before.
Kept ==
  /\ \A k \in Restorers :
       /\ Reached(k, "saving") => saved = "cut" /\ restore[k].data = before /\ database = before
       /\ Reached(k, "swap") => saved = before
       /\ Reached(k, "swapping") => saved = before
  /\ before \in {database, saved}

RestoreInvariant ==
  /\ RestoreTypeOK
  /\ \A k \in Restorers : Lone(k)
  /\ ~mixed => OneCopies /\ Kept

LEMMA RestoreBegins == RestoreInit => RestoreInvariant
<1> SUFFICES ASSUME RestoreInit PROVE RestoreInvariant
  OBVIOUS
<1>1. RestoreTypeOK
  BY WaitingIsOne DEF RestoreInit, RestoreTypeOK, Contents
<1>2. \A k \in Restorers : Lone(k)
  BY WaitingIsOne DEF RestoreInit, Lone
<1>3. OneCopies /\ Kept
  BY WaitingIsOne DEF RestoreInit, OneCopies, Kept, Copying, Reached
<1> QED
  BY <1>1, <1>2, <1>3 DEF RestoreInvariant

-----------------------------------------------------------------------------
(* Steps                                                                    *)

\* A step of k that leaves the others alone keeps what holds of one that is alone.
LEMMA LoneFrame ==
  ASSUME \A j \in Restorers : Lone(j), NEW k \in Restorers, OthersStay(k),
         ~Reached(k, "free"), Lone(k)'
  PROVE  \A j \in Restorers : Lone(j)'
<1> SUFFICES ASSUME NEW j \in Restorers, j # k PROVE Lone(j)'
  OBVIOUS
<1>1. restore'[j] = restore[j] /\ ~restore[j].alone
  BY DEF OthersStay, Lone
<1> QED
  BY <1>1 DEF Lone

LEMMA BeginRestoreKeeps ==
  ASSUME RestoreInvariant, NEW k \in Restorers, BeginRestore(k)
  PROVE  (\A j \in Restorers : Lone(j)') /\ (~mixed' => OneCopies' /\ Kept')
<1> USE DEF RestoreInvariant, RestoreTypeOK
<1> DEFINE alone == \A i \in Restorers : ~AtWork(i)
<1>1. PICK package \in Packages, executes \in BOOLEAN :
        restore' = [j \in Restorers |->
                      IF j = k
                      THEN [Waiting EXCEPT !.at = "open", !.package = package,
                                           !.executes = executes, !.alone = alone]
                      ELSE [restore[j] EXCEPT !.alone = FALSE]]
  BY DEF BeginRestore
<1>2. alone \in BOOLEAN /\ (alone => \A j \in Restorers : restore[j].at = "free")
  BY DEF AtWork, Reached
<1> HIDE DEF alone
<1>3. /\ restore'[k].at = "open" /\ restore'[k].alone = alone
      /\ \A j \in Restorers : j # k => /\ restore'[j].at = restore[j].at
                                       /\ restore'[j].data = restore[j].data
                                       /\ ~restore'[j].alone
  BY <1>1 DEF Waiting, Restores
<1>4. restore[k].at = "free"
  BY DEF BeginRestore, Reached
<1>5. \A j \in Restorers : Lone(j)'
  BY <1>2, <1>3 DEF Lone, Reached
<1>6. ~mixed => OneCopies' /\ Kept'
  <2> SUFFICES ASSUME ~mixed PROVE OneCopies' /\ Kept'
    OBVIOUS
  <2>1. /\ OneCopies /\ Kept
        /\ UNCHANGED <<database, saved, before>>
    BY DEF BeginRestore
  <2>2. OneCopies'
    BY <1>3, <2>1 DEF OneCopies, Copying, Reached
  <2>3. Kept'
    BY <1>3, <2>1 DEF Kept, Reached
  <2> QED
    BY <2>2, <2>3
<1> QED
  BY <1>5, <1>6 DEF BeginRestore

LEMMA OpenKeeps ==
  ASSUME RestoreInvariant, NEW k \in Restorers, Open(k)
  PROVE  (\A j \in Restorers : Lone(j)') /\ (~mixed' => OneCopies' /\ Kept')
<1> USE DEF RestoreInvariant, RestoreTypeOK
<1>1. OthersStay(k) /\ restore[k].at = "open" /\ restore'[k].at \in {"fill", "free"}
  BY WaitingIsOne DEF Open, OthersStay, Reaches, Reached, Restores
<1>2. restore'[k].alone => restore[k].alone
  BY WaitingIsOne DEF Open, Reaches, Restores
<1>3. Lone(k)'
  BY <1>1, <1>2 DEF Lone, OthersStay, Reached
<1>4. \A j \in Restorers : Lone(j)'
  BY <1>1, <1>3, LoneFrame DEF Reached
<1>5. ~mixed => OneCopies' /\ Kept'
  BY <1>1 DEF Open, OthersStay, OneCopies, Kept, Copying, Reached
<1> QED
  BY <1>4, <1>5 DEF Open

LEMMA FillKeeps ==
  ASSUME RestoreInvariant, NEW k \in Restorers, Fill(k)
  PROVE  (\A j \in Restorers : Lone(j)') /\ (~mixed' => OneCopies' /\ Kept')
<1> USE DEF RestoreInvariant, RestoreTypeOK
<1>1. OthersStay(k) /\ restore[k].at = "fill" /\ restore'[k].at \in {"verify", "free"}
  BY WaitingIsOne DEF Fill, OthersStay, Reached, Restores
<1>2. restore'[k].alone => restore[k].alone
  BY WaitingIsOne DEF Fill, Restores
<1>3. Lone(k)'
  BY <1>1, <1>2 DEF Lone, OthersStay, Reached
<1>4. \A j \in Restorers : Lone(j)'
  BY <1>1, <1>3, LoneFrame DEF Reached
<1>5. ~mixed => OneCopies' /\ Kept'
  BY <1>1 DEF Fill, OthersStay, OneCopies, Kept, Copying, Reached
<1> QED
  BY <1>4, <1>5 DEF Fill

LEMMA VerifyKeeps ==
  ASSUME RestoreInvariant, NEW k \in Restorers, Verify(k)
  PROVE  (\A j \in Restorers : Lone(j)') /\ (~mixed' => OneCopies' /\ Kept')
<1> USE DEF RestoreInvariant, RestoreTypeOK
<1>1. /\ OthersStay(k) /\ restore[k].at = "verify" /\ restore'[k].at \in {"save", "remove"}
      /\ restore'[k].alone = restore[k].alone
      /\ restore'[k].at = "save" => payload = restore'[k].package
  BY ReachesFacts, QuitsFacts DEF Verify, Reached, Places
<1>2. Lone(k)'
  BY <1>1 DEF Lone, OthersStay, Reached, Verify
<1>3. \A j \in Restorers : Lone(j)'
  BY <1>1, <1>2, LoneFrame DEF Reached
<1>4. ~mixed => OneCopies' /\ Kept'
  BY <1>1 DEF Verify, OthersStay, OneCopies, Kept, Copying, Reached
<1> QED
  BY <1>3, <1>4 DEF Verify

\* The only step that touches the others: one that is unpacking loses the file.
LEMMA RemovePayloadKeeps ==
  ASSUME RestoreInvariant, NEW k \in Restorers, RemovePayload(k)
  PROVE  (\A j \in Restorers : Lone(j)') /\ (~mixed' => OneCopies' /\ Kept')
<1> USE DEF RestoreInvariant, RestoreTypeOK
<1>1. /\ restore[k].at = "remove" /\ restore'[k].at \in {"open", "free"}
      /\ restore'[k].alone => restore[k].alone
  BY WaitingIsOne DEF RemovePayload, Reached, Restores
<1>2. \A j \in Restorers : j # k => /\ restore'[j].at = restore[j].at
                                    /\ restore'[j].data = restore[j].data
                                    /\ restore'[j].alone = restore[j].alone
  BY DEF RemovePayload, Restores
<1>3. \A j \in Restorers : j # k => ~restore[j].alone
  BY <1>1 DEF Lone, Reached
<1>4. \A j \in Restorers : Lone(j)'
  BY <1>1, <1>2, <1>3 DEF Lone, Reached
<1>5. ~mixed => OneCopies' /\ Kept'
  BY <1>1, <1>2 DEF RemovePayload, OneCopies, Kept, Copying, Reached
<1> QED
  BY <1>4, <1>5 DEF RemovePayload

LEMMA SaveDatabaseKeeps ==
  ASSUME RestoreInvariant, NEW k \in Restorers, SaveDatabase(k)
  PROVE  (\A j \in Restorers : Lone(j)') /\ (~mixed' => OneCopies' /\ Kept')
<1> USE DEF RestoreInvariant, RestoreTypeOK
<1>1. CASE Quits(k) /\ UNCHANGED <<saved, before, mixed>>
  <2>1. /\ OthersStay(k) /\ restore[k].at = "save" /\ restore'[k].at = "remove"
        /\ restore'[k].alone = restore[k].alone
    BY <1>1, QuitsFacts DEF SaveDatabase, Reached
  <2>2. Lone(k)'
    BY <1>1, <2>1 DEF Lone, OthersStay, Reached
  <2>3. \A j \in Restorers : Lone(j)'
    BY <2>1, <2>2, LoneFrame DEF Reached
  <2>4. ~mixed => OneCopies' /\ Kept'
    BY <1>1, <2>1 DEF SaveDatabase, OthersStay, OneCopies, Kept, Copying, Reached
  <2> QED
    BY <1>1, <2>3, <2>4
<1>2. CASE /\ restore' = [restore EXCEPT ![k].at = "saving", ![k].data = database]
           /\ saved' = "cut" /\ before' = database
           /\ mixed' = (mixed \/ \E j \in Restorers : Copying(j))
  <2>1. /\ OthersStay(k) /\ restore[k].at = "save" /\ restore'[k].at = "saving"
        /\ restore'[k].data = database /\ restore'[k].alone = restore[k].alone
        /\ restore'[k].package = restore[k].package
    BY <1>2 DEF SaveDatabase, OthersStay, Reached, Restores
  <2>2. UNCHANGED <<database, payload>>
    BY DEF SaveDatabase
  <2>3. Lone(k)'
    BY <1>2, <2>1, <2>2 DEF Lone, OthersStay, Reached
  <2>4. \A j \in Restorers : Lone(j)'
    BY <2>1, <2>3, LoneFrame DEF Reached
  <2>5. ASSUME ~mixed' PROVE OneCopies' /\ Kept'
    <3>1. \A j \in Restorers : j # k => restore'[j].at \notin {"saving", "swap", "swapping"}
      BY <1>2, <2>1, <2>5 DEF Copying, OthersStay
    <3> QED
      BY <1>2, <2>1, <2>2, <3>1 DEF OneCopies, Kept, Copying, Reached
  <2> QED
    BY <2>4, <2>5
<1> QED
  BY <1>1, <1>2 DEF SaveDatabase

\* A step of the one that copies: the others are elsewhere, so that nobody else reads
\* or writes the two files.
LEMMA Alone ==
  ASSUME OneCopies, NEW k \in Restorers, Copying(k), OthersStay(k)
  PROVE  \A j \in Restorers : j # k => restore'[j].at \notin {"saving", "swap", "swapping"}
BY DEF OneCopies, Copying, OthersStay

LEMMA SavingKeeps ==
  ASSUME RestoreInvariant, NEW k \in Restorers, Saving(k)
  PROVE  (\A j \in Restorers : Lone(j)') /\ (~mixed' => OneCopies' /\ Kept')
<1> USE DEF RestoreInvariant, RestoreTypeOK
<1>1. /\ OthersStay(k) /\ restore[k].at = "saving" /\ restore'[k].at \in {"swap", "remove"}
      /\ restore'[k].alone = restore[k].alone
      /\ restore'[k].at = "swap" => /\ restore'[k].package = restore[k].package
                                    /\ saved' \in Overwritten(saved, restore[k].data)
  BY ReachesFacts, QuitsFacts DEF Saving, Reached, Places
<1>2. UNCHANGED <<database, payload, before, mixed>>
  BY DEF Saving
<1>3. saved = "cut" /\ restore'[k].at = "swap" => saved' = restore[k].data
  BY <1>1 DEF Overwritten
<1>4. Lone(k)'
  BY <1>1, <1>2, <1>3 DEF Lone, OthersStay, Reached
<1>5. \A j \in Restorers : Lone(j)'
  BY <1>1, <1>4, LoneFrame DEF Reached
<1>6. ASSUME ~mixed' PROVE OneCopies' /\ Kept'
  <2>1. \A j \in Restorers : j # k => restore'[j].at \notin {"saving", "swap", "swapping"}
    BY <1>1, <1>2, <1>6, Alone DEF Copying
  <2> QED
    BY <1>1, <1>2, <1>3, <1>6, <2>1 DEF OneCopies, Kept, Copying, Reached
<1> QED
  BY <1>5, <1>6

LEMMA SwapDatabaseKeeps ==
  ASSUME RestoreInvariant, NEW k \in Restorers, SwapDatabase(k)
  PROVE  (\A j \in Restorers : Lone(j)') /\ (~mixed' => OneCopies' /\ Kept')
<1> USE DEF RestoreInvariant, RestoreTypeOK
<1>1. /\ OthersStay(k) /\ restore[k].at = "swap" /\ restore'[k].at \in {"swapping", "remove"}
      /\ restore'[k].alone = restore[k].alone
      /\ restore'[k].at = "swapping" => /\ restore'[k].package = restore[k].package
                                        /\ restore'[k].data = payload /\ database' = "cut"
      /\ restore'[k].at = "remove" => UNCHANGED database
  <2>1. CASE Quits(k) /\ UNCHANGED database
    BY <2>1, QuitsFacts DEF SwapDatabase, Reached
  <2>2. CASE /\ restore' = [restore EXCEPT ![k].at = "swapping", ![k].data = payload]
             /\ database' = "cut"
    BY <2>2 DEF SwapDatabase, Reached, OthersStay, Restores
  <2> QED
    BY <2>1, <2>2 DEF SwapDatabase
<1>2. UNCHANGED <<saved, payload, before, mixed>>
  BY DEF SwapDatabase
<1>3. Lone(k)'
  BY <1>1, <1>2 DEF Lone, OthersStay, Reached
<1>4. \A j \in Restorers : Lone(j)'
  BY <1>1, <1>3, LoneFrame DEF Reached
<1>5. ASSUME ~mixed' PROVE OneCopies' /\ Kept'
  <2>1. \A j \in Restorers : j # k => restore'[j].at \notin {"saving", "swap", "swapping"}
    BY <1>1, <1>2, <1>5, Alone DEF Copying
  <2> QED
    BY <1>1, <1>2, <1>5, <2>1 DEF OneCopies, Kept, Copying, Reached
<1> QED
  BY <1>4, <1>5

LEMMA SwappingKeeps ==
  ASSUME RestoreInvariant, NEW k \in Restorers, Swapping(k)
  PROVE  (\A j \in Restorers : Lone(j)') /\ (~mixed' => OneCopies' /\ Kept')
<1> USE DEF RestoreInvariant, RestoreTypeOK
<1>1. /\ OthersStay(k) /\ restore[k].at = "swapping" /\ restore'[k].at \in {"health", "remove"}
      /\ restore'[k].alone = restore[k].alone
      /\ restore'[k].at = "health" => /\ restore'[k].package = restore[k].package
                                      /\ database' \in Overwritten(database, restore[k].data)
  BY ReachesFacts, QuitsFacts DEF Swapping, Reached, Places
<1>2. UNCHANGED <<saved, payload, before, mixed>>
  BY DEF Swapping
<1>3. database = "cut" /\ restore'[k].at = "health" => database' = restore[k].data
  BY <1>1 DEF Overwritten
<1>4. Lone(k)'
  BY <1>1, <1>2, <1>3 DEF Lone, OthersStay, Reached
<1>5. \A j \in Restorers : Lone(j)'
  BY <1>1, <1>4, LoneFrame DEF Reached
<1>6. ASSUME ~mixed' PROVE OneCopies' /\ Kept'
  <2>1. \A j \in Restorers : j # k => restore'[j].at \notin {"saving", "swap", "swapping"}
    BY <1>1, <1>2, <1>6, Alone DEF Copying
  <2> QED
    BY <1>1, <1>2, <1>6, <2>1 DEF OneCopies, Kept, Copying, Reached
<1> QED
  BY <1>5, <1>6

LEMMA HealthCheckKeeps ==
  ASSUME RestoreInvariant, NEW k \in Restorers, HealthCheck(k)
  PROVE  (\A j \in Restorers : Lone(j)') /\ (~mixed' => OneCopies' /\ Kept')
<1> USE DEF RestoreInvariant, RestoreTypeOK
<1>1. /\ OthersStay(k) /\ restore[k].at = "health" /\ restore'[k].at = "remove"
      /\ restore'[k].alone = restore[k].alone
  BY QuitsFacts DEF HealthCheck, Reached
<1>2. Lone(k)'
  BY <1>1 DEF Lone, OthersStay, Reached
<1>3. \A j \in Restorers : Lone(j)'
  BY <1>1, <1>2, LoneFrame DEF Reached
<1>4. ~mixed => OneCopies' /\ Kept'
  BY <1>1 DEF HealthCheck, OthersStay, OneCopies, Kept, Copying, Reached
<1> QED
  BY <1>3, <1>4 DEF HealthCheck

LEMMA StopRestoringKeeps ==
  ASSUME RestoreInvariant, StopRestoring
  PROVE  (\A j \in Restorers : Lone(j)') /\ (~mixed' => OneCopies' /\ Kept')
<1>1. \A k \in Restorers : restore'[k].at = "free" /\ ~restore'[k].alone
  BY WaitingIsOne DEF StopRestoring
<1> QED
  BY <1>1 DEF StopRestoring, RestoreInvariant, Lone, OneCopies, Kept, Copying, Reached

-----------------------------------------------------------------------------
(* Theorems                                                                 *)

\* Every behaviour of a restore, with any number of requests: what a request that is
\* alone and what the one that copies know of the files.
THEOREM RestoreInvariantHolds == RestoreSpec => []RestoreInvariant
<1>1. RestoreInvariant /\ [RestoreNext]_restoreVars => RestoreInvariant'
  <2> SUFFICES ASSUME RestoreInvariant, [RestoreNext]_restoreVars PROVE RestoreInvariant'
    OBVIOUS
  <2>1. RestoreTypeOK'
    BY RestoreTypeKept DEF RestoreInvariant
  <2>2. (\A j \in Restorers : Lone(j)') /\ (~mixed' => OneCopies' /\ Kept')
    <3>1. CASE UNCHANGED restoreVars
      BY <3>1 DEF RestoreInvariant, restoreVars, Lone, OneCopies, Kept, Copying, Reached
    <3>2. CASE StopRestoring
      BY <3>2, StopRestoringKeeps
    <3>3. ASSUME NEW k \in Restorers,
                 \/ BeginRestore(k) \/ Open(k) \/ Fill(k) \/ Verify(k) \/ RemovePayload(k)
                 \/ SaveDatabase(k) \/ Saving(k) \/ SwapDatabase(k) \/ Swapping(k)
                 \/ HealthCheck(k)
          PROVE  (\A j \in Restorers : Lone(j)') /\ (~mixed' => OneCopies' /\ Kept')
      BY <3>3, BeginRestoreKeeps, OpenKeeps, FillKeeps, VerifyKeeps, RemovePayloadKeeps,
         SaveDatabaseKeeps, SavingKeeps, SwapDatabaseKeeps, SwappingKeeps, HealthCheckKeeps
    <3> QED
      BY <3>1, <3>2, <3>3 DEF RestoreNext
  <2> QED
    BY <2>1, <2>2 DEF RestoreInvariant
<1> QED
  BY <1>1, RestoreBegins, PTL DEF RestoreSpec

\* backup_restore.go:173, executeRestoreByDriver: the database of before a restore is in
\* its place or beside it, and a restore that was alone has put its package in place.
THEOREM RestoreReversibleHolds == RestoreSpec => []RestoreReversible
<1>1. RestoreInvariant => RestoreReversible
  BY DEF RestoreInvariant, RestoreReversible, Kept, Lone, Reached
<1> QED
  BY <1>1, RestoreInvariantHolds, PTL

-----------------------------------------------------------------------------
(* Finite sets                                                             *)

\* The parts of a finite set, and their sizes.
LEMMA Smaller ==
  ASSUME NEW T, IsFiniteSet(T), NEW S \in SUBSET T
  PROVE  /\ IsFiniteSet(S) /\ Cardinality(S) \in Nat /\ Cardinality(T) \in Nat
         /\ Cardinality(S) <= Cardinality(T)
BY FS_Subset, FS_CardinalityType

LEMMA OneFewer ==
  ASSUME NEW T, IsFiniteSet(T), NEW x \in T, NEW S \in SUBSET (T \ {x})
  PROVE  Cardinality(S) + 1 <= Cardinality(T)
<1>1. IsFiniteSet(T \ {x}) /\ Cardinality(T \ {x}) = Cardinality(T) - 1
  BY FS_RemoveElement
<1>2. Cardinality(S) <= Cardinality(T \ {x}) /\ Cardinality(S) \in Nat /\ Cardinality(T) \in Nat
  BY <1>1, FS_Subset, FS_CardinalityType
<1> QED
  BY <1>1, <1>2

LEMMA OneMore ==
  ASSUME NEW T, IsFiniteSet(T), NEW x, NEW S \in SUBSET (T \cup {x})
  PROVE  /\ IsFiniteSet(S) /\ Cardinality(S) \in Nat /\ Cardinality(T) \in Nat
         /\ Cardinality(S) <= Cardinality(T) + 1
<1>1. IsFiniteSet(T \cup {x}) /\ Cardinality(T) \in Nat /\ Cardinality(T \cup {x}) <= Cardinality(T) + 1
  BY FS_AddElement, FS_CardinalityType
<1>2. IsFiniteSet(S) /\ Cardinality(S) <= Cardinality(T \cup {x})
  BY <1>1, FS_Subset
<1>3. Cardinality(S) \in Nat /\ Cardinality(T \cup {x}) \in Nat
  BY <1>1, <1>2, FS_CardinalityType
<1> QED
  BY <1>1, <1>2, <1>3

-----------------------------------------------------------------------------
(* The rate limit in memory: the inductive invariant                        *)

\* The times kept are those of the last requests let in.
KeptAreLast ==
  /\ Len(queue) <= MaxRequests /\ Len(queue) <= Len(passed)
  /\ \A i \in 1 .. Len(queue) : queue[i] = Seconds(passed[Len(passed) - Len(queue) + i])

InOrder ==
  /\ \A i \in 1 .. Len(passed) : passed[i] <= part
  /\ \A i, j \in 1 .. Len(passed) : i <= j => passed[i] <= passed[j]

\* What was forgotten though it is among the last is out of any span.
ForgottenAreOld ==
  \A i \in 1 .. Len(passed) - Len(queue) :
    i + MaxRequests > Len(passed) => Seconds(part) - Seconds(passed[i]) > Expiration

Spaced ==
  \A i \in 1 .. Len(passed) - MaxRequests :
    passed[i + MaxRequests] - passed[i] > (Duration - 1) * Parts

MemoryTypes == part \in Nat /\ queue \in Seq(Nat) /\ passed \in Seq(Nat)

MemoryInvariant == MemoryTypes /\ KeptAreLast /\ InOrder /\ ForgottenAreOld /\ Spaced

-----------------------------------------------------------------------------
(* Whole seconds                                                            *)

LEMMA SecondsFacts ==
  ASSUME NEW t \in Nat
  PROVE  Seconds(t) \in Nat /\ Parts * Seconds(t) <= t /\ t < Parts * Seconds(t) + Parts
<1>1. Parts \in Nat \ {0}
  BY RateAssumption
<1>2. \A n \in Nat, p \in Nat \ {0} : n \div p \in Nat /\ p * (n \div p) <= n /\ n < p * (n \div p) + p
  OBVIOUS
<1> QED
  BY <1>1, <1>2 DEF Seconds

LEMMA TimesLess ==
  ASSUME NEW p \in Nat \ {0}, NEW a \in Int, NEW b \in Int, a <= b
  PROVE  p * a <= p * b
OBVIOUS

\* A later time is not in an earlier second.
LEMMA SecondsGrow ==
  ASSUME NEW s \in Nat, NEW t \in Nat, s <= t
  PROVE  Seconds(s) <= Seconds(t)
<1> DEFINE a == Seconds(s)
           b == Seconds(t)
<1>1. /\ a \in Nat /\ b \in Nat /\ Parts \in Nat \ {0}
      /\ Parts * a <= s /\ t < Parts * b + Parts
  BY SecondsFacts, RateAssumption
<1> HIDE DEF a, b
<1> SUFFICES ASSUME b < a PROVE FALSE
  BY <1>1 DEF a, b
<1>2. Parts * (b + 1) <= Parts * a
  BY <1>1, TimesLess
<1>3. Parts * (b + 1) = Parts * b + Parts
  BY <1>1
<1> QED
  BY <1>1, <1>2, <1>3

\* Times whose seconds are d apart are more than d - 1 seconds apart.
LEMMA SecondsApart ==
  ASSUME NEW s \in Nat, NEW t \in Nat, NEW d \in Nat, Seconds(t) - Seconds(s) >= d
  PROVE  t - s > (d - 1) * Parts
<1> DEFINE a == Seconds(s)
           b == Seconds(t)
<1>1. /\ a \in Nat /\ b \in Nat /\ Parts \in Nat \ {0} /\ b - a >= d
      /\ Parts * b <= t /\ s < Parts * a + Parts
  BY SecondsFacts, RateAssumption
<1> HIDE DEF a, b
<1>2. Parts * (d + a) <= Parts * b
  BY <1>1, TimesLess
<1>3. Parts * (d + a) = Parts * d + Parts * a /\ (d - 1) * Parts = Parts * d - Parts
  BY <1>1
<1>4. Parts * d \in Int /\ Parts * a \in Int /\ Parts * b \in Int
  BY <1>1
<1> QED
  BY <1>1, <1>2, <1>3, <1>4

LEMMA RateConstants ==
  /\ MaxRequests \in Nat \ {0} /\ Duration \in Nat \ {0} /\ Parts \in Nat \ {0}
  /\ Expiration \in Nat /\ Duration <= Expiration
BY RateAssumption

-----------------------------------------------------------------------------
(* Steps                                                                    *)

\* The request that is let in comes a limit after one that is out of its span.
LEMMA LetInSpaced ==
  ASSUME backend = "memory", MemoryInvariant,
         \/ Len(queue) < MaxRequests
         \/ Len(queue) = MaxRequests /\ Seconds(part) - queue[1] >= Duration,
         NEW i \in 1 .. Len(passed), i + MaxRequests = Len(passed) + 1
  PROVE  part - passed[i] > (Duration - 1) * Parts
<1>0. MemoryTypes /\ KeptAreLast /\ ForgottenAreOld /\ Len(passed) \in Nat /\ Len(queue) \in Nat
  BY DEF MemoryInvariant, MemoryTypes
<1>1. part \in Nat /\ passed[i] \in Nat
  BY <1>0 DEF MemoryTypes
<1>2. Seconds(part) \in Nat /\ Seconds(passed[i]) \in Nat
  BY <1>1, SecondsFacts
<1>3. Seconds(part) - Seconds(passed[i]) >= Duration
  <2>1. CASE Len(queue) < MaxRequests
    <3>1. i \in 1 .. Len(passed) - Len(queue) /\ i + MaxRequests > Len(passed)
      BY <1>0, <2>1, RateConstants
    <3>2. Seconds(part) - Seconds(passed[i]) > Expiration
      BY <1>0, <3>1 DEF ForgottenAreOld
    <3> QED
      BY <1>2, <3>2, RateConstants
  <2>2. CASE Len(queue) = MaxRequests /\ Seconds(part) - queue[1] >= Duration
    <3>1. Len(passed) - Len(queue) + 1 = i /\ 1 \in 1 .. Len(queue)
      BY <1>0, <2>2, RateConstants
    <3>2. queue[1] = Seconds(passed[i])
      BY <1>0, <3>1 DEF KeptAreLast
    <3> QED
      BY <2>2, <3>2
  <2> QED
    BY <2>1, <2>2
<1> QED
  BY <1>1, <1>3, SecondsApart, RateConstants

LEMMA RequestKept ==
  ASSUME backend = "memory", MemoryInvariant, Request
  PROVE  MemoryInvariant'
<1>0. /\ MemoryTypes /\ KeptAreLast /\ InOrder /\ ForgottenAreOld /\ Spaced
      /\ part' = part /\ passed' = Append(passed, part)
  BY DEF MemoryInvariant, Request, LetIn
<1>1. part \in Nat /\ passed \in Seq(Nat) /\ queue \in Seq(Nat) /\ Seconds(part) \in Nat
  BY <1>0, SecondsFacts DEF MemoryTypes
<1> DEFINE n == Len(passed)
           q == Len(queue)
           s == Seconds(part)
<1>2. n \in Nat /\ q \in Nat /\ q <= MaxRequests /\ q <= n
  BY <1>0, <1>1 DEF KeptAreLast
<1>3. /\ passed' \in Seq(Nat) /\ Len(passed') = n + 1 /\ passed'[n + 1] = part
      /\ \A i \in 1 .. n : passed'[i] = passed[i]
  BY <1>0, <1>1
<1>4. /\ queue' \in Seq(Nat)
      /\ \/ /\ q < MaxRequests /\ Len(queue') = q + 1
            /\ queue'[q + 1] = s /\ \A i \in 1 .. q : queue'[i] = queue[i]
         \/ /\ q = MaxRequests /\ Len(queue') = q /\ s - queue[1] >= Duration
            /\ queue'[q] = s /\ \A i \in 1 .. q - 1 : queue'[i] = queue[i + 1]
  <2>1. CASE q < MaxRequests /\ queue' = Append(queue, s)
    BY <1>1, <2>1
  <2>2. CASE q = MaxRequests /\ s - queue[1] >= Duration /\ queue' = Append(Tail(queue), s)
    <3>1. queue # <<>> /\ q >= 1
      BY <1>1, <1>2, <2>2, RateConstants
    <3>2. /\ Tail(queue) \in Seq(Nat) /\ Len(Tail(queue)) = q - 1
          /\ \A i \in 1 .. q - 1 : Tail(queue)[i] = queue[i + 1]
      BY <1>1, <3>1
    <3> HIDE DEF s
    <3> QED
      BY <1>1, <1>2, <2>2, <3>1, <3>2 DEF s
  <2> QED
    BY <1>2, <2>1, <2>2 DEF Request
<1> HIDE DEF n, q, s
<1>5. MemoryTypes'
  BY <1>0, <1>1, <1>3, <1>4 DEF MemoryTypes
<1>6. \A i \in 1 .. q : queue[i] = Seconds(passed[n - q + i])
  BY <1>0 DEF KeptAreLast, n, q
<1>7. KeptAreLast'
  <2>1. Len(queue') <= MaxRequests /\ Len(queue') <= Len(passed')
    BY <1>2, <1>3, <1>4, RateConstants
  <2>2. ASSUME NEW i \in 1 .. Len(queue')
        PROVE  queue'[i] = Seconds(passed'[Len(passed') - Len(queue') + i])
    <3>1. CASE i = Len(queue')
      <4>1. Len(passed') - Len(queue') + i = n + 1 /\ queue'[i] = s
        BY <1>2, <1>3, <1>4, <3>1
      <4> QED
        BY <1>3, <4>1 DEF s
    <3>2. CASE i # Len(queue') /\ Len(queue') = q + 1 /\ \A j \in 1 .. q : queue'[j] = queue[j]
      <4>1. i \in 1 .. q /\ Len(passed') - Len(queue') + i = n - q + i /\ n - q + i \in 1 .. n
        <5>1. i \in 1 .. q + 1 /\ i # q + 1
          BY <3>2
        <5>2. Len(passed') - Len(queue') + i = (n + 1) - (q + 1) + i
          BY <1>3, <3>2
        <5> QED
          BY <1>2, <5>1, <5>2
      <4> QED
        BY <1>3, <1>6, <3>2, <4>1
    <3>3. CASE i # Len(queue') /\ Len(queue') = q /\ \A j \in 1 .. q - 1 : queue'[j] = queue[j + 1]
      <4>1. /\ i \in 1 .. q - 1 /\ i + 1 \in 1 .. q
            /\ Len(passed') - Len(queue') + i = n - q + (i + 1) /\ n - q + (i + 1) \in 1 .. n
        <5>1. i \in 1 .. q /\ i # q
          BY <3>3
        <5>2. Len(passed') - Len(queue') + i = (n + 1) - q + i
          BY <1>3, <3>3
        <5> QED
          BY <1>2, <5>1, <5>2
      <4> QED
        BY <1>3, <1>6, <3>3, <4>1
    <3> QED
      BY <1>4, <3>1, <3>2, <3>3
  <2> QED
    BY <2>1, <2>2 DEF KeptAreLast
<1>8. InOrder'
  <2>1. \A i \in 1 .. n : passed[i] \in Nat /\ passed[i] <= part
    BY <1>0, <1>1 DEF InOrder, n
  <2>2. \A i, j \in 1 .. n : i <= j => passed[i] <= passed[j]
    BY <1>0 DEF InOrder, n
  <2>3. \A i \in 1 .. n + 1 : i \in 1 .. n \/ i = n + 1
    BY <1>2
  <2>4. \A i \in 1 .. n + 1 : passed'[i] <= part
    BY <1>1, <1>3, <2>1, <2>3
  <2>5. \A i, j \in 1 .. n + 1 : i <= j => passed'[i] <= passed'[j]
    <3> SUFFICES ASSUME NEW i \in 1 .. n + 1, NEW j \in 1 .. n + 1, i <= j
                 PROVE  passed'[i] <= passed'[j]
      OBVIOUS
    <3>1. CASE j = n + 1
      BY <1>3, <2>4, <3>1
    <3>2. CASE j \in 1 .. n
      <4>1. i \in 1 .. n
        BY <1>2, <3>2
      <4> QED
        BY <1>3, <2>2, <3>2, <4>1
    <3> QED
      BY <2>3, <3>1, <3>2
  <2> QED
    BY <1>0, <1>3, <2>4, <2>5 DEF InOrder
<1>9. ForgottenAreOld'
  <2> SUFFICES ASSUME NEW i \in 1 .. (n + 1) - Len(queue'), i + MaxRequests > n + 1
               PROVE  s - Seconds(passed'[i]) > Expiration
    BY <1>0, <1>3 DEF ForgottenAreOld, s, Seconds
  <2>1. q < MaxRequests /\ i \in 1 .. n - q /\ i \in 1 .. n /\ i + MaxRequests > n
    BY <1>2, <1>4, RateConstants
  <2> QED
    BY <1>0, <1>3, <2>1 DEF ForgottenAreOld, s, n, q
<1>10. Spaced'
  <2> SUFFICES ASSUME NEW i \in 1 .. (n + 1) - MaxRequests
               PROVE  passed'[i + MaxRequests] - passed'[i] > (Duration - 1) * Parts
    BY <1>3 DEF Spaced
  <2>1. i \in 1 .. n /\ (i + MaxRequests \in 1 .. n \/ i + MaxRequests = n + 1)
    BY <1>2, RateConstants
  <2>2. CASE i + MaxRequests \in 1 .. n
    <3>1. i \in 1 .. n - MaxRequests
      BY <1>2, <2>1, <2>2, RateConstants
    <3> QED
      BY <1>0, <1>3, <2>1, <2>2, <3>1 DEF Spaced, n
  <2>3. CASE i + MaxRequests = n + 1
    <3>1. part - passed[i] > (Duration - 1) * Parts
      BY <1>4, <2>1, <2>3, LetInSpaced DEF n, q, s
    <3> QED
      BY <1>3, <2>1, <2>3, <3>1
  <2> QED
    BY <2>1, <2>2, <2>3
<1> QED
  BY <1>5, <1>7, <1>8, <1>9, <1>10 DEF MemoryInvariant

\* The last request is older than Expiration, and so are those before it.
LEMMA ClearKept ==
  ASSUME backend = "memory", MemoryInvariant, Clear
  PROVE  MemoryInvariant'
<1>0. /\ MemoryTypes /\ KeptAreLast /\ InOrder /\ Spaced
      /\ part' = part /\ passed' = passed /\ queue' = <<>> /\ queue # <<>>
      /\ Seconds(part) - queue[Len(queue)] > Expiration
  BY DEF MemoryInvariant, Clear
<1>1. part \in Nat /\ passed \in Seq(Nat) /\ queue \in Seq(Nat)
  BY <1>0 DEF MemoryTypes
<1>2. Len(queue') = 0 /\ queue' \in Seq(Nat)
  BY <1>0
<1>3. MemoryTypes'
  BY <1>0, <1>1, <1>2 DEF MemoryTypes
<1>4. KeptAreLast'
  BY <1>0, <1>1, <1>2, RateConstants DEF KeptAreLast
<1>5. InOrder' /\ Spaced'
  BY <1>0 DEF InOrder, Spaced
<1>6. ForgottenAreOld'
  <2>1. Len(queue) \in Nat \ {0} /\ Len(passed) \in Nat /\ Len(queue) <= Len(passed)
    BY <1>0, <1>1 DEF KeptAreLast
  <2>2. Len(queue) \in 1 .. Len(queue) /\ Len(passed) - Len(queue) + Len(queue) = Len(passed)
    BY <2>1
  <2>3. queue[Len(queue)] = Seconds(passed[Len(passed)])
    BY <1>0, <2>2 DEF KeptAreLast
  <2>4. ASSUME NEW i \in 1 .. Len(passed) PROVE Seconds(part) - Seconds(passed[i]) > Expiration
    <3>1. Len(passed) \in 1 .. Len(passed) /\ i <= Len(passed)
      BY <2>1
    <3>2. passed[i] \in Nat /\ passed[Len(passed)] \in Nat /\ passed[i] <= passed[Len(passed)]
      BY <1>0, <1>1, <3>1 DEF InOrder
    <3>3. Seconds(passed[i]) <= Seconds(passed[Len(passed)])
      BY <3>2, SecondsGrow
    <3>4. Seconds(part) \in Nat /\ Seconds(passed[i]) \in Nat /\ Seconds(passed[Len(passed)]) \in Nat
      BY <1>1, <3>2, SecondsFacts
    <3> QED
      BY <1>0, <2>3, <3>3, <3>4, RateConstants
  <2> QED
    BY <1>0, <1>2, <2>1, <2>4 DEF ForgottenAreOld, Seconds
<1> QED
  BY <1>3, <1>4, <1>5, <1>6 DEF MemoryInvariant

LEMMA LaterKept ==
  ASSUME backend = "memory", MemoryInvariant, part' \in Nat, part <= part',
         queue' = queue, passed' = passed
  PROVE  MemoryInvariant'
<1>0. MemoryTypes /\ KeptAreLast /\ InOrder /\ ForgottenAreOld /\ Spaced
  BY DEF MemoryInvariant
<1>1. part \in Nat /\ passed \in Seq(Nat) /\ queue \in Seq(Nat)
  BY <1>0 DEF MemoryTypes
<1>2. MemoryTypes' /\ KeptAreLast' /\ Spaced'
  BY <1>0 DEF MemoryTypes, KeptAreLast, Spaced, Seconds
<1>3. InOrder'
  <2>1. \A i \in 1 .. Len(passed) : passed[i] \in Nat
    BY <1>1
  <2> QED
    BY <1>0, <1>1, <2>1 DEF InOrder
<1>4. ForgottenAreOld'
  <2> DEFINE moment == part'
  <2>1. moment \in Nat /\ part <= moment
    OBVIOUS
  <2> HIDE DEF moment
  <2>2. Seconds(part) <= Seconds(moment) /\ Seconds(part) \in Nat /\ Seconds(moment) \in Nat
    BY <1>1, <2>1, SecondsGrow, SecondsFacts
  <2>3. ASSUME NEW i \in 1 .. Len(passed) - Len(queue), i + MaxRequests > Len(passed)
        PROVE  Seconds(moment) - Seconds(passed[i]) > Expiration
    <3>1. Seconds(part) - Seconds(passed[i]) > Expiration
      BY <1>0, <2>3 DEF ForgottenAreOld
    <3>2. i \in 1 .. Len(passed)
      BY <1>1
    <3>3. passed[i] \in Nat
      BY <1>1, <3>2
    <3>4. Seconds(passed[i]) \in Nat
      BY <3>3, SecondsFacts
    <3> QED
      BY <2>2, <3>1, <3>4, RateConstants
  <2> QED
    BY <2>3 DEF ForgottenAreOld, Seconds, moment
<1> QED
  BY <1>2, <1>3, <1>4 DEF MemoryInvariant

-----------------------------------------------------------------------------
(* What the limiter in memory lets in                                       *)

\* The times kept in memory are those of the last requests, but for requests that
\* are out of every span, and requests a limit apart are out of each other's span.
THEOREM MemoryInvariantHolds ==
  RateSpec => [](backend = "memory" => expiry = 0 /\ MemoryInvariant)
<1> DEFINE I == backend = "memory" => expiry = 0 /\ MemoryInvariant
<1>1. RateInit => I
  <2> SUFFICES ASSUME RateInit PROVE expiry = 0 /\ MemoryInvariant
    OBVIOUS
  <2>1. part = 1 /\ queue = <<>> /\ passed = <<>> /\ expiry = 0
    BY DEF RateInit
  <2>2. Len(queue) = 0 /\ Len(passed) = 0 /\ MemoryTypes
    BY <2>1 DEF MemoryTypes
  <2> QED
    BY <2>1, <2>2, RateConstants DEF MemoryInvariant, KeptAreLast, InOrder, ForgottenAreOld, Spaced
<1>2. I /\ [RateNext]_rateVars => I'
  <2> SUFFICES ASSUME I, [RateNext]_rateVars, backend' = "memory"
               PROVE  expiry' = 0 /\ MemoryInvariant'
    OBVIOUS
  <2>1. backend = "memory"
    BY DEF RateNext, rateVars, Request, Clear, Length, Oldest, Judgement, TakeTime, Push,
           Trim, Expire, TimePasses
  <2>2. MemoryInvariant /\ expiry = 0 /\ part \in Nat
    BY <2>1 DEF MemoryInvariant, MemoryTypes
  <2>3. CASE Request
    BY <2>1, <2>2, <2>3, RequestKept DEF Request
  <2>4. CASE Clear
    BY <2>1, <2>2, <2>4, ClearKept DEF Clear
  <2>5. CASE TimePasses
    <3>1. part' = part + 1 /\ queue' = queue /\ passed' = passed /\ expiry' = 0
      BY <2>2, <2>5 DEF TimePasses
    <3>2. part' \in Nat /\ part <= part'
      BY <2>2, <3>1
    <3> QED
      BY <2>1, <2>2, <3>1, <3>2, LaterKept
  <2>6. CASE UNCHANGED rateVars
    <3>1. part' = part /\ queue' = queue /\ passed' = passed /\ expiry' = expiry
      BY <2>6 DEF rateVars
    <3>2. part' \in Nat /\ part <= part'
      BY <2>2, <3>1
    <3> QED
      BY <2>1, <2>2, <3>1, <3>2, LaterKept
  <2>7. ASSUME NEW k \in Callers
        PROVE  ~(\/ Length(k) \/ Oldest(k) \/ Judgement(k) \/ TakeTime(k) \/ Push(k)
                 \/ Trim(k) \/ Expire(k))
    BY <2>1 DEF In, Length, Oldest, Judgement, TakeTime, Push, Trim, Expire
  <2> QED
    BY <2>3, <2>4, <2>5, <2>6, <2>7 DEF RateNext
<1> QED
  BY <1>1, <1>2, PTL DEF RateSpec

\* common/rate-limit.go:44: the limiter in memory lets in no more requests than the
\* limit in any span of its duration less a second, whatever limit and duration are
\* and however often it forgets its callers.
THEOREM MemoryLimitHolds == RateSpec => [](backend = "memory" => LimitKept)
<1>1. (backend = "memory" => expiry = 0 /\ MemoryInvariant) => (backend = "memory" => LimitKept)
  <2> SUFFICES ASSUME backend = "memory", MemoryInvariant,
                      NEW first \in DOMAIN passed, NEW later \in DOMAIN passed,
                      later = first + MaxRequests + Excess
               PROVE  passed[later] - passed[first] > Span
    BY DEF LimitKept
  <2>1. Excess = 0 /\ Span = (Duration - 1) * Parts /\ Spaced
    BY DEF Excess, Span, MemoryInvariant
  <2>2. passed \in Seq(Nat) /\ Len(passed) \in Nat /\ DOMAIN passed = 1 .. Len(passed)
    BY DEF MemoryInvariant, MemoryTypes
  <2>3. later = first + MaxRequests /\ first \in 1 .. Len(passed) - MaxRequests
    BY <2>1, <2>2, RateConstants
  <2> QED
    BY <2>1, <2>3 DEF Spaced
<1> QED
  BY <1>1, MemoryInvariantHolds, PTL

-----------------------------------------------------------------------------
(* The rate limit: types, and how long the list on Redis becomes            *)

\* Requests that found room and are yet to use it, and those that are to trim.
Unfull   == {k \in Callers : call[k].at \in {"stamp", "push"} /\ ~call[k].full}
Trimming == {k \in Callers : call[k].at = "trim"}

RateTypes ==
  /\ backend \in {"memory", "redis"} /\ part \in Parted
  /\ queue \in Seq(Parted) /\ expiry \in 0 .. LastPart + Expiration * Parts
  /\ call \in [Callers -> Calls] /\ passed \in Seq(Parted) /\ errors \in 0 .. MaxErrors

\* Each of them is one of the callers, and each error leaves one time too many.
ListShort ==
  Len(queue) + Cardinality(Unfull)
    <= MaxRequests - 1 + Cardinality(Callers) + Cardinality(Trimming) + errors

RateInvariant ==
  /\ RateTypes
  /\ backend = "memory" => Len(queue) <= MaxRequests
  /\ backend = "redis" => ListShort

LEMMA RateNumbers ==
  /\ MaxRequests \in Nat \ {0} /\ Duration \in Nat \ {0} /\ Parts \in Nat \ {0} /\ LastPart \in Nat \ {0}
  /\ Expiration \in Nat /\ Patience \in Nat /\ MaxErrors \in Nat
  /\ Expiration * Parts \in Nat /\ LastPart + Expiration * Parts \in Nat
  /\ IsFiniteSet(Callers) /\ Cardinality(Callers) \in Nat
  /\ Parted \in SUBSET Nat /\ 0 \in Parted /\ 1 \in Parted /\ Free \in Calls
<1>1. /\ MaxRequests \in Nat \ {0} /\ Duration \in Nat \ {0} /\ Parts \in Nat \ {0} /\ LastPart \in Nat \ {0}
      /\ Expiration \in Nat /\ Patience \in Nat /\ MaxErrors \in Nat
      /\ IsFiniteSet(Callers) /\ Cardinality(Callers) \in Nat
  BY RateAssumption, FS_CardinalityType
<1>2. Parted \in SUBSET Nat /\ 0 \in Parted /\ 1 \in Parted
  BY <1>1 DEF Parted
<1>3. Free \in Calls
  BY <1>1, <1>2 DEF Free, Calls
<1>4. Expiration * Parts \in Nat
  BY <1>1
<1>5. LastPart + Expiration * Parts \in Nat
  BY <1>1, <1>4
<1> QED
  BY <1>1, <1>2, <1>3, <1>4, <1>5

LEMMA CallersCounted ==
  /\ Unfull \in SUBSET Callers /\ IsFiniteSet(Unfull) /\ Cardinality(Unfull) \in Nat
  /\ Cardinality(Unfull) <= Cardinality(Callers)
  /\ Trimming \in SUBSET Callers /\ IsFiniteSet(Trimming) /\ Cardinality(Trimming) \in Nat
<1>1. Unfull \in SUBSET Callers /\ Trimming \in SUBSET Callers
  BY DEF Unfull, Trimming
<1> QED
  BY <1>1, RateNumbers, Smaller

LEMMA CallersCountedNext ==
  /\ Unfull' \in SUBSET Callers /\ IsFiniteSet(Unfull') /\ Cardinality(Unfull') \in Nat
  /\ Cardinality(Unfull') <= Cardinality(Callers)
  /\ Trimming' \in SUBSET Callers /\ IsFiniteSet(Trimming') /\ Cardinality(Trimming') \in Nat
<1>1. Unfull' \in SUBSET Callers /\ Trimming' \in SUBSET Callers
  BY DEF Unfull, Trimming
<1> QED
  BY <1>1, RateNumbers, Smaller

\* How the sets change when one caller moves.
LEMMA CallerMoves ==
  ASSUME NEW k \in Callers, \A j \in Callers : j = k \/ call'[j] = call[j]
  PROVE  /\ k \notin Unfull' => Cardinality(Unfull') <= Cardinality(Unfull)
         /\ k \notin Unfull' => Cardinality(Unfull') + 1 <= Cardinality(Callers)
         /\ k \in Unfull => Cardinality(Unfull') <= Cardinality(Unfull)
         /\ k \in Unfull /\ k \notin Unfull' => Cardinality(Unfull') + 1 <= Cardinality(Unfull)
         /\ k \notin Trimming => Cardinality(Trimming) <= Cardinality(Trimming')
         /\ k \notin Trimming /\ k \in Trimming' => Cardinality(Trimming) + 1 <= Cardinality(Trimming')
         /\ Cardinality(Trimming) <= Cardinality(Trimming') + 1
<1> DEFINE U == Unfull
           V == Unfull'
           S == Trimming
           T == Trimming'
<1>1. V \in SUBSET (U \cup {k}) /\ S \in SUBSET (T \cup {k})
  BY DEF Unfull, Trimming
<1>2. /\ U \in SUBSET Callers /\ V \in SUBSET Callers /\ S \in SUBSET Callers /\ T \in SUBSET Callers
      /\ IsFiniteSet(U) /\ IsFiniteSet(T) /\ IsFiniteSet(Callers)
  BY CallersCounted, CallersCountedNext, RateNumbers
<1> HIDE DEF U, V, S, T
<1>3. k \notin V => V \in SUBSET U /\ V \in SUBSET (Callers \ {k}) /\ (k \in U => V \in SUBSET (U \ {k}))
  BY <1>1, <1>2
<1>4. k \in U => V \in SUBSET U
  BY <1>1, <1>2
<1>5. k \notin S => S \in SUBSET T /\ (k \in T => S \in SUBSET (T \ {k}))
  BY <1>1, <1>2
<1>6. k \notin V => Cardinality(V) <= Cardinality(U)
  BY <1>2, <1>3, Smaller
<1>7. k \notin V => Cardinality(V) + 1 <= Cardinality(Callers)
  BY <1>2, <1>3, OneFewer
<1>8. k \in U => Cardinality(V) <= Cardinality(U)
  BY <1>2, <1>4, Smaller
<1>9. k \in U /\ k \notin V => Cardinality(V) + 1 <= Cardinality(U)
  BY <1>2, <1>3, OneFewer
<1>10. k \notin S => Cardinality(S) <= Cardinality(T)
  BY <1>2, <1>5, Smaller
<1>11. k \notin S /\ k \in T => Cardinality(S) + 1 <= Cardinality(T)
  BY <1>2, <1>5, OneFewer
<1>12. Cardinality(S) <= Cardinality(T) + 1
  BY <1>1, <1>2, OneMore
<1> QED
  BY <1>6, <1>7, <1>8, <1>9, <1>10, <1>11, <1>12 DEF U, V, S, T

\* A request leaves, or goes on.
LEMMA CallerTypes ==
  ASSUME RateTypes, NEW k \in Callers, NEW c \in Calls, call' = [call EXCEPT ![k] = c]
  PROVE  /\ call' \in [Callers -> Calls]
         /\ call'[k] = c
         /\ \A j \in Callers : j = k \/ call'[j] = call[j]
BY DEF RateTypes

LEMMA RateStarts == ASSUME RateInit PROVE RateInvariant
<1>0. USE RateNumbers
<1>1. RateTypes /\ Len(queue) = 0 /\ errors = 0
  BY DEF RateInit, RateTypes
<1>2. Cardinality(Unfull) <= Cardinality(Callers) /\ Cardinality(Unfull) \in Nat /\ Cardinality(Trimming) \in Nat
  BY CallersCounted
<1> QED
  BY <1>1, <1>2 DEF RateInvariant, ListShort

\* The whole second a moment is in is no later than the moment.
LEMMA SecondKept == ASSUME NEW t \in Parted PROVE Seconds(t) \in Parted
<1>1. t \in Nat /\ t <= LastPart /\ Parts \in Nat \ {0} /\ LastPart \in Nat
  BY RateNumbers DEF Parted
<1> DEFINE s == Seconds(t)
<1>2. s \in Nat /\ Parts * s <= t
  BY <1>1, SecondsFacts
<1> HIDE DEF s
<1>3. s <= Parts * s
  BY <1>1, <1>2, SMT
<1>4. s \in Parted
  BY <1>1, <1>2, <1>3 DEF Parted
<1> QED
  BY <1>4 DEF s

\* A queue keeps its type when a time joins it, with the first one gone or not.
LEMMA QueueTypes ==
  ASSUME NEW q \in Seq(Parted), NEW t \in Parted
  PROVE  /\ Append(q, t) \in Seq(Parted) /\ Len(Append(q, t)) = Len(q) + 1
         /\ q # <<>> => /\ Append(Tail(q), t) \in Seq(Parted)
                        /\ Len(Append(Tail(q), t)) = Len(q)
                        /\ q[1] \in Parted
<1>1. q # <<>> => Tail(q) \in Seq(Parted) /\ Len(Tail(q)) = Len(q) - 1 /\ q[1] \in Parted
  OBVIOUS
<1> QED
  BY <1>1

\* The newest times are times of the queue, and no more than are asked for.
LEMMA NewestTypes ==
  ASSUME queue \in Seq(Parted), NEW n \in Nat \ {0}
  PROVE  Newest(n) \in Seq(Parted) /\ Len(Newest(n)) <= n /\ Len(Newest(n)) <= Len(queue)
<1> DEFINE l == Len(queue)
           a == l - n + 1
           m == Max({1, a})
<1>1. l \in Nat /\ a \in Int
  OBVIOUS
<1>2. m = IF a >= 1 THEN a ELSE 1
  <2> HIDE DEF a, l
  <2>1. PICK g \in {1, a} : \A y \in {1, a} : g >= y
    BY <1>1
  <2>2. m \in {1, a} /\ \A y \in {1, a} : m >= y
    BY <2>1 DEF Max
  <2> HIDE DEF m
  <2> QED
    BY <1>1, <2>2
<1>3. m \in Nat \ {0} /\ m <= l + 1 /\ l - m + 1 <= n
  BY <1>1, <1>2
<1>4. Newest(n) = SubSeq(queue, m, l)
  BY DEF Newest
<1> HIDE DEF m, a, l
<1>5. /\ SubSeq(queue, m, l) \in Seq(Parted)
      /\ Len(SubSeq(queue, m, l)) = IF m <= l THEN l - m + 1 ELSE 0
  <2>1. \A i \in m .. l : queue[i] \in Parted
    BY <1>1, <1>3 DEF l
  <2> QED
    BY <1>1, <1>3, <2>1, SMT DEF l
<1>6. Len(SubSeq(queue, m, l)) <= n /\ Len(SubSeq(queue, m, l)) <= l
  BY <1>1, <1>3, <1>5
<1> QED
  BY <1>4, <1>5, <1>6 DEF l

LEMMA RateRequestKept == ASSUME RateInvariant, Request PROVE RateInvariant'
<1>0. /\ RateTypes /\ backend = "memory" /\ Len(queue) <= MaxRequests
      /\ UNCHANGED <<backend, part, expiry, call, errors>>
      /\ part \in Parted /\ passed \in Seq(Parted) /\ queue \in Seq(Parted)
  BY DEF RateInvariant, RateTypes, Request
<1>1. passed' \in Seq(Parted)
  BY <1>0 DEF Request, LetIn
<1>2. Seconds(part) \in Parted
  BY <1>0, SecondKept
<1>3. MaxRequests \in Nat \ {0}
  BY RateNumbers
<1>4. queue' \in Seq(Parted) /\ Len(queue') <= MaxRequests
  <2>1. CASE Len(queue) < MaxRequests /\ queue' = Append(queue, Seconds(part))
    BY <1>0, <1>2, <1>3, <2>1, QueueTypes
  <2>2. CASE Len(queue) = MaxRequests /\ queue' = Append(Tail(queue), Seconds(part))
    <3>1. queue # <<>>
      BY <1>0, <1>3, <2>2
    <3> QED
      BY <1>0, <1>2, <1>3, <2>2, <3>1, QueueTypes
  <2> QED
    BY <2>1, <2>2 DEF Request
<1> QED
  BY <1>0, <1>1, <1>4 DEF RateInvariant, RateTypes

LEMMA RateClearKept == ASSUME RateInvariant, Clear PROVE RateInvariant'
<1>1. queue' = <<>> /\ backend = "memory" /\ UNCHANGED <<backend, part, expiry, call, passed, errors>>
  BY DEF Clear
<1>2. queue' \in Seq(Parted) /\ Len(queue') = 0 /\ MaxRequests \in Nat
  BY <1>1, RateNumbers
<1> QED
  BY <1>1, <1>2 DEF RateInvariant, RateTypes

\* The list is no longer, or has a time more of one who found room or is to trim, or one
\* fewer trims; or it is within the limit with someone not waiting to write.
HasRoom(c) == c.at \in {"stamp", "push"} /\ ~c.full
Fits(k, c) ==
  \/ Len(queue') <= Len(queue) /\ ~HasRoom(c) /\ (call[k].at # "trim" \/ errors' = errors + 1)
  \/ Len(queue') <= Len(queue) /\ k \in Unfull /\ call[k].at # "trim"
  \/ Len(queue') <= Len(queue) /\ call[k].at # "trim" /\ Len(queue') <= MaxRequests - 1
  \/ Len(queue') = Len(queue) + 1 /\ k \in Unfull /\ ~HasRoom(c) /\ call[k].at # "trim"
  \/ Len(queue') = Len(queue) + 1 /\ ~HasRoom(c) /\ call[k].at # "trim" /\ c.at = "trim"
  \/ Len(queue') <= MaxRequests /\ ~HasRoom(c)

\* What one step of a request on Redis comes to.
LEMMA RateMove ==
  ASSUME RateInvariant, backend = "redis", NEW k \in Callers,
         NEW c \in Calls, call' = [call EXCEPT ![k] = c],
         backend' = backend, part' = part,
         queue' \in Seq(Parted), passed' \in Seq(Parted),
         expiry' \in 0 .. LastPart + Expiration * Parts,
         \/ errors' = errors
         \/ errors < MaxErrors /\ errors' = errors + 1,
         Fits(k, c)
  PROVE  RateInvariant'
<1>0. RateTypes /\ ListShort
  BY DEF RateInvariant
<1>1. /\ call' \in [Callers -> Calls]
      /\ call'[k] = c
      /\ \A j \in Callers : j = k \/ call'[j] = call[j]
  BY <1>0, CallerTypes
<1>2. errors \in Nat /\ errors' \in Nat /\ errors' \in 0 .. MaxErrors /\ errors <= errors'
  BY <1>0, RateNumbers DEF RateTypes
<1>3. RateTypes'
  BY <1>0, <1>1, <1>2 DEF RateTypes
<1> DEFINE room == c.at \in {"stamp", "push"} /\ ~c.full
           l  == Len(queue)
           l1 == Len(queue')
           u  == Cardinality(Unfull)
           uu == Cardinality(Unfull')
           t  == Cardinality(Trimming)
           t1 == Cardinality(Trimming')
           n  == Cardinality(Callers)
           ee == errors'
<1>4. (~room => k \notin Unfull') /\ (k \in Trimming <=> call[k].at = "trim") /\ (c.at = "trim" => k \in Trimming')
  BY <1>1 DEF Unfull, Trimming
<1>5. /\ ~room => uu <= u /\ uu + 1 <= n
      /\ k \in Unfull => uu <= u
      /\ k \in Unfull /\ ~room => uu + 1 <= u
      /\ call[k].at # "trim" => t <= t1
      /\ call[k].at # "trim" /\ c.at = "trim" => t + 1 <= t1
      /\ t <= t1 + 1
  BY <1>1, <1>4, CallerMoves
<1>6. /\ l \in Nat /\ l1 \in Nat /\ u \in Nat /\ uu \in Nat /\ t \in Nat /\ t1 \in Nat /\ n \in Nat
      /\ u <= n /\ uu <= n /\ MaxRequests \in Nat \ {0}
  BY <1>0, CallersCounted, CallersCountedNext, RateNumbers DEF RateTypes
<1>7. l + u <= MaxRequests - 1 + n + t + errors
  BY <1>0 DEF ListShort
<1>8. \/ l1 <= l /\ ~room /\ (call[k].at # "trim" \/ ee = errors + 1)
      \/ l1 <= l /\ k \in Unfull /\ call[k].at # "trim"
      \/ l1 <= l /\ call[k].at # "trim" /\ l1 <= MaxRequests - 1
      \/ l1 = l + 1 /\ k \in Unfull /\ ~room /\ call[k].at # "trim"
      \/ l1 = l + 1 /\ ~room /\ call[k].at # "trim" /\ c.at = "trim"
      \/ l1 <= MaxRequests /\ ~room
  BY DEF Fits, HasRoom
<1>9. ee \in Nat /\ errors \in Nat /\ errors <= ee
  BY <1>2
<1>10. l1 + uu <= MaxRequests - 1 + n + t1 + ee
  <2> HIDE DEF l, l1, u, uu, t, t1, n, ee, room
  <2> QED
    BY <1>5, <1>6, <1>7, <1>8, <1>9
<1>11. ListShort' /\ backend' = "redis"
  BY <1>10 DEF ListShort
<1> QED
  BY <1>3, <1>11 DEF RateInvariant

\* What a request on Redis starts a step from.
LEMMA CallFacts ==
  ASSUME RateInvariant, NEW k \in Callers, backend = "redis"
  PROVE  /\ call[k] \in Calls
         /\ queue \in Seq(Parted) /\ Len(queue) \in Nat /\ passed \in Seq(Parted) /\ part \in Parted
         /\ expiry \in 0 .. LastPart + Expiration * Parts /\ errors \in Nat
         /\ MaxRequests \in Nat \ {0}
BY RateNumbers DEF RateInvariant, RateTypes

LEMMA CallGoes ==
  ASSUME RateInvariant, NEW k \in Callers, backend = "redis",
         NEW place \in {"oldest", "judge", "stamp", "push", "trim", "expire"},
         NEW time \in Parted, NEW full \in BOOLEAN
  PROVE  LET c == [age |-> call[k].age, at |-> place, full |-> full, time |-> time]
         IN  c \in Calls /\ c.at = place /\ c.full = full
BY CallFacts DEF Calls

LEMMA LengthKept == ASSUME RateInvariant, NEW k \in Callers, Length(k) PROVE RateInvariant'
<1> DEFINE place == IF Len(queue) < MaxRequests THEN "stamp" ELSE "oldest"
           c == [age |-> call[k].age, at |-> place, full |-> FALSE, time |-> 0]
<1>1. /\ backend = "redis" /\ call[k].at = "free"
      /\ backend' = backend /\ part' = part /\ queue' = queue /\ expiry' = expiry
      /\ passed' = passed /\ errors' = errors
  BY DEF Length, In
<1>2. call' = [call EXCEPT ![k] = c]
  BY DEF Length, Be
<1>3. /\ queue \in Seq(Parted) /\ passed \in Seq(Parted) /\ expiry \in 0 .. LastPart + Expiration * Parts
      /\ Len(queue) \in Nat /\ MaxRequests \in Nat \ {0} /\ 0 \in Parted
  BY <1>1, CallFacts, RateNumbers
<1>4. c \in Calls /\ c.at = place
  BY <1>1, <1>3, CallGoes
<1>5. c.at = "oldest" \/ Len(queue) <= MaxRequests - 1
  BY <1>3, <1>4
<1> HIDE DEF c
<1>6. Fits(k, c)
  BY <1>1, <1>2, <1>3, <1>4, <1>5 DEF Fits, HasRoom
<1>7. queue' \in Seq(Parted) /\ passed' \in Seq(Parted) /\ expiry' \in 0 .. LastPart + Expiration * Parts
  BY <1>1, <1>2, <1>3, <1>4, <1>5
<1> QED
  BY <1>1, <1>2, <1>3, <1>4, <1>5, <1>6, <1>7, RateMove

LEMMA OldestKept == ASSUME RateInvariant, NEW k \in Callers, Oldest(k) PROVE RateInvariant'
<1> DEFINE c == IF queue = <<>> THEN Free
                ELSE [age |-> call[k].age, at |-> "judge", full |-> FALSE, time |-> queue[1]]
<1>1. /\ backend = "redis" /\ call[k].at = "oldest"
      /\ backend' = backend /\ part' = part /\ queue' = queue /\ expiry' = expiry
      /\ passed' = passed /\ errors' = errors
  BY DEF Oldest, In
<1>2. call' = [call EXCEPT ![k] = c]
  BY DEF Oldest, Be, Leaves
<1>3. /\ queue \in Seq(Parted) /\ passed \in Seq(Parted) /\ expiry \in 0 .. LastPart + Expiration * Parts
      /\ Len(queue) \in Nat
  BY <1>1, CallFacts
<1>4. c \in Calls /\ c.at \in {"free", "judge"}
  <2>1. CASE queue = <<>>
    BY <2>1, RateNumbers DEF Free
  <2>2. CASE queue # <<>>
    <3>1. queue[1] \in Parted
      BY <1>3, <2>2
    <3> QED
      BY <1>1, <2>2, <3>1, CallGoes
  <2> QED
    BY <2>1, <2>2
<1> HIDE DEF c
<1>5. Fits(k, c)
  BY <1>1, <1>2, <1>3, <1>4 DEF Fits, HasRoom
<1>6. queue' \in Seq(Parted) /\ passed' \in Seq(Parted) /\ expiry' \in 0 .. LastPart + Expiration * Parts
  BY <1>1, <1>2, <1>3, <1>4
<1> QED
  BY <1>1, <1>2, <1>3, <1>4, <1>5, <1>6, RateMove

LEMMA JudgementKept == ASSUME RateInvariant, NEW k \in Callers, Judgement(k) PROVE RateInvariant'
<1> DEFINE young == Seconds(part - call[k].time) < Duration
           c == IF young THEN [age |-> call[k].age, at |-> "expire", full |-> FALSE, time |-> 0]
                ELSE [age |-> call[k].age, at |-> "stamp", full |-> TRUE, time |-> 0]
<1>1. /\ backend = "redis" /\ call[k].at = "judge"
      /\ backend' = backend /\ part' = part /\ queue' = queue /\ expiry' = expiry
      /\ passed' = passed /\ errors' = errors
  BY DEF Judgement, In
<1>2. call' = [call EXCEPT ![k] = c]
  BY DEF Judgement, Be
<1>3. /\ queue \in Seq(Parted) /\ passed \in Seq(Parted) /\ expiry \in 0 .. LastPart + Expiration * Parts
      /\ Len(queue) \in Nat /\ 0 \in Parted
  BY <1>1, CallFacts, RateNumbers
<1>4. c \in Calls /\ (c.at = "expire" \/ c.full)
  <2> HIDE DEF young
  <2> QED
    BY <1>1, <1>3, CallGoes
<1> HIDE DEF c
<1>5. Fits(k, c)
  BY <1>1, <1>2, <1>3, <1>4 DEF Fits, HasRoom
<1>6. queue' \in Seq(Parted) /\ passed' \in Seq(Parted) /\ expiry' \in 0 .. LastPart + Expiration * Parts
  BY <1>1, <1>2, <1>3, <1>4
<1> QED
  BY <1>1, <1>2, <1>3, <1>4, <1>5, <1>6, RateMove

LEMMA TakeTimeKept == ASSUME RateInvariant, NEW k \in Callers, TakeTime(k) PROVE RateInvariant'
<1> DEFINE c == [age |-> call[k].age, at |-> "push", full |-> call[k].full, time |-> part]
<1>1. /\ backend = "redis" /\ call[k].at = "stamp"
      /\ backend' = backend /\ part' = part /\ queue' = queue /\ expiry' = expiry
      /\ passed' = Append(passed, part) /\ errors' = errors
  BY DEF TakeTime, In, LetIn
<1>2. call' = [call EXCEPT ![k] = c]
  BY DEF TakeTime, Be
<1>3. /\ queue \in Seq(Parted) /\ expiry \in 0 .. LastPart + Expiration * Parts
      /\ Len(queue) \in Nat /\ call[k] \in Calls /\ part \in Parted /\ passed \in Seq(Parted)
  BY <1>1, CallFacts
<1>4. passed' \in Seq(Parted)
  BY <1>1, <1>3
<1>5. c \in Calls /\ c.full = call[k].full
  BY <1>3, CallFacts DEF Calls
<1>6. c.full \/ k \in Unfull
  BY <1>1, <1>5 DEF Unfull
<1> HIDE DEF c
<1>7. Fits(k, c)
  BY <1>1, <1>2, <1>3, <1>4, <1>5, <1>6 DEF Fits, HasRoom
<1>8. queue' \in Seq(Parted) /\ passed' \in Seq(Parted) /\ expiry' \in 0 .. LastPart + Expiration * Parts
  BY <1>1, <1>2, <1>3, <1>4, <1>5, <1>6
<1> QED
  BY <1>1, <1>2, <1>3, <1>4, <1>5, <1>6, <1>7, <1>8, RateMove

LEMMA PushKept == ASSUME RateInvariant, NEW k \in Callers, Push(k) PROVE RateInvariant'
<1> DEFINE place == IF call[k].full THEN "trim" ELSE "expire"
           c == [age |-> call[k].age, at |-> place, full |-> FALSE, time |-> 0]
<1>1. /\ backend = "redis" /\ call[k].at = "push"
      /\ backend' = backend /\ part' = part /\ expiry' = expiry /\ passed' = passed
  BY DEF Push, In
<1>2. call' = [call EXCEPT ![k] = c]
  BY DEF Push, Be
<1>3. /\ queue \in Seq(Parted) /\ passed \in Seq(Parted) /\ expiry \in 0 .. LastPart + Expiration * Parts
      /\ Len(queue) \in Nat /\ call[k] \in Calls /\ call[k].time \in Parted /\ 0 \in Parted
  BY <1>1, CallFacts, RateNumbers DEF Calls
<1>4. c \in Calls /\ c.at = place /\ c.full = FALSE
  BY <1>1, <1>3, CallGoes
<1>5. \/ errors' = errors /\ queue' = Append(queue, call[k].time)
      \/ errors < MaxErrors /\ errors' = errors + 1 /\ queue' = queue
  BY DEF Push, Answered, Ignored
<1>6. queue' \in Seq(Parted) /\ (Len(queue') = Len(queue) + 1 \/ Len(queue') <= Len(queue))
  <2>1. Append(queue, call[k].time) \in Seq(Parted) /\ Len(Append(queue, call[k].time)) = Len(queue) + 1
    BY <1>3
  <2>2. CASE queue' = Append(queue, call[k].time)
    BY <2>1, <2>2
  <2>3. CASE queue' = queue
    BY <1>3, <2>3
  <2> QED
    BY <1>5, <2>2, <2>3
<1>7. k \in Unfull \/ c.at = "trim"
  BY <1>1, <1>4 DEF Unfull
<1>8. c.at \in {"trim", "expire"}
  BY <1>4
<1> HIDE DEF c, place
<1>9. Fits(k, c)
  BY <1>1, <1>2, <1>3, <1>4, <1>5, <1>6, <1>7, <1>8 DEF Fits, HasRoom
<1>10. queue' \in Seq(Parted) /\ passed' \in Seq(Parted) /\ expiry' \in 0 .. LastPart + Expiration * Parts
  BY <1>1, <1>2, <1>3, <1>4, <1>5, <1>6, <1>7, <1>8
<1> QED
  BY <1>1, <1>2, <1>3, <1>4, <1>5, <1>6, <1>7, <1>8, <1>9, <1>10, RateMove

LEMMA TrimKept == ASSUME RateInvariant, NEW k \in Callers, Trim(k) PROVE RateInvariant'
<1> DEFINE c == [age |-> call[k].age, at |-> "expire", full |-> FALSE, time |-> 0]
<1>1. /\ backend = "redis" /\ call[k].at = "trim"
      /\ backend' = backend /\ part' = part /\ expiry' = expiry /\ passed' = passed
  BY DEF Trim, In
<1>2. call' = [call EXCEPT ![k] = c]
  BY DEF Trim, Be
<1>3. /\ queue \in Seq(Parted) /\ passed \in Seq(Parted) /\ expiry \in 0 .. LastPart + Expiration * Parts
      /\ Len(queue) \in Nat /\ MaxRequests \in Nat \ {0} /\ 0 \in Parted
  BY <1>1, CallFacts, RateNumbers
<1>4. c \in Calls /\ c.at = "expire"
  BY <1>1, <1>3, CallGoes
<1>5. \/ errors' = errors /\ queue' = Newest(MaxRequests)
      \/ errors < MaxErrors /\ errors' = errors + 1 /\ queue' = queue
  BY DEF Trim, Answered, Ignored
<1>6. queue' \in Seq(Parted) /\ (Len(queue') <= MaxRequests \/ (queue' = queue /\ errors' = errors + 1))
  BY <1>3, <1>5, NewestTypes
<1> HIDE DEF c
<1>7. Fits(k, c)
  BY <1>1, <1>2, <1>3, <1>4, <1>5, <1>6 DEF Fits, HasRoom
<1>8. queue' \in Seq(Parted) /\ passed' \in Seq(Parted) /\ expiry' \in 0 .. LastPart + Expiration * Parts
  BY <1>1, <1>2, <1>3, <1>4, <1>5, <1>6
<1> QED
  BY <1>1, <1>2, <1>3, <1>4, <1>5, <1>6, <1>7, <1>8, RateMove

\* The time a key expires at is in its range.
LEMMA ExpiryTypes ==
  ASSUME NEW t \in Parted
  PROVE  /\ t + Expiration * Parts \in 0 .. LastPart + Expiration * Parts
         /\ 0 \in 0 .. LastPart + Expiration * Parts
<1> DEFINE e == Expiration * Parts
<1>1. t \in Nat /\ t <= LastPart /\ LastPart \in Nat /\ e \in Nat
  BY RateNumbers DEF Parted
<1> HIDE DEF e
<1>2. t + e \in 0 .. LastPart + e /\ 0 \in 0 .. LastPart + e
  BY <1>1
<1> QED
  BY <1>2 DEF e

LEMMA ExpireKept == ASSUME RateInvariant, NEW k \in Callers, Expire(k) PROVE RateInvariant'
<1>1. /\ backend = "redis" /\ call[k].at = "expire"
      /\ backend' = backend /\ part' = part /\ queue' = queue /\ passed' = passed
      /\ call' = [call EXCEPT ![k] = Free]
  BY DEF Expire, In, Leaves
<1>2. errors' = errors \/ (errors < MaxErrors /\ errors' = errors + 1)
  BY DEF Expire, Answered, Ignored
<1>3. /\ queue \in Seq(Parted) /\ passed \in Seq(Parted) /\ expiry \in 0 .. LastPart + Expiration * Parts
      /\ Len(queue) \in Nat /\ part \in Parted
  BY <1>1, CallFacts
<1>4. expiry' = 0 \/ expiry' = part + Expiration * Parts \/ expiry' = expiry
  BY DEF Expire
<1>5. expiry' \in 0 .. LastPart + Expiration * Parts
  BY <1>3, <1>4, ExpiryTypes
<1>6. Free \in Calls /\ Free.at = "free"
  BY RateNumbers DEF Free
<1>7. Fits(k, Free)
  BY <1>1, <1>3, <1>6 DEF Fits, HasRoom
<1> QED
  BY <1>1, <1>2, <1>3, <1>5, <1>6, <1>7, RateMove

LEMMA RateTimeKept == ASSUME RateInvariant, TimePasses PROVE RateInvariant'
<1>0. /\ RateTypes /\ part < LastPart /\ part' = part + 1 /\ UNCHANGED <<backend, passed, errors>>
      /\ \A k \in Callers : call[k].age < Patience
      /\ call' = [k \in Callers |-> IF In(k, "free") \/ backend = "memory" THEN Free
                                    ELSE [call[k] EXCEPT !.age = @ + 1]]
  BY DEF RateInvariant, TimePasses
<1>1. part' \in Parted
  <2>1. part \in Nat /\ LastPart \in Nat
    BY <1>0, RateNumbers DEF RateTypes
  <2> QED
    BY <1>0, <2>1 DEF Parted
<1>2. queue' = queue \/ queue' = <<>>
  BY DEF TimePasses
<1>3. queue' \in Seq(Parted) /\ Len(queue') <= Len(queue) /\ Len(queue) \in Nat /\ Len(queue') \in Nat
  <2>1. queue \in Seq(Parted)
    BY <1>0 DEF RateTypes
  <2>2. CASE queue' = <<>>
    BY <2>1, <2>2
  <2> QED
    BY <1>2, <2>1, <2>2
<1>4. expiry' \in 0 .. LastPart + Expiration * Parts
  <2>1. expiry' = expiry \/ expiry' = 0
    BY DEF TimePasses
  <2> QED
    BY <1>0, <2>1, <1>1, ExpiryTypes DEF RateTypes
<1>5. \A k \in Callers : call'[k] \in Calls
  <2> SUFFICES ASSUME NEW k \in Callers PROVE call'[k] \in Calls
    OBVIOUS
  <2>1. call[k] \in Calls /\ call[k].age < Patience
    BY <1>0 DEF RateTypes
  <2>2. [call[k] EXCEPT !.age = @ + 1] \in Calls
    BY <2>1, RateNumbers DEF Calls
  <2> QED
    BY <1>0, <2>2, RateNumbers
<1>6. call' \in [Callers -> Calls]
  BY <1>0, <1>5
<1>7. RateTypes'
  BY <1>0, <1>1, <1>3, <1>4, <1>6 DEF RateTypes
<1>8. CASE backend = "memory"
  <2>1. Len(queue) <= MaxRequests /\ MaxRequests \in Nat
    BY <1>8, RateNumbers DEF RateInvariant
  <2> QED
    BY <1>0, <1>3, <1>7, <1>8, <2>1 DEF RateInvariant
<1>9. CASE backend = "redis"
  <2>1. ASSUME NEW k \in Callers PROVE \/ call'[k].at = call[k].at /\ call'[k].full = call[k].full
                                       \/ call'[k].at = "free" /\ call[k].at = "free"
    <3>1. CASE In(k, "free")
      BY <1>0, <1>9, <3>1 DEF In, Free
    <3>2. CASE ~In(k, "free")
      <4>1. call'[k] = [call[k] EXCEPT !.age = @ + 1] /\ call[k] \in Calls
        BY <1>0, <1>9, <3>2 DEF RateTypes
      <4> QED
        BY <4>1 DEF Calls
    <3> QED
      BY <3>1, <3>2
  <2>2. Unfull' = Unfull /\ Trimming' = Trimming
    BY <2>1 DEF Unfull, Trimming
  <2> DEFINE l  == Len(queue)
             l1 == Len(queue')
             u  == Cardinality(Unfull)
             n  == Cardinality(Callers)
             t  == Cardinality(Trimming)
  <2>3. l \in Nat /\ l1 \in Nat /\ u \in Nat /\ n \in Nat /\ t \in Nat /\ MaxRequests \in Nat /\ l1 <= l
    BY <1>3, CallersCounted, RateNumbers
  <2>4. errors \in Nat
    BY <1>0, RateNumbers DEF RateTypes
  <2>5. l + u <= MaxRequests - 1 + n + t + errors
    BY <1>9 DEF RateInvariant, ListShort
  <2>6. l1 + u <= MaxRequests - 1 + n + t + errors
    <3> HIDE DEF l, l1, u, n, t
    <3> QED
      BY <2>3, <2>4, <2>5
  <2>7. ListShort'
    BY <1>0, <2>2, <2>6 DEF ListShort
  <2> QED
    BY <1>0, <1>7, <1>9, <2>7 DEF RateInvariant
<1> QED
  BY <1>0, <1>8, <1>9 DEF RateTypes

\* Every variable of the limiter keeps to its range, and the list on Redis is longer than
\* the limit by at most the requests that were at work together and the calls that failed
\* unnoticed, though the calls of any number of requests fall between each other.
THEOREM RateInvariantHolds == RateSpec => []RateInvariant
<1>1. RateInvariant /\ [RateNext]_rateVars => RateInvariant'
  <2> SUFFICES ASSUME RateInvariant, [RateNext]_rateVars PROVE RateInvariant'
    OBVIOUS
  <2>1. CASE Request
    BY <2>1, RateRequestKept
  <2>2. CASE Clear
    BY <2>2, RateClearKept
  <2>3. ASSUME NEW k \in Callers, Length(k) PROVE RateInvariant'
    BY <2>3, LengthKept
  <2>4. ASSUME NEW k \in Callers, Oldest(k) PROVE RateInvariant'
    BY <2>4, OldestKept
  <2>5. ASSUME NEW k \in Callers, Judgement(k) PROVE RateInvariant'
    BY <2>5, JudgementKept
  <2>6. ASSUME NEW k \in Callers, TakeTime(k) PROVE RateInvariant'
    BY <2>6, TakeTimeKept
  <2>7. ASSUME NEW k \in Callers, Push(k) PROVE RateInvariant'
    BY <2>7, PushKept
  <2>8. ASSUME NEW k \in Callers, Trim(k) PROVE RateInvariant'
    BY <2>8, TrimKept
  <2>9. ASSUME NEW k \in Callers, Expire(k) PROVE RateInvariant'
    BY <2>9, ExpireKept
  <2>10. CASE TimePasses
    BY <2>10, RateTimeKept
  <2>11. CASE UNCHANGED rateVars
    BY <2>11 DEF rateVars, RateInvariant, RateTypes, ListShort, Unfull, Trimming
  <2> QED
    BY <2>1, <2>2, <2>3, <2>4, <2>5, <2>6, <2>7, <2>8, <2>9, <2>10, <2>11 DEF RateNext
<1> QED
  BY <1>1, RateStarts, PTL DEF RateSpec

\* The type invariant of the rate limiter.
THEOREM RateTypeCorrect == RateSpec => []RateTypeOK
<1>1. RateInvariant => RateTypeOK
  <2> SUFFICES ASSUME RateInvariant PROVE RateTypeOK
    OBVIOUS
  <2> DEFINE l == Len(queue)
             u == Cardinality(Unfull)
             t == Cardinality(Trimming)
             n == Cardinality(Callers)
  <2>1. RateTypes /\ (backend = "memory" => l <= MaxRequests) /\ (backend = "redis" => ListShort)
    BY DEF RateInvariant
  <2>2. /\ l \in Nat /\ u \in Nat /\ t \in Nat /\ n \in Nat /\ errors \in Nat /\ MaxErrors \in Nat
        /\ MaxRequests \in Nat /\ errors <= MaxErrors /\ (backend = "memory" \/ backend = "redis")
    BY <2>1, CallersCounted, RateNumbers DEF RateTypes
  <2>3. t <= n
    BY CallersCounted, RateNumbers, Smaller
  <2>4. ListShort => l + u <= MaxRequests - 1 + n + t + errors
    BY DEF ListShort
  <2>5. l <= MaxRequests + 2 * n + MaxErrors
    <3> HIDE DEF l, u, t, n
    <3> QED
      BY <2>1, <2>2, <2>3, <2>4
  <2> QED
    BY <2>1, <2>5 DEF RateTypes, RateTypeOK
<1> QED
  BY <1>1, RateInvariantHolds, PTL

-----------------------------------------------------------------------------
(* The rate limit on Redis: how much a span lets in                         *)
(*                                                                          *)
(* A span is as long as the duration and begins at s.  The times that were   *)
(* pushed since then are numbered in the order they stand in the list, and   *)
(* the list holds some of the last.  A request comes in on room it saw in    *)
(* the list, or on an oldest time from before s.  Such a time gets behind    *)
(* times of the span only from a request that was at work at s, and takes a  *)
(* place there; it lets in at most as many as can be at work.  So what comes *)
(* in is bounded by the limit, by those at work, and by as many again for    *)
(* each place that has come to the front of the list.  A key that expires    *)
(* in the span empties the list, but only when nobody was let in since s     *)
(* but those who are yet to prolong it; it expires once.                     *)

\* The length of a span.
Width == Duration * Parts

\* The old times in the list that stand no later than its h-th place let a limit's
\* worth of requests in each, and so does a key that expires, if none has yet.
Spare(x) == IF x = 1 \/ Cardinality(Callers) = 0 THEN 0 ELSE Cardinality(Callers) - 1
UpTo(h, X) == {y \in X : y <= h}
Allowance(h, X, x) == Cardinality(Callers) * Cardinality(UpTo(h, X)) + Spare(x)

\* The list q as it was pushed since the span began, h - 1 times of it trimmed: the places
\* of the old times are in X.
Placed(s, q, h, X) ==
  /\ h - 1 + Len(q) \in Nat
  /\ X \in SUBSET (1 .. h - 1 + Len(q))
  /\ \A j \in 1 .. Len(q) : q[j] < s /\ h + j - 1 >= 1 => h + j - 1 \in X

LEMMA Grows ==
  ASSUME NEW n \in Nat, NEW a \in Nat, NEW b \in Nat
  PROVE  /\ n * a \in Nat
         /\ a <= b => n * a <= n * b
         /\ a < b => n * a + n <= n * b
         /\ a >= 1 => n <= n * a
<1>1. n * a \in Nat /\ n * b \in Nat
  OBVIOUS
<1>2. ASSUME a <= b PROVE n * a <= n * b
  <2>1. b - a \in Nat
    BY <1>2
  <2>2. n * (b - a) \in Nat /\ n * b = n * a + n * (b - a)
    BY <2>1
  <2> QED
    BY <2>2, <1>1
<1>3. ASSUME a < b PROVE n * a + n <= n * b
  <2>1. b - a - 1 \in Nat
    BY <1>3
  <2>2. n * (b - a - 1) \in Nat /\ n * b = n * a + n + n * (b - a - 1)
    BY <2>1
  <2> QED
    BY <2>2, <1>1
<1>4. ASSUME a >= 1 PROVE n <= n * a
  <2>1. a - 1 \in Nat
    BY <1>4
  <2>2. n * (a - 1) \in Nat /\ n * a = n + n * (a - 1)
    BY <2>1
  <2> QED
    BY <2>2, <1>1
<1> QED
  BY <1>1, <1>2, <1>3, <1>4

LEMMA PlacesFinite ==
  ASSUME NEW k \in Int, NEW X \in SUBSET (1 .. k)
  PROVE  /\ IsFiniteSet(X) /\ Cardinality(X) \in Nat
         /\ k \in Nat => Cardinality(X) <= k
<1>1. IsFiniteSet(1 .. k) /\ Cardinality(1 .. k) = IF k >= 1 THEN k ELSE 0
  <2>1. IsFiniteSet(1 .. k) /\ Cardinality(1 .. k) = IF 1 > k THEN 0 ELSE k - 1 + 1
    BY FS_Interval
  <2> QED
    BY <2>1
<1>2. IsFiniteSet(X) /\ Cardinality(X) \in Nat /\ Cardinality(X) <= Cardinality(1 .. k)
  BY <1>1, Smaller
<1> QED
  BY <1>1, <1>2

\* What a change of the places does to the allowance.
LEMMA AllowanceGrows ==
  ASSUME NEW X \in SUBSET Int, NEW Y \in SUBSET Int, X \subseteq Y, IsFiniteSet(Y),
         NEW g \in Int, NEW h \in Int, g <= h, NEW x \in {0, 1}
  PROVE  /\ Allowance(g, X, x) \in Nat /\ Allowance(h, Y, x) \in Nat
         /\ Allowance(g, X, x) <= Allowance(h, Y, x)
         /\ g < h /\ h \in Y => Allowance(g, X, x) + Cardinality(Callers) <= Allowance(h, Y, x)
         /\ h \in Y => Cardinality(Callers) + Spare(x) <= Allowance(h, Y, x)
         /\ Spare(x) <= Allowance(h, Y, x)
<1> DEFINE n == Cardinality(Callers)
           A == UpTo(g, X)
           B == UpTo(h, Y)
           a == Cardinality(A)
           b == Cardinality(B)
<1>1. n \in Nat
  BY RateNumbers
<1>2. Spare(x) \in Nat
  BY <1>1 DEF Spare
<1>3. A \in SUBSET B /\ B \in SUBSET Y
  <2>1. ASSUME NEW y \in X, y <= g PROVE y \in Y /\ y <= h
    <3>1. y \in Int /\ y \in Y
      OBVIOUS
    <3> QED
      BY <2>1, <3>1
  <2> QED
    BY <2>1 DEF UpTo
<1>4. IsFiniteSet(B) /\ IsFiniteSet(A) /\ a \in Nat /\ b \in Nat /\ a <= b
  <2> HIDE DEF A, B
  <2>1. IsFiniteSet(B)
    BY <1>3, Smaller
  <2> QED
    BY <1>3, <2>1, Smaller
<1>5. ASSUME g < h, h \in Y PROVE a < b
  <2>1. h \in B /\ h \notin A
    BY <1>5 DEF UpTo
  <2>2. A \in SUBSET (B \ {h})
    BY <1>3, <2>1
  <2> HIDE DEF A, B
  <2>3. a + 1 <= b
    BY <1>4, <2>1, <2>2, OneFewer
  <2> QED
    BY <1>4, <2>3
<1>6. ASSUME h \in Y PROVE b >= 1
  <2>1. h \in B
    BY <1>6 DEF UpTo
  <2> HIDE DEF B
  <2>2. Cardinality({}) + 1 <= b
    BY <1>4, <2>1, OneFewer
  <2> QED
    BY <1>4, <2>2, FS_EmptySet
<1>7. Allowance(g, X, x) = n * a + Spare(x) /\ Allowance(h, Y, x) = n * b + Spare(x)
  BY DEF Allowance
<1> HIDE DEF a, b, n
<1>8. /\ n * a \in Nat /\ n * b \in Nat /\ n * a <= n * b
      /\ a < b => n * a + n <= n * b
      /\ b >= 1 => n <= n * b
  BY <1>1, <1>4, Grows
<1>9. n * a + Spare(x) \in Nat /\ n * b + Spare(x) \in Nat /\ n * a + Spare(x) <= n * b + Spare(x)
      /\ (a < b => n * a + Spare(x) + n <= n * b + Spare(x)) /\ (b >= 1 => n + Spare(x) <= n * b + Spare(x))
      /\ Spare(x) <= n * b + Spare(x)
  BY <1>1, <1>2, <1>8
<1> QED
  BY <1>5, <1>6, <1>7, <1>9 DEF n

\* The numbers of a span.  Of the list: its length, when its key expires (0: not), whether
\* its oldest time is from before the span (stale).  Of the requests at work: how many will
\* be let in on what they saw (coming), found room, are to trim, are to push a time of the
\* span (new) or one from before (old), and have only to prolong the key (done).  Of what
\* was: how many were let in (entered), the number of the list's first time (first; 1 is
\* the first of the span, those before it are not positive), how many times the key took
\* with it (lost), whether it did (gone), the places of older times, and how many more
\* these let in (allowed).
Books == [length : Nat, entered : Nat, expires : Nat, stale : {0, 1},
          coming : Nat, room : Nat, trim : Nat, new : Nat, old : Nat, done : Nat,
          first : Int, lost : Nat, gone : {0, 1}, places : Nat, allowed : Nat]

\* What bounds the requests that entered since a span began at s.
Sums(s, b) ==
  /\ b.entered + b.places + 1 = b.first + b.length + b.new + b.lost
  /\ b.gone = 1 => /\ b.places + b.lost + b.old <= Cardinality(Callers)
                   /\ b.first >= 1
                   /\ b.expires = 0 \/ b.expires >= s + Width
  /\ b.gone = 0 => /\ b.lost = 0
                   /\ b.entered = 0 => b.places = 0
                   /\ b.entered # 0 => b.places + b.old + 1 <= Cardinality(Callers)
                   /\ b.expires # 0 /\ b.expires < s + Width => b.entered <= b.done
  /\ b.first + b.length + b.coming <= MaxRequests + Cardinality(Callers) + b.allowed
  /\ b.length < MaxRequests => b.first <= 1
  /\ b.length >= MaxRequests /\ b.stale = 1 =>
       /\ b.first + b.room <= b.allowed
       /\ b.first + b.room + b.length - MaxRequests <= b.trim + b.allowed

LEMMA BookNumbers ==
  ASSUME NEW b \in Books
  PROVE  /\ b.length \in Nat /\ b.entered \in Nat /\ b.expires \in Nat /\ (b.stale = 0 \/ b.stale = 1)
         /\ b.coming \in Nat /\ b.room \in Nat /\ b.trim \in Nat /\ b.new \in Nat /\ b.old \in Nat
         /\ b.done \in Nat /\ b.first \in Int /\ b.lost \in Nat /\ (b.gone = 0 \/ b.gone = 1)
         /\ b.places \in Nat /\ b.allowed \in Nat
         /\ MaxRequests \in Nat \ {0} /\ Cardinality(Callers) \in Nat /\ Width \in Nat
BY RateNumbers DEF Books, Width

\* What the allowance is worth at least.
Worth(b) ==
  /\ b.gone = 0 => b.allowed + 1 >= Cardinality(Callers)
  /\ b.stale = 1 /\ b.first >= 1 => b.allowed >= Cardinality(Callers)

\* The list, its places and what was let in stay as they are.
SameList(b, d) ==
  /\ d.length = b.length /\ d.stale = b.stale /\ d.entered = b.entered /\ d.new = b.new
  /\ d.first = b.first /\ d.lost = b.lost /\ d.gone = b.gone /\ d.places = b.places /\ d.allowed = b.allowed

\* A request goes on without a word to the list, or prolongs the key.
LEMMA SumsStay ==
  ASSUME NEW s \in Nat, NEW b \in Books, NEW d \in Books, Sums(s, b), SameList(b, d),
         d.old <= b.old,
         b.length >= MaxRequests => d.room <= b.room /\ d.trim = b.trim,
         \/ d.coming <= b.coming
         \/ b.length < MaxRequests /\ d.coming <= Cardinality(Callers)
         \/ b.length >= MaxRequests /\ b.stale = 1 /\ d.coming + b.trim <= Cardinality(Callers) + b.room,
         (d.expires = b.expires /\ d.done >= b.done) \/ d.expires = 0 \/ d.expires >= s + Width
  PROVE  Sums(s, d)
BY BookNumbers DEF Sums, SameList

\* One is let in.
LEMMA SumsEnter ==
  ASSUME NEW s \in Nat, NEW b \in Books, NEW d \in Books, Sums(s, b),
         d.entered = b.entered + 1, d.new = b.new + 1, d.done = b.done + 1,
         d.length = b.length, d.stale = b.stale, d.expires = b.expires, d.coming = b.coming,
         d.room = b.room, d.trim = b.trim, d.old = b.old, d.first = b.first, d.lost = b.lost,
         d.gone = b.gone, d.places = b.places, d.allowed = b.allowed,
         b.old + 1 <= Cardinality(Callers)
  PROVE  Sums(s, d)
BY BookNumbers DEF Sums

\* One who found room writes, or one who is to trim from now on.
Writes(b, d) ==
  /\ d.length = b.length + 1 /\ d.entered = b.entered /\ d.expires = b.expires
  /\ d.coming + 1 <= b.coming
  /\ b.length >= MaxRequests => d.stale = b.stale
  /\ d.room + 1 <= Cardinality(Callers)
  /\ d.room <= b.room /\ d.room + b.trim + 1 <= b.room + d.trim
  /\ d.gone = b.gone /\ d.lost = b.lost

\* A time of the span is pushed; one from before it, behind times of the span; and one
\* from before it, as the first.
LEMMA SumsPushNew ==
  ASSUME NEW s \in Nat, NEW b \in Books, NEW d \in Books, Sums(s, b), Writes(b, d), Worth(d),
         b.new = d.new + 1, d.old = b.old, d.done >= b.done,
         d.first = b.first, d.places = b.places, d.allowed = b.allowed
  PROVE  Sums(s, d)
BY BookNumbers DEF Sums, Writes, Worth

LEMMA SumsPushOld ==
  ASSUME NEW s \in Nat, NEW b \in Books, NEW d \in Books, Sums(s, b), Writes(b, d), Worth(d),
         d.new = b.new, b.old = d.old + 1, d.done >= b.done,
         b.gone = 1 \/ b.entered # 0,
         d.first = b.first, d.places = b.places + 1, d.allowed >= b.allowed
  PROVE  Sums(s, d)
BY BookNumbers DEF Sums, Writes, Worth

LEMMA SumsPushFirst ==
  ASSUME NEW s \in Nat, NEW b \in Books, NEW d \in Books, Sums(s, b), Writes(b, d), Worth(d),
         d.new = b.new, d.old <= b.old, d.done >= b.done,
         b.gone = 0, b.entered <= 0, d.first = b.first - 1, d.places = b.places, d.allowed >= b.allowed
  PROVE  Sums(s, d)
<1>1. b.places <= 0 /\ b.lost <= 0 /\ d.places = 0 /\ d.lost = 0 /\ d.gone = 0 /\ d.entered = 0
  BY BookNumbers DEF Sums, Writes
<1>2. b.first + b.length + b.new = 1 /\ d.first + d.length = b.first + b.length
  <2>1. b.entered + b.places + 1 = b.first + b.length + b.new + b.lost
    BY DEF Sums
  <2>2. d.length = b.length + 1
    BY DEF Writes
  <2> QED
    BY <1>1, <2>1, <2>2, BookNumbers
<1>3. d.allowed + 1 >= Cardinality(Callers) /\ d.room + 1 <= Cardinality(Callers)
  BY <1>1, BookNumbers DEF Writes, Worth
<1>4. d.first + d.room <= d.allowed /\ d.first + d.room + d.length - MaxRequests <= d.trim + d.allowed
  <2>1. d.first <= 0 /\ d.first + d.length <= 1
    BY <1>2, BookNumbers
  <2> QED
    BY <1>3, <2>1, BookNumbers
<1>5. d.first + d.length + d.coming <= MaxRequests + Cardinality(Callers) + d.allowed /\ d.first <= 1
  <2>1. b.first + b.length + b.coming <= MaxRequests + Cardinality(Callers) + b.allowed
    BY DEF Sums
  <2>2. d.coming + 1 <= b.coming
    BY DEF Writes
  <2> QED
    BY <1>2, <2>1, <2>2, BookNumbers
<1>6. d.entered + d.places + 1 = d.first + d.length + d.new + d.lost
  BY <1>1, <1>2, BookNumbers
<1>7. d.expires # 0 /\ d.expires < s + Width => d.entered <= d.done
  BY <1>1, BookNumbers
<1> QED
  BY <1>1, <1>4, <1>5, <1>6, <1>7 DEF Sums

\* The list is cut to the limit.
LEMMA SumsTrim ==
  ASSUME NEW s \in Nat, NEW b \in Books, NEW d \in Books, Sums(s, b), Worth(d),
         b.length >= MaxRequests, d.length = MaxRequests, d.first = b.first + b.length - MaxRequests,
         d.entered = b.entered, d.expires = b.expires, d.new = b.new, d.old = b.old,
         d.coming = b.coming, d.room = b.room, b.room <= b.coming, b.trim = d.trim + 1,
         b.trim <= Cardinality(Callers),
         d.room + 1 <= Cardinality(Callers), d.done >= b.done, d.lost = b.lost, d.gone = b.gone,
         d.places = b.places, d.allowed >= b.allowed,
         b.length = MaxRequests => d.stale = b.stale,
         b.length > MaxRequests /\ d.stale = 1 /\ d.first >= 1 => d.allowed >= b.allowed + Cardinality(Callers)
  PROVE  Sums(s, d)
BY BookNumbers DEF Sums, Worth

\* The key expires.
LEMMA SumsKeyGone ==
  ASSUME NEW s \in Nat, NEW b \in Books, NEW d \in Books, Sums(s, b),
         b.expires # 0, b.expires < s + Width, d.expires = 0,
         d.length = 0, d.entered = b.entered, d.new = b.new, d.old = b.old, d.coming = b.coming,
         d.first = 1, d.gone = 1, d.places = 0, d.lost + b.new = b.entered,
         b.coming <= Cardinality(Callers), b.done + b.old <= Cardinality(Callers)
  PROVE  b.gone = 0 /\ b.new <= b.entered /\ Sums(s, d)
BY BookNumbers DEF Sums

\* A span begins.
LEMMA SumsBegin ==
  ASSUME NEW s \in Nat, NEW b \in Books,
         b.entered = 0, b.new = 0, b.lost = 0, b.gone = 0, b.places = 0, b.first = 1 - b.length,
         b.coming <= Cardinality(Callers), b.room + b.trim <= Cardinality(Callers), Worth(b),
         b.length + b.room <= MaxRequests - 1 + Cardinality(Callers) + b.trim
  PROVE  Sums(s, b)
<1>1. b.length >= MaxRequests =>
       /\ b.first + b.room <= b.allowed
       /\ b.first + b.room + b.length - MaxRequests <= b.trim + b.allowed
  BY BookNumbers DEF Worth
<1> QED
  BY <1>1, BookNumbers DEF Sums

\* The most that come in a span on top of the limit.
Most == IF Cardinality(Callers) <= 1 THEN 1 ELSE Cardinality(Callers) * Cardinality(Callers) - 1

LEMMA MostAfterExpiry ==
  ASSUME NEW n \in Nat, NEW p \in Nat, NEW l \in Nat, p + l <= n
  PROVE  /\ n = 1 => n + n * p + l <= p + 2
         /\ n >= 2 => n + n * p + l <= n * n + p
<1>1. CASE n = 1
  BY <1>1
<1>2. CASE n >= 2
  <2>1. (n - 2) * p <= (n - 2) * n
    BY <1>2, Grows
  <2>2. (n - 2) * p = n * p - 2 * p /\ (n - 2) * n = n * n - 2 * n
    OBVIOUS
  <2>3. n * p \in Nat /\ n * n \in Nat
    OBVIOUS
  <2> QED
    BY <1>2, <2>1, <2>2, <2>3
<1> QED
  BY <1>1, <1>2

LEMMA MostBefore ==
  ASSUME NEW n \in Nat \ {0}, NEW p \in Nat, p + 1 <= n
  PROVE  /\ n = 1 => n + n * p + (n - 1) <= p + 2
         /\ n >= 2 => n + n * p + (n - 1) <= n * n + p
<1>1. CASE n = 1
  BY <1>1
<1>2. CASE n >= 2
  <2>1. (n - 1) * p <= (n - 1) * (n - 1)
    BY <1>2, Grows
  <2>2. (n - 1) * p = n * p - p /\ (n - 1) * (n - 1) = n * n - 2 * n + 1
    OBVIOUS
  <2>3. n * p \in Nat /\ n * n \in Nat
    OBVIOUS
  <2> QED
    BY <1>2, <2>1, <2>2, <2>3
<1> QED
  BY <1>1, <1>2

\* No more than this many entered, when one more is about to.
LEMMA SumsEnough ==
  ASSUME NEW s \in Nat, NEW b \in Books, Sums(s, b), b.new + 1 <= b.coming,
         b.allowed <= Cardinality(Callers) * b.places + Spare(b.gone),
         Cardinality(Callers) >= 1
  PROVE  b.entered < MaxRequests + Most
<1> DEFINE n == Cardinality(Callers)
           a == n * b.places
<1>1. n \in Nat \ {0} /\ a \in Nat /\ n * n \in Nat
  BY BookNumbers
<1>2. n * n >= 1
  BY <1>1, Grows
<1>3. Most \in Nat \ {0} /\ (n = 1 => Most = 1) /\ (n >= 2 => Most = n * n - 1)
  <2>1. n >= 2 => n * n >= 2
    BY <1>1, Grows
  <2> HIDE DEF a
  <2> QED
    BY <1>1, <2>1 DEF Most
<1>4. b.gone = 1 => b.places + b.lost <= n
  BY BookNumbers DEF Sums
<1>5. b.gone = 0 /\ b.entered # 0 => b.places + 1 <= n /\ b.lost <= 0
  BY BookNumbers DEF Sums
<1>6. b.entered + b.places + 2 <= MaxRequests + n + b.allowed + b.lost
  <2>1. /\ b.entered + b.places + 1 = b.first + b.length + b.new + b.lost
        /\ b.first + b.length + b.coming <= MaxRequests + n + b.allowed
    BY DEF Sums
  <2> HIDE DEF n, a
  <2> QED
    BY <1>1, <2>1, BookNumbers
<1>7. Spare(b.gone) = IF b.gone = 1 THEN 0 ELSE n - 1
  BY <1>1 DEF Spare
<1>8. CASE b.gone = 1
  <2>1. (n = 1 => n + a + b.lost <= b.places + 2) /\ (n >= 2 => n + a + b.lost <= n * n + b.places)
    BY <1>1, <1>4, <1>8, BookNumbers, MostAfterExpiry
  <2>2. b.allowed <= a
    BY <1>7, <1>8, BookNumbers
  <2> HIDE DEF n, a
  <2> QED
    BY <1>1, <1>3, <1>6, <2>1, <2>2, BookNumbers
<1>9. CASE b.gone = 0 /\ b.entered # 0
  <2>1. (n = 1 => n + a + (n - 1) <= b.places + 2) /\ (n >= 2 => n + a + (n - 1) <= n * n + b.places)
    BY <1>1, <1>5, <1>9, BookNumbers, MostBefore
  <2>2. b.allowed <= a + (n - 1)
    BY <1>7, <1>9
  <2> HIDE DEF n, a
  <2> QED
    BY <1>1, <1>3, <1>5, <1>6, <1>9, <2>1, <2>2, BookNumbers
<1>10. CASE b.gone = 0 /\ b.entered = 0
  BY <1>3, <1>10, BookNumbers
<1> QED
  BY <1>8, <1>9, <1>10, BookNumbers

-----------------------------------------------------------------------------
(* The requests at work, as they stand to the span                          *)

\* Those that are let in, or will be, on a time before it; those that found room, and
\* those that are to trim; those that are to push a time in it, or before it; those that
\* have nothing left to push.
Coming(c, s) == {k \in Callers : c[k].at \in {"stamp", "push"} \/ (c[k].at = "judge" /\ c[k].time < s)}
Found(c)     == {k \in Callers : c[k].at \in {"stamp", "push"} /\ ~c[k].full}
ToTrim(c)    == {k \in Callers : c[k].at = "trim"}
Newer(c, s)  == {k \in Callers : c[k].at = "push" /\ c[k].time >= s}
Older(c, s)  == {k \in Callers : c[k].at = "push" /\ c[k].time < s}
Done(c, s)   == {k \in Callers : c[k].at \in {"trim", "expire"} \/ (c[k].at = "push" /\ c[k].time >= s)}

Size(A) == Cardinality(A)

LEMMA Sizes ==
  ASSUME NEW A \in SUBSET Callers
  PROVE  Size(A) \in Nat /\ Size(A) <= Cardinality(Callers) /\ IsFiniteSet(A)
BY RateNumbers, Smaller DEF Size

LEMMA SizeLess ==
  ASSUME NEW A \in SUBSET Callers, NEW B \in SUBSET A
  PROVE  Size(B) <= Size(A)
BY RateNumbers, Smaller DEF Size

LEMMA SizeWithout ==
  ASSUME NEW A \in SUBSET Callers, NEW k \in Callers, k \notin A
  PROVE  Size(A) + 1 <= Cardinality(Callers)
<1>1. A \in SUBSET (Callers \ {k})
  OBVIOUS
<1> QED
  BY <1>1, RateNumbers, OneFewer DEF Size

\* Two sets that differ in one request at most.
Moves(A, B, k) ==
  /\ (k \in A <=> k \in B) => Size(A) = Size(B)
  /\ k \in A /\ k \notin B => Size(A) = Size(B) + 1
  /\ k \notin A /\ k \in B => Size(B) = Size(A) + 1
  /\ k \in A \/ k \notin B => Size(B) <= Size(A)
  /\ k \notin A \/ k \in B => Size(A) <= Size(B)

LEMMA OneDiffers ==
  ASSUME NEW A \in SUBSET Callers, NEW B \in SUBSET Callers, NEW k \in Callers, A \ {k} = B \ {k}
  PROVE  Moves(A, B, k)
<1>1. IsFiniteSet(A) /\ IsFiniteSet(B) /\ Size(A) \in Nat /\ Size(B) \in Nat
  BY Sizes
<1>2. CASE k \in A <=> k \in B
  <2>1. A = B
    BY <1>2
  <2> QED
    BY <1>1, <1>2, <2>1 DEF Moves
<1>3. CASE k \in A /\ k \notin B
  <2>1. B = A \ {k}
    BY <1>3
  <2>2. Size(B) = Size(A) - 1
    BY <1>1, <1>3, <2>1, FS_RemoveElement DEF Size
  <2>3. Size(A) = Size(B) + 1
    BY <1>1, <2>2
  <2> QED
    BY <1>1, <1>3, <2>3 DEF Moves
<1>4. CASE k \notin A /\ k \in B
  <2>1. A = B \ {k}
    BY <1>4
  <2>2. Size(A) = Size(B) - 1
    BY <1>1, <1>4, <2>1, FS_RemoveElement DEF Size
  <2>3. Size(B) = Size(A) + 1
    BY <1>1, <2>2
  <2> QED
    BY <1>1, <1>4, <2>3 DEF Moves
<1> QED
  BY <1>2, <1>3, <1>4

LEMMA Disjoint ==
  ASSUME NEW A \in SUBSET Callers, NEW B \in SUBSET Callers, A \cap B = {}
  PROVE  /\ A \cup B \in SUBSET Callers /\ Size(A \cup B) = Size(A) + Size(B)
         /\ Size(A) + Size(B) <= Cardinality(Callers)
<1>1. IsFiniteSet(A) /\ IsFiniteSet(B) /\ Size(A) \in Nat /\ Size(B) \in Nat
  BY Sizes
<1>2. Cardinality(A \cup B) = Cardinality(A) + Cardinality(B) - Cardinality(A \cap B)
  BY <1>1, FS_Union
<1>3. Cardinality(A \cap B) = 0
  BY FS_EmptySet
<1>4. Size(A \cup B) = Size(A) + Size(B)
  BY <1>1, <1>2, <1>3 DEF Size
<1>5. A \cup B \in SUBSET Callers
  OBVIOUS
<1>6. Size(A \cup B) <= Cardinality(Callers)
  BY <1>5, Sizes
<1> QED
  BY <1>4, <1>5, <1>6

LEMMA SetsOfCallers ==
  ASSUME NEW c, NEW s
  PROVE  /\ Coming(c, s) \in SUBSET Callers /\ Found(c) \in SUBSET Callers
         /\ ToTrim(c) \in SUBSET Callers /\ Newer(c, s) \in SUBSET Callers
         /\ Older(c, s) \in SUBSET Callers /\ Done(c, s) \in SUBSET Callers
BY DEF Coming, Found, ToTrim, Newer, Older, Done

LEMMA SizesNat ==
  ASSUME NEW c, NEW s
  PROVE  /\ Size(Coming(c, s)) \in Nat /\ Size(Found(c)) \in Nat /\ Size(ToTrim(c)) \in Nat
         /\ Size(Newer(c, s)) \in Nat /\ Size(Older(c, s)) \in Nat /\ Size(Done(c, s)) \in Nat
         /\ Size(Coming(c, s)) <= Cardinality(Callers) /\ Size(ToTrim(c)) <= Cardinality(Callers)
         /\ Cardinality(Callers) \in Nat
BY SetsOfCallers, Sizes, RateNumbers

\* The sets when one request moves.
LEMMA MovesOne ==
  ASSUME NEW s \in Nat, NEW k \in Callers, NEW c, NEW d, \A j \in Callers : j = k \/ d[j] = c[j]
  PROVE  /\ Moves(Coming(c, s), Coming(d, s), k) /\ Moves(Found(c), Found(d), k)
         /\ Moves(ToTrim(c), ToTrim(d), k) /\ Moves(Newer(c, s), Newer(d, s), k)
         /\ Moves(Older(c, s), Older(d, s), k) /\ Moves(Done(c, s), Done(d, s), k)
<1>1. Coming(c, s) \ {k} = Coming(d, s) \ {k}
  BY DEF Coming
<1>2. Found(c) \ {k} = Found(d) \ {k}
  BY DEF Found
<1>3. ToTrim(c) \ {k} = ToTrim(d) \ {k}
  BY DEF ToTrim
<1>4. Newer(c, s) \ {k} = Newer(d, s) \ {k}
  BY DEF Newer
<1>5. Older(c, s) \ {k} = Older(d, s) \ {k}
  BY DEF Older
<1>6. Done(c, s) \ {k} = Done(d, s) \ {k}
  BY DEF Done
<1> QED
  BY <1>1, <1>2, <1>3, <1>4, <1>5, <1>6, SetsOfCallers, OneDiffers

\* Each request is in few of the sets.
LEMMA SetsApart ==
  ASSUME NEW s \in Nat, NEW c \in [Callers -> Calls]
  PROVE  /\ Size(Found(c)) <= Size(Coming(c, s))
         /\ Size(Found(c)) + Size(ToTrim(c)) <= Cardinality(Callers)
         /\ Size(Done(c, s)) + Size(Older(c, s)) <= Cardinality(Callers)
         /\ Size(Newer(c, s)) <= Size(Done(c, s))
         /\ \A k \in Callers : k \notin Coming(c, s) /\ k \notin ToTrim(c) =>
              Size(Coming(c, s)) + Size(ToTrim(c)) + 1 <= Cardinality(Callers) + Size(Found(c))
         /\ \A k \in Callers : c[k].at = "stamp" => Size(Newer(c, s)) + 1 <= Size(Coming(c, s))
<1>1. Found(c) \in SUBSET Coming(c, s) /\ Newer(c, s) \in SUBSET Done(c, s)
  <2>1. Found(c) \in SUBSET Coming(c, s)
    BY DEF Found, Coming
  <2>2. Newer(c, s) \in SUBSET Done(c, s)
    BY DEF Newer, Done
  <2> QED
    BY <2>1, <2>2
<1>2. Found(c) \cap ToTrim(c) = {}
  BY DEF Found, ToTrim
<1>3. Done(c, s) \cap Older(c, s) = {}
  <2> SUFFICES ASSUME NEW k \in Done(c, s), k \in Older(c, s) PROVE FALSE
    OBVIOUS
  <2>1. c[k].at = "push" /\ c[k].time < s /\ c[k].time >= s /\ c[k].time \in Nat
    BY RateNumbers DEF Done, Older, Calls
  <2> QED
    BY <2>1
<1>4. Coming(c, s) \cap ToTrim(c) = {}
  BY DEF Coming, ToTrim
<1>5. ASSUME NEW k \in Callers, k \notin Coming(c, s), k \notin ToTrim(c)
      PROVE  Size(Coming(c, s)) + Size(ToTrim(c)) + 1 <= Cardinality(Callers) + Size(Found(c))
  <2>1. Size(Coming(c, s) \cup ToTrim(c)) = Size(Coming(c, s)) + Size(ToTrim(c))
    BY <1>4, SetsOfCallers, Disjoint
  <2>2. Size(Coming(c, s) \cup ToTrim(c)) + 1 <= Cardinality(Callers)
    <3>1. k \notin Coming(c, s) \cup ToTrim(c) /\ Coming(c, s) \cup ToTrim(c) \in SUBSET Callers
      BY <1>5, SetsOfCallers
    <3> QED
      BY <3>1, SizeWithout
  <2> QED
    BY <2>1, <2>2, SizesNat
<1>6. ASSUME NEW k \in Callers, c[k].at = "stamp"
      PROVE  Size(Newer(c, s)) + 1 <= Size(Coming(c, s))
  <2>1. k \in Coming(c, s) /\ Newer(c, s) \in SUBSET (Coming(c, s) \ {k})
    <3>1. k \in Coming(c, s) /\ k \notin Newer(c, s)
      BY <1>6 DEF Coming, Newer
    <3>2. Newer(c, s) \in SUBSET Coming(c, s)
      BY DEF Coming, Newer
    <3> QED
      BY <3>1, <3>2
  <2>2. IsFiniteSet(Coming(c, s))
    BY SetsOfCallers, Sizes
  <2> QED
    BY <2>1, <2>2, OneFewer DEF Size
<1>7. Size(Found(c)) <= Size(Coming(c, s)) /\ Size(Newer(c, s)) <= Size(Done(c, s))
  BY <1>1, SetsOfCallers, SizeLess
<1>8. /\ Size(Found(c)) + Size(ToTrim(c)) <= Cardinality(Callers)
      /\ Size(Done(c, s)) + Size(Older(c, s)) <= Cardinality(Callers)
  BY <1>2, <1>3, SetsOfCallers, Disjoint
<1> QED
  BY <1>5, <1>6, <1>7, <1>8

-----------------------------------------------------------------------------
(* The sums of a span, step by step                                         *)

\* q is the list, p the times of those let in, e when the key expires, c the requests;
\* p[m + 1] is the first time of the span.
Book(s, q, p, e, c, m, h, l, X, x) ==
  [length |-> Len(q), entered |-> Len(p) - m, expires |-> e,
   stale |-> IF Len(q) >= 1 /\ q[1] < s THEN 1 ELSE 0,
   coming |-> Size(Coming(c, s)), room |-> Size(Found(c)), trim |-> Size(ToTrim(c)),
   new |-> Size(Newer(c, s)), old |-> Size(Older(c, s)), done |-> Size(Done(c, s)),
   first |-> h, lost |-> l, gone |-> x, places |-> Cardinality(X), allowed |-> Allowance(h, X, x)]

Ghosts(p, m, h, l, x) == m \in Nat /\ m <= Len(p) /\ h \in Int /\ l \in Nat /\ x \in {0, 1}

Holds(s, q, p, e, c, m, h, l, X, x) ==
  /\ Ghosts(p, m, h, l, x)
  /\ \A i \in 1 .. m : p[i] < s
  /\ Placed(s, q, h, X)
  /\ Sums(s, Book(s, q, p, e, c, m, h, l, X, x))

BoundedAt(s, q, p, e, c) ==
  \E m \in Nat, h \in Int, l \in Nat, X \in SUBSET Nat, x \in {0, 1} : Holds(s, q, p, e, c, m, h, l, X, x)

LEMMA BookFields ==
  ASSUME NEW s, NEW q, NEW p, NEW e, NEW c, NEW m, NEW h, NEW l, NEW X, NEW x
  PROVE  LET b == Book(s, q, p, e, c, m, h, l, X, x)
         IN  /\ b.length = Len(q) /\ b.entered = Len(p) - m /\ b.expires = e
             /\ b.stale = (IF Len(q) >= 1 /\ q[1] < s THEN 1 ELSE 0)
             /\ b.coming = Size(Coming(c, s)) /\ b.room = Size(Found(c)) /\ b.trim = Size(ToTrim(c))
             /\ b.new = Size(Newer(c, s)) /\ b.old = Size(Older(c, s)) /\ b.done = Size(Done(c, s))
             /\ b.first = h /\ b.lost = l /\ b.gone = x /\ b.places = Cardinality(X)
             /\ b.allowed = Allowance(h, X, x)
BY DEF Book

LEMMA PlacedNumbers ==
  ASSUME NEW s \in Nat, NEW q \in Seq(Nat), NEW h \in Int, NEW X, Placed(s, q, h, X)
  PROVE  /\ Len(q) \in Nat /\ h - 1 + Len(q) \in Nat /\ X \in SUBSET Nat /\ X \in SUBSET Int
         /\ IsFiniteSet(X) /\ Cardinality(X) \in Nat /\ h + Len(q) \notin X
<1> DEFINE k == h - 1 + Len(q)
<1>1. Len(q) \in Nat /\ k \in Nat /\ X \in SUBSET (1 .. k)
  BY DEF Placed
<1>2. h + Len(q) = k + 1
  BY <1>1
<1> HIDE DEF k
<1>3. X \in SUBSET Nat /\ X \in SUBSET Int /\ k + 1 \notin X
  BY <1>1
<1>4. IsFiniteSet(X) /\ Cardinality(X) \in Nat
  <2>1. k \in Int
    BY <1>1
  <2> QED
    BY <1>1, <2>1, PlacesFinite
<1> QED
  BY <1>1, <1>2, <1>3, <1>4 DEF k

LEMMA BookTypes ==
  ASSUME NEW s \in Nat, NEW q \in Seq(Nat), NEW p \in Seq(Nat), NEW e \in Nat, NEW c,
         NEW m, NEW h, NEW l, NEW X, NEW x, Ghosts(p, m, h, l, x), Placed(s, q, h, X)
  PROVE  LET b == Book(s, q, p, e, c, m, h, l, X, x)
         IN  /\ b \in Books /\ Worth(b)
             /\ b.allowed <= Cardinality(Callers) * b.places + Spare(b.gone)
<1> DEFINE b == Book(s, q, p, e, c, m, h, l, X, x)
           n == Cardinality(Callers)
           u == Cardinality(UpTo(h, X))
<1>1. m \in Nat /\ m <= Len(p) /\ h \in Int /\ l \in Nat /\ x \in {0, 1} /\ Len(p) \in Nat
  BY DEF Ghosts
<1>2. /\ Len(q) \in Nat /\ X \in SUBSET Int /\ IsFiniteSet(X) /\ Cardinality(X) \in Nat
  BY <1>1, PlacedNumbers
<1>3. /\ Allowance(h, X, x) \in Nat /\ Spare(x) <= Allowance(h, X, x)
      /\ h \in X => n + Spare(x) <= Allowance(h, X, x)
  <2>1. X \subseteq X /\ h <= h
    BY <1>1
  <2> QED
    BY <1>1, <1>2, <2>1, AllowanceGrows
<1>4. Len(p) - m \in Nat
  BY <1>1
<1>5. (IF Len(q) >= 1 /\ q[1] < s THEN 1 ELSE 0) \in {0, 1}
  OBVIOUS
<1>6. b \in Books
  BY <1>1, <1>2, <1>3, <1>4, <1>5, SizesNat DEF Book, Books
<1>7. n \in Nat /\ Spare(x) \in Nat /\ (x = 0 => Spare(x) + 1 >= n)
  BY RateNumbers DEF Spare
<1>8. Len(q) >= 1 /\ q[1] < s /\ h >= 1 => h \in X
  <2> SUFFICES ASSUME Len(q) >= 1, q[1] < s, h >= 1 PROVE h \in X
    OBVIOUS
  <2>1. 1 \in 1 .. Len(q) /\ h + 1 - 1 = h
    BY <1>1, <1>2
  <2> QED
    BY <2>1 DEF Placed
<1>9. Worth(b)
  <2>1. x = 0 => Allowance(h, X, x) + 1 >= n
    BY <1>3, <1>7
  <2>2. Len(q) >= 1 /\ q[1] < s /\ h >= 1 => Allowance(h, X, x) >= n
    BY <1>3, <1>7, <1>8
  <2>3. /\ b.gone = x /\ b.allowed = Allowance(h, X, x) /\ b.first = h
        /\ b.stale = (IF Len(q) >= 1 /\ q[1] < s THEN 1 ELSE 0)
    BY BookFields
  <2> HIDE DEF b
  <2> QED
    BY <2>1, <2>2, <2>3 DEF Worth
<1>10. Allowance(h, X, x) <= n * Cardinality(X) + Spare(x)
  <2>1. UpTo(h, X) \in SUBSET X
    BY DEF UpTo
  <2>2. u \in Nat /\ u <= Cardinality(X)
    BY <1>2, <2>1, Smaller
  <2>3. n * u <= n * Cardinality(X)
    BY <1>2, <1>7, <2>2, Grows
  <2>4. n * u \in Nat /\ n * Cardinality(X) \in Nat
    BY <1>2, <1>7, <2>2, Grows
  <2>5. Allowance(h, X, x) = n * u + Spare(x)
    BY DEF Allowance
  <2> HIDE DEF n, u
  <2> QED
    BY <1>7, <2>3, <2>4, <2>5
<1>11. b.allowed = Allowance(h, X, x) /\ b.places = Cardinality(X) /\ b.gone = x
  BY BookFields
<1> HIDE DEF b
<1>12. b.allowed <= n * b.places + Spare(b.gone)
  BY <1>10, <1>11
<1> QED
  BY <1>6, <1>9, <1>12 DEF b

\* The conditions under which a request goes on without a word to the list.
Proceeds(s, q, e, c, f, d, k) ==
  /\ f \in Nat /\ d \in [Callers -> Calls] /\ k \in Callers
  /\ \A j \in Callers : j = k \/ d[j] = c[j]
  /\ {c[k].at, d[k].at} \cap {"push", "trim"} = {}
  /\ Len(q) >= MaxRequests => k \in Found(c) \/ k \notin Found(d)
  /\ \/ k \in Coming(c, s) \/ k \notin Coming(d, s)
     \/ Len(q) < MaxRequests
     \/ q[1] < s
  /\ (f = e /\ (k \notin Done(c, s) \/ k \in Done(d, s))) \/ f = 0 \/ f >= s + Width

\* A request goes on, or the key is prolonged: the list and who was let in stay.
LEMMA HoldsStays ==
  ASSUME NEW s \in Nat, NEW q \in Seq(Nat), NEW p \in Seq(Nat), NEW e \in Nat,
         NEW c \in [Callers -> Calls],
         NEW m, NEW h, NEW l, NEW X, NEW x, Holds(s, q, p, e, c, m, h, l, X, x),
         NEW f, NEW d, NEW k, Proceeds(s, q, e, c, f, d, k)
  PROVE  Holds(s, q, p, f, d, m, h, l, X, x)
<1> SUFFICES ASSUME
         f \in Nat, d \in [Callers -> Calls], k \in Callers,
         \A j \in Callers : j = k \/ d[j] = c[j],
         {c[k].at, d[k].at} \cap {"push", "trim"} = {},
         Len(q) >= MaxRequests => k \in Found(c) \/ k \notin Found(d),
         \/ k \in Coming(c, s) \/ k \notin Coming(d, s)
         \/ Len(q) < MaxRequests
         \/ q[1] < s,
         (f = e /\ (k \notin Done(c, s) \/ k \in Done(d, s))) \/ f = 0 \/ f >= s + Width
             PROVE  Holds(s, q, p, f, d, m, h, l, X, x)
  BY DEF Proceeds
<1> DEFINE b == Book(s, q, p, e, c, m, h, l, X, x)
           a == Book(s, q, p, f, d, m, h, l, X, x)
<1>1. Ghosts(p, m, h, l, x) /\ Placed(s, q, h, X) /\ Sums(s, b)
  BY DEF Holds
<1>2. b \in Books /\ a \in Books
  BY <1>1, BookTypes
<1>3. /\ b.length = Len(q) /\ b.expires = e /\ b.stale = (IF Len(q) >= 1 /\ q[1] < s THEN 1 ELSE 0)
      /\ b.coming = Size(Coming(c, s)) /\ b.room = Size(Found(c)) /\ b.trim = Size(ToTrim(c))
      /\ b.new = Size(Newer(c, s)) /\ b.old = Size(Older(c, s)) /\ b.done = Size(Done(c, s))
  BY BookFields
<1>4. /\ a.length = Len(q) /\ a.expires = f /\ a.stale = (IF Len(q) >= 1 /\ q[1] < s THEN 1 ELSE 0)
      /\ a.coming = Size(Coming(d, s)) /\ a.room = Size(Found(d)) /\ a.trim = Size(ToTrim(d))
      /\ a.new = Size(Newer(d, s)) /\ a.old = Size(Older(d, s)) /\ a.done = Size(Done(d, s))
  BY BookFields
<1>5. /\ k \notin ToTrim(c) /\ k \notin ToTrim(d) /\ k \notin Newer(c, s) /\ k \notin Newer(d, s)
      /\ k \notin Older(c, s) /\ k \notin Older(d, s)
  BY DEF ToTrim, Newer, Older
<1>6. /\ Moves(Coming(c, s), Coming(d, s), k) /\ Moves(Found(c), Found(d), k)
      /\ Moves(ToTrim(c), ToTrim(d), k) /\ Moves(Newer(c, s), Newer(d, s), k)
      /\ Moves(Older(c, s), Older(d, s), k) /\ Moves(Done(c, s), Done(d, s), k)
  BY MovesOne
<1>7. a.trim = b.trim /\ a.new = b.new /\ a.old = b.old
  BY <1>3, <1>4, <1>5, <1>6 DEF Moves
<1>8. SameList(b, a)
  <2>1. /\ b.entered = a.entered /\ b.first = a.first /\ b.lost = a.lost /\ b.gone = a.gone
        /\ b.places = a.places /\ b.allowed = a.allowed
    BY BookFields
  <2> HIDE DEF a, b
  <2> QED
    BY <1>3, <1>4, <1>7, <2>1 DEF SameList
<1> HIDE DEF a, b
<1>9. b.length >= MaxRequests => a.room <= b.room /\ a.trim = b.trim
  <2>1. k \in Found(c) \/ k \notin Found(d) => Size(Found(d)) <= Size(Found(c))
    BY <1>6 DEF Moves
  <2> QED
    BY <1>3, <1>4, <1>7, <2>1
<1>10. \/ a.coming <= b.coming
       \/ b.length < MaxRequests /\ a.coming <= Cardinality(Callers)
       \/ b.length >= MaxRequests /\ b.stale = 1 /\ a.coming + b.trim <= Cardinality(Callers) + b.room
  <2>1. CASE k \in Coming(c, s) \/ k \notin Coming(d, s)
    <3>1. Size(Coming(d, s)) <= Size(Coming(c, s))
      BY <1>6, <2>1 DEF Moves
    <3> QED
      BY <1>3, <1>4, <3>1
  <2>2. CASE Len(q) < MaxRequests
    BY <1>3, <1>4, <2>2, SizesNat
  <2>3. CASE Len(q) >= MaxRequests /\ q[1] < s /\ k \notin Coming(c, s) /\ k \in Coming(d, s)
    <3>1. Size(Coming(d, s)) = Size(Coming(c, s)) + 1
      BY <1>6, <2>3 DEF Moves
    <3>2. Size(Coming(c, s)) + Size(ToTrim(c)) + 1 <= Cardinality(Callers) + Size(Found(c))
      BY <1>5, <2>3, SetsApart
    <3>3. Len(q) >= 1
      BY <2>3, RateNumbers
    <3>4. b.length >= MaxRequests /\ b.stale = 1
      BY <1>3, <2>3, <3>3
    <3>5. /\ a.coming = Size(Coming(c, s)) + 1 /\ b.trim = Size(ToTrim(c))
          /\ b.room = Size(Found(c))
      BY <1>3, <1>4, <3>1
    <3>6. /\ Size(Coming(c, s)) \in Nat /\ Size(ToTrim(c)) \in Nat /\ Size(Found(c)) \in Nat
          /\ Cardinality(Callers) \in Nat
      BY SizesNat
    <3>7. a.coming + b.trim <= Cardinality(Callers) + b.room
      BY <3>2, <3>5, <3>6
    <3> QED
      BY <3>4, <3>7
  <2> QED
    BY <2>1, <2>2, <2>3, RateNumbers
<1>11. (a.expires = b.expires /\ a.done >= b.done) \/ a.expires = 0 \/ a.expires >= s + Width
  <2>1. k \notin Done(c, s) \/ k \in Done(d, s) => Size(Done(d, s)) >= Size(Done(c, s))
    BY <1>6 DEF Moves
  <2> QED
    BY <1>3, <1>4, <2>1
<1>12. a.old <= b.old
  BY <1>2, <1>7, BookNumbers
<1>13. Sums(s, a)
  BY <1>1, <1>2, <1>8, <1>9, <1>10, <1>11, <1>12, SumsStay
<1> QED
  BY <1>1, <1>13 DEF Holds, a

\* Nothing happens but that time passes.
LEMMA HoldsSame ==
  ASSUME NEW s \in Nat, NEW q, NEW p, NEW e, NEW c, NEW d,
         NEW m, NEW h, NEW l, NEW X, NEW x, Holds(s, q, p, e, c, m, h, l, X, x),
         \A k \in Callers : /\ d[k].at = c[k].at
                            /\ c[k].at = "free" \/ (d[k].time = c[k].time /\ d[k].full = c[k].full)
  PROVE  Holds(s, q, p, e, d, m, h, l, X, x)
<1>1. /\ Coming(d, s) = Coming(c, s) /\ Found(d) = Found(c) /\ ToTrim(d) = ToTrim(c)
      /\ Newer(d, s) = Newer(c, s) /\ Older(d, s) = Older(c, s) /\ Done(d, s) = Done(c, s)
  <2>1. Coming(d, s) = Coming(c, s)
    BY DEF Coming
  <2>2. Found(d) = Found(c)
    BY DEF Found
  <2>3. ToTrim(d) = ToTrim(c)
    BY DEF ToTrim
  <2>4. Newer(d, s) = Newer(c, s)
    BY DEF Newer
  <2>5. Older(d, s) = Older(c, s)
    BY DEF Older
  <2>6. Done(d, s) = Done(c, s)
    BY DEF Done
  <2> QED
    BY <2>1, <2>2, <2>3, <2>4, <2>5, <2>6
<1>2. Book(s, q, p, e, d, m, h, l, X, x) = Book(s, q, p, e, c, m, h, l, X, x)
  BY <1>1 DEF Book
<1> QED
  BY <1>2 DEF Holds

\* A request is let in at t.
LEMMA HoldsEnters ==
  ASSUME NEW s \in Nat, NEW q \in Seq(Nat), NEW p \in Seq(Nat), NEW e \in Nat,
         NEW c \in [Callers -> Calls],
         NEW m, NEW h, NEW l, NEW X, NEW x, Holds(s, q, p, e, c, m, h, l, X, x),
         NEW t \in Nat, t >= s, NEW d \in [Callers -> Calls], NEW k \in Callers,
         \A j \in Callers : j = k \/ d[j] = c[j],
         c[k].at = "stamp", d[k].at = "push", d[k].time = t, d[k].full = c[k].full
  PROVE  Holds(s, q, Append(p, t), e, d, m, h, l, X, x)
<1> DEFINE r == Append(p, t)
           b == Book(s, q, p, e, c, m, h, l, X, x)
           a == Book(s, q, r, e, d, m, h, l, X, x)
<1>1. Ghosts(p, m, h, l, x) /\ Placed(s, q, h, X) /\ Sums(s, b) /\ (\A i \in 1 .. m : p[i] < s)
  BY DEF Holds
<1>2. r \in Seq(Nat) /\ Len(r) = Len(p) + 1 /\ Len(p) \in Nat /\ (\A i \in 1 .. Len(p) : r[i] = p[i])
  OBVIOUS
<1> HIDE DEF r
<1>3. Ghosts(r, m, h, l, x)
  BY <1>1, <1>2 DEF Ghosts
<1>4. \A i \in 1 .. m : r[i] < s
  <2>1. m \in Nat /\ m <= Len(p)
    BY <1>1 DEF Ghosts
  <2>2. ASSUME NEW i \in 1 .. m PROVE r[i] < s
    <3>1. i \in 1 .. Len(p) /\ p[i] < s
      BY <1>1, <1>2, <2>1
    <3> QED
      BY <1>2, <3>1
  <2> QED
    BY <2>2
<1>5. b \in Books /\ a \in Books
  BY <1>1, <1>2, <1>3, BookTypes
<1>6. /\ k \in Coming(c, s) /\ k \in Coming(d, s) /\ (k \in Found(c) <=> k \in Found(d))
      /\ k \notin ToTrim(c) /\ k \notin ToTrim(d) /\ k \notin Newer(c, s) /\ k \in Newer(d, s)
      /\ k \notin Older(c, s) /\ k \notin Older(d, s) /\ k \notin Done(c, s) /\ k \in Done(d, s)
  <2>1. k \in Coming(c, s) /\ k \in Coming(d, s) /\ (k \in Found(c) <=> k \in Found(d))
    BY DEF Coming, Found
  <2>2. k \notin ToTrim(c) /\ k \notin ToTrim(d) /\ k \notin Newer(c, s) /\ k \in Newer(d, s)
    BY DEF ToTrim, Newer
  <2>3. k \notin Older(c, s) /\ k \notin Older(d, s) /\ k \notin Done(c, s) /\ k \in Done(d, s)
    BY DEF Older, Done
  <2> QED
    BY <2>1, <2>2, <2>3
<1>7. /\ Moves(Coming(c, s), Coming(d, s), k) /\ Moves(Found(c), Found(d), k)
      /\ Moves(ToTrim(c), ToTrim(d), k) /\ Moves(Newer(c, s), Newer(d, s), k)
      /\ Moves(Older(c, s), Older(d, s), k) /\ Moves(Done(c, s), Done(d, s), k)
  BY MovesOne
<1>8. /\ Size(Coming(c, s)) = Size(Coming(d, s)) /\ Size(Found(c)) = Size(Found(d))
      /\ Size(ToTrim(c)) = Size(ToTrim(d)) /\ Size(Newer(d, s)) = Size(Newer(c, s)) + 1
      /\ Size(Older(c, s)) = Size(Older(d, s)) /\ Size(Done(d, s)) = Size(Done(c, s)) + 1
  BY <1>6, <1>7 DEF Moves
<1>9. Size(Older(c, s)) + 1 <= Cardinality(Callers)
  BY <1>6, SetsOfCallers, SizeWithout
<1>10. Len(r) - m = Len(p) - m + 1
  BY <1>1, <1>2 DEF Ghosts
<1>11. /\ a.entered = b.entered + 1 /\ a.new = b.new + 1 /\ a.done = b.done + 1
       /\ a.length = b.length /\ a.stale = b.stale /\ a.expires = b.expires /\ a.coming = b.coming
       /\ a.room = b.room /\ a.trim = b.trim /\ a.old = b.old /\ a.first = b.first
       /\ a.lost = b.lost /\ a.gone = b.gone /\ a.places = b.places /\ a.allowed = b.allowed
  BY <1>8, <1>10, BookFields
<1>12. b.old + 1 <= Cardinality(Callers)
  BY <1>9, BookFields
<1> HIDE DEF a, b
<1>13. Sums(s, a)
  BY <1>1, <1>5, <1>11, <1>12, SumsEnter
<1> QED
  BY <1>1, <1>3, <1>4, <1>13 DEF Holds, a, r

\* Where a request that pushes moves to.
LEMMA PushMoves ==
  ASSUME NEW s \in Nat, NEW c, NEW d, NEW k \in Callers, NEW t \in Nat,
         \A j \in Callers : j = k \/ d[j] = c[j],
         c[k].at = "push", c[k].time = t, d[k].at \in {"trim", "expire"}
  PROVE  /\ t >= s => /\ Size(Newer(c, s)) = Size(Newer(d, s)) + 1
                      /\ Size(Older(d, s)) = Size(Older(c, s)) /\ Size(Done(d, s)) = Size(Done(c, s))
         /\ t < s => /\ Size(Older(c, s)) = Size(Older(d, s)) + 1
                     /\ Size(Newer(d, s)) = Size(Newer(c, s)) /\ Size(Done(d, s)) = Size(Done(c, s)) + 1
<1>1. /\ Moves(Newer(c, s), Newer(d, s), k) /\ Moves(Older(c, s), Older(d, s), k)
      /\ Moves(Done(c, s), Done(d, s), k)
  BY MovesOne
<1>2. ASSUME t >= s
      PROVE  /\ Size(Newer(c, s)) = Size(Newer(d, s)) + 1
             /\ Size(Older(d, s)) = Size(Older(c, s)) /\ Size(Done(d, s)) = Size(Done(c, s))
  <2>1. k \in Newer(c, s) /\ k \notin Newer(d, s)
    BY <1>2 DEF Newer
  <2>2. k \notin Older(c, s) /\ k \notin Older(d, s)
    BY <1>2 DEF Older
  <2>3. k \in Done(c, s) /\ k \in Done(d, s)
    BY <1>2 DEF Done
  <2> QED
    BY <1>1, <2>1, <2>2, <2>3 DEF Moves
<1>3. ASSUME t < s
      PROVE  /\ Size(Older(c, s)) = Size(Older(d, s)) + 1
             /\ Size(Newer(d, s)) = Size(Newer(c, s)) /\ Size(Done(d, s)) = Size(Done(c, s)) + 1
  <2>1. k \notin Newer(c, s) /\ k \notin Newer(d, s)
    BY <1>3 DEF Newer
  <2>2. k \in Older(c, s) /\ k \notin Older(d, s)
    BY <1>3 DEF Older
  <2>3. k \notin Done(c, s) /\ k \in Done(d, s)
    BY <1>3 DEF Done
  <2> QED
    BY <1>1, <2>1, <2>2, <2>3 DEF Moves
<1> QED
  BY <1>2, <1>3

\* What a request that pushes does to the book, whatever becomes of the places.
LEMMA BookWrites ==
  ASSUME NEW s \in Nat, NEW q \in Seq(Nat), NEW p \in Seq(Nat), NEW e \in Nat,
         NEW c \in [Callers -> Calls],
         NEW m, NEW h, NEW l, NEW X, NEW x, Ghosts(p, m, h, l, x),
         NEW t \in Nat, NEW d \in [Callers -> Calls], NEW k \in Callers,
         \A j \in Callers : j = k \/ d[j] = c[j],
         c[k].at = "push", c[k].time = t, d[k].at = (IF c[k].full THEN "trim" ELSE "expire"),
         NEW g, NEW Y
  PROVE  LET b == Book(s, q, p, e, c, m, h, l, X, x)
             a == Book(s, Append(q, t), p, e, d, m, g, l, Y, x)
         IN  Writes(b, a)
<1> DEFINE r == Append(q, t)
           b == Book(s, q, p, e, c, m, h, l, X, x)
           a == Book(s, r, p, e, d, m, g, l, Y, x)
<1>1. Len(r) = Len(q) + 1 /\ Len(q) \in Nat /\ (Len(q) >= 1 => r[1] = q[1])
  OBVIOUS
<1> HIDE DEF r
<1>2. c[k] \in Calls /\ d[k] \in Calls /\ c[k].full \in BOOLEAN
  BY DEF Calls
<1>3. /\ Moves(Coming(c, s), Coming(d, s), k) /\ Moves(Found(c), Found(d), k)
      /\ Moves(ToTrim(c), ToTrim(d), k) /\ Moves(Newer(c, s), Newer(d, s), k)
      /\ Moves(Older(c, s), Older(d, s), k) /\ Moves(Done(c, s), Done(d, s), k)
  BY MovesOne
<1>4. d[k].at \in {"trim", "expire"}
  OBVIOUS
<1>5. k \in Coming(c, s) /\ k \notin Coming(d, s) /\ k \notin Found(d)
  BY <1>4 DEF Coming, Found
<1>6. Size(Coming(c, s)) = Size(Coming(d, s)) + 1 /\ Size(Found(d)) <= Size(Found(c))
  BY <1>3, <1>5 DEF Moves
<1>7. Size(Found(d)) + 1 <= Cardinality(Callers)
  BY <1>5, SetsOfCallers, SizeWithout
<1>8. Size(Found(d)) + Size(ToTrim(c)) + 1 <= Size(Found(c)) + Size(ToTrim(d))
  <2>1. CASE c[k].full = TRUE
    <3>1. k \notin ToTrim(c) /\ k \in ToTrim(d)
      BY <2>1 DEF ToTrim
    <3>2. Size(ToTrim(d)) = Size(ToTrim(c)) + 1
      BY <1>3, <3>1 DEF Moves
    <3>3. /\ Size(Found(d)) \in Nat /\ Size(Found(c)) \in Nat /\ Size(ToTrim(c)) \in Nat
          /\ Size(Found(d)) <= Size(Found(c))
      BY <1>6, SizesNat
    <3> QED
      BY <3>2, <3>3
  <2>2. CASE c[k].full = FALSE
    <3>1. k \notin ToTrim(c) /\ k \notin ToTrim(d) /\ k \in Found(c)
      BY <2>2 DEF ToTrim, Found
    <3>2. Size(ToTrim(d)) = Size(ToTrim(c)) /\ Size(Found(c)) = Size(Found(d)) + 1
      BY <1>3, <1>5, <3>1 DEF Moves
    <3>3. Size(Found(d)) \in Nat /\ Size(ToTrim(c)) \in Nat
      BY SizesNat
    <3> QED
      BY <3>2, <3>3
  <2> QED
    BY <1>2, <2>1, <2>2
<1>9. Writes(b, a)
  <2>1. /\ b.length = Len(q) /\ b.stale = (IF Len(q) >= 1 /\ q[1] < s THEN 1 ELSE 0)
        /\ b.coming = Size(Coming(c, s)) /\ b.room = Size(Found(c)) /\ b.trim = Size(ToTrim(c))
        /\ b.entered = Len(p) - m /\ b.expires = e /\ b.gone = x /\ b.lost = l
    BY BookFields
  <2>2. /\ a.length = Len(r) /\ a.stale = (IF Len(r) >= 1 /\ r[1] < s THEN 1 ELSE 0)
        /\ a.coming = Size(Coming(d, s)) /\ a.room = Size(Found(d)) /\ a.trim = Size(ToTrim(d))
        /\ a.entered = Len(p) - m /\ a.expires = e /\ a.gone = x /\ a.lost = l
    BY BookFields
  <2> HIDE DEF a, b
  <2>3. b.length >= MaxRequests => a.stale = b.stale
    <3> SUFFICES ASSUME b.length >= MaxRequests PROVE a.stale = b.stale
      OBVIOUS
    <3>1. Len(q) >= 1 /\ Len(r) >= 1 /\ r[1] = q[1]
      BY <1>1, <2>1, RateNumbers
    <3> QED
      BY <2>1, <2>2, <3>1
  <2>4. a.coming + 1 <= b.coming
    BY <1>6, <2>1, <2>2, SizesNat
  <2> QED
    BY <1>1, <1>6, <1>7, <1>8, <2>1, <2>2, <2>3, <2>4 DEF Writes
<1> QED
  BY <1>9 DEF r, a, b

\* A time is pushed: in the span, or an old one.
LEMMA PlacedLonger ==
  ASSUME NEW s \in Nat, NEW q \in Seq(Nat), NEW h \in Int, NEW X, Placed(s, q, h, X), NEW t \in Nat
  PROVE  /\ t >= s => Placed(s, Append(q, t), h, X)
         /\ Placed(s, Append(q, t), h, X \cup {h + Len(q)})
<1> DEFINE r == Append(q, t)
           n == Len(q)
<1>1. /\ Len(r) = n + 1 /\ n \in Nat /\ r[n + 1] = t
      /\ \A j \in 1 .. n : r[j] = q[j]
  OBVIOUS
<1>2. /\ h - 1 + n \in Nat /\ X \in SUBSET (1 .. h - 1 + n)
      /\ \A j \in 1 .. n : q[j] < s /\ h + j - 1 >= 1 => h + j - 1 \in X
  BY DEF Placed
<1> HIDE DEF r, n
<1>3. h - 1 + (n + 1) \in Nat /\ h + n \in 1 .. h - 1 + (n + 1)
  BY <1>1, <1>2
<1>4. \A y \in 1 .. h - 1 + n : y \in 1 .. h - 1 + (n + 1)
  BY <1>1, <1>2
<1>5. X \in SUBSET (1 .. h - 1 + (n + 1)) /\ X \cup {h + n} \in SUBSET (1 .. h - 1 + (n + 1))
  BY <1>2, <1>3, <1>4
<1>6. ASSUME NEW j \in 1 .. n + 1, r[j] < s, h + j - 1 >= 1
      PROVE  h + j - 1 \in X \/ (j = n + 1 /\ t < s)
  <2>1. CASE j \in 1 .. n
    BY <1>1, <1>2, <1>6, <2>1
  <2>2. CASE j = n + 1
    BY <1>1, <1>6, <2>2
  <2> QED
    BY <1>1, <2>1, <2>2
<1>7. ASSUME t >= s PROVE Placed(s, r, h, X)
  <2>1. \A j \in 1 .. n + 1 : r[j] < s /\ h + j - 1 >= 1 => h + j - 1 \in X
    BY <1>6, <1>7
  <2> QED
    BY <1>1, <1>3, <1>5, <2>1 DEF Placed
<1>8. Placed(s, r, h, X \cup {h + n})
  <2>1. h + (n + 1) - 1 = h + n
    BY <1>1
  <2>2. \A j \in 1 .. n + 1 : r[j] < s /\ h + j - 1 >= 1 => h + j - 1 \in X \cup {h + n}
    BY <1>6, <2>1
  <2> QED
    BY <1>1, <1>3, <1>5, <2>2 DEF Placed
<1> QED
  BY <1>7, <1>8 DEF r, n

\* The first old time of those at work goes before all that are let in.
LEMMA PlacedBefore ==
  ASSUME NEW s \in Nat, NEW q \in Seq(Nat), NEW h \in Int, h + Len(q) = 1, NEW t \in Nat
  PROVE  Placed(s, Append(q, t), h - 1, {})
<1> DEFINE r == Append(q, t)
<1>1. Len(r) = Len(q) + 1 /\ Len(q) \in Nat
  OBVIOUS
<1> HIDE DEF r
<1>2. h - 1 - 1 + Len(r) \in Nat
  BY <1>1
<1>3. ASSUME NEW j \in 1 .. Len(r) PROVE ~(h - 1 + j - 1 >= 1)
  <2>1. j \in Int /\ j <= Len(q) + 1
    BY <1>1
  <2> QED
    BY <1>1, <2>1
<1> QED
  BY <1>2, <1>3 DEF Placed, r

\* LPUSH, of a time in the span.
\* The time t is pushed by k.
Pushes(c, d, k, t) ==
  /\ t \in Nat /\ d \in [Callers -> Calls] /\ k \in Callers
  /\ \A j \in Callers : j = k \/ d[j] = c[j]
  /\ c[k].at = "push" /\ c[k].time = t /\ d[k].at = (IF c[k].full THEN "trim" ELSE "expire")

LEMMA HoldsPushesNew ==
  ASSUME NEW s \in Nat, NEW q \in Seq(Nat), NEW p \in Seq(Nat), NEW e \in Nat,
         NEW c \in [Callers -> Calls],
         NEW m, NEW h, NEW l, NEW X, NEW x, Holds(s, q, p, e, c, m, h, l, X, x),
         NEW t, NEW d, NEW k, Pushes(c, d, k, t),
         t >= s
  PROVE  BoundedAt(s, Append(q, t), p, e, d)
<1> SUFFICES ASSUME
         t \in Nat, d \in [Callers -> Calls], k \in Callers,
         \A j \in Callers : j = k \/ d[j] = c[j],
         c[k].at = "push", c[k].time = t, d[k].at = (IF c[k].full THEN "trim" ELSE "expire")
             PROVE  BoundedAt(s, Append(q, t), p, e, d)
  BY DEF Pushes
<1> DEFINE r == Append(q, t)
           b == Book(s, q, p, e, c, m, h, l, X, x)
           a == Book(s, r, p, e, d, m, h, l, X, x)
<1>1. Ghosts(p, m, h, l, x) /\ Placed(s, q, h, X) /\ Sums(s, b) /\ (\A i \in 1 .. m : p[i] < s)
  BY DEF Holds
<1>2. m \in Nat /\ h \in Int /\ l \in Nat /\ x \in {0, 1} /\ X \in SUBSET Nat
  BY <1>1, PlacedNumbers DEF Ghosts
<1>3. r \in Seq(Nat)
  OBVIOUS
<1>4. Placed(s, r, h, X)
  BY <1>1, <1>2, PlacedLonger
<1>5. Writes(b, a)
  BY <1>1, BookWrites
<1>6. /\ Size(Newer(c, s)) = Size(Newer(d, s)) + 1
      /\ Size(Older(d, s)) = Size(Older(c, s)) /\ Size(Done(d, s)) = Size(Done(c, s))
  BY PushMoves
<1>11. /\ a.first = b.first /\ a.places = b.places /\ a.allowed = b.allowed
       /\ b.new = a.new + 1 /\ a.old = b.old /\ a.done = b.done
  BY <1>6, BookFields
<1> HIDE DEF r
<1>7. b \in Books /\ a \in Books /\ Worth(a)
  BY <1>1, <1>3, <1>4, BookTypes
<1> HIDE DEF a, b
<1>8. a.done >= b.done
  BY <1>7, <1>11, BookNumbers
<1>9. Sums(s, a)
  BY <1>1, <1>5, <1>7, <1>8, <1>11, SumsPushNew
<1>10. Holds(s, r, p, e, d, m, h, l, X, x)
  BY <1>1, <1>4, <1>9 DEF Holds, a
<1> QED
  BY <1>2, <1>10 DEF BoundedAt, r

\* LPUSH, of an older time.
LEMMA HoldsPushesOld ==
  ASSUME NEW s \in Nat, NEW q \in Seq(Nat), NEW p \in Seq(Nat), NEW e \in Nat,
         NEW c \in [Callers -> Calls],
         NEW m, NEW h, NEW l, NEW X, NEW x, Holds(s, q, p, e, c, m, h, l, X, x),
         NEW t, NEW d, NEW k, Pushes(c, d, k, t),
         t < s, x = 1 \/ Len(p) # m
  PROVE  BoundedAt(s, Append(q, t), p, e, d)
<1> SUFFICES ASSUME
         t \in Nat, d \in [Callers -> Calls], k \in Callers,
         \A j \in Callers : j = k \/ d[j] = c[j],
         c[k].at = "push", c[k].time = t, d[k].at = (IF c[k].full THEN "trim" ELSE "expire")
             PROVE  BoundedAt(s, Append(q, t), p, e, d)
  BY DEF Pushes
<1> DEFINE r == Append(q, t)
           Y == X \cup {h + Len(q)}
           b == Book(s, q, p, e, c, m, h, l, X, x)
           a == Book(s, r, p, e, d, m, h, l, Y, x)
<1>1. Ghosts(p, m, h, l, x) /\ Placed(s, q, h, X) /\ Sums(s, b) /\ (\A i \in 1 .. m : p[i] < s)
  BY DEF Holds
<1>2. m \in Nat /\ h \in Int /\ l \in Nat /\ x \in {0, 1} /\ Len(p) \in Nat
  BY <1>1 DEF Ghosts
<1>3. /\ X \in SUBSET Int /\ IsFiniteSet(X) /\ Cardinality(X) \in Nat /\ h + Len(q) \notin X
      /\ Len(q) \in Nat
  BY <1>1, <1>2, PlacedNumbers
<1>4. r \in Seq(Nat)
  OBVIOUS
<1>5. Placed(s, r, h, Y)
  BY <1>1, <1>2, PlacedLonger
<1>6. Y \in SUBSET Nat /\ Y \in SUBSET Int /\ IsFiniteSet(Y)
  <2> HIDE DEF Y, r
  <2> QED
    BY <1>2, <1>4, <1>5, PlacedNumbers
<1>7. Writes(b, a)
  BY <1>1, BookWrites
<1>17. /\ Size(Older(c, s)) = Size(Older(d, s)) + 1
       /\ Size(Newer(d, s)) = Size(Newer(c, s)) /\ Size(Done(d, s)) = Size(Done(c, s)) + 1
  BY PushMoves
<1>8. Cardinality(Y) = Cardinality(X) + 1
  BY <1>3, FS_AddElement
<1>9. Allowance(h, X, x) <= Allowance(h, Y, x)
  <2>1. X \subseteq Y /\ h <= h
    BY <1>2
  <2> HIDE DEF Y
  <2> QED
    BY <1>2, <1>3, <1>6, <2>1, AllowanceGrows
<1>10. b.entered = Len(p) - m /\ b.gone = x
  BY BookFields
<1>11. /\ a.first = b.first /\ a.places = b.places + 1 /\ a.allowed >= b.allowed
       /\ b.old = a.old + 1 /\ a.new = b.new /\ a.done = b.done + 1
  BY <1>8, <1>9, <1>17, BookFields
<1> HIDE DEF r, Y
<1>12. b \in Books /\ a \in Books /\ Worth(a)
  BY <1>1, <1>4, <1>5, BookTypes
<1> HIDE DEF a, b
<1>13. b.gone = 1 \/ b.entered # 0
  BY <1>2, <1>10
<1>14. a.done >= b.done
  BY <1>11, <1>12, BookNumbers
<1>15. Sums(s, a)
  BY <1>1, <1>7, <1>11, <1>12, <1>13, <1>14, SumsPushOld
<1>16. Holds(s, r, p, e, d, m, h, l, Y, x)
  BY <1>1, <1>5, <1>15 DEF Holds, a
<1> QED
  BY <1>2, <1>6, <1>16 DEF BoundedAt, r

\* LPUSH, of an older time, before anyone is let in.
LEMMA HoldsPushesFirst ==
  ASSUME NEW s \in Nat, NEW q \in Seq(Nat), NEW p \in Seq(Nat), NEW e \in Nat,
         NEW c \in [Callers -> Calls],
         NEW m, NEW h, NEW l, NEW X, NEW x, Holds(s, q, p, e, c, m, h, l, X, x),
         NEW t, NEW d, NEW k, Pushes(c, d, k, t),
         t < s, x = 0, Len(p) = m
  PROVE  BoundedAt(s, Append(q, t), p, e, d)
<1> SUFFICES ASSUME
         t \in Nat, d \in [Callers -> Calls], k \in Callers,
         \A j \in Callers : j = k \/ d[j] = c[j],
         c[k].at = "push", c[k].time = t, d[k].at = (IF c[k].full THEN "trim" ELSE "expire")
             PROVE  BoundedAt(s, Append(q, t), p, e, d)
  BY DEF Pushes
<1> DEFINE r == Append(q, t)
           g == h - 1
           b == Book(s, q, p, e, c, m, h, l, X, x)
           a == Book(s, r, p, e, d, m, g, l, {}, x)
<1>1. Ghosts(p, m, h, l, x) /\ Placed(s, q, h, X) /\ Sums(s, b) /\ (\A i \in 1 .. m : p[i] < s)
  BY DEF Holds
<1>2. m \in Nat /\ m <= Len(p) /\ h \in Int /\ l \in Nat /\ x \in {0, 1} /\ Len(p) \in Nat /\ g \in Int
  BY <1>1 DEF Ghosts
<1>3. h - 1 + Len(q) \in Nat /\ Cardinality(X) \in Nat /\ IsFiniteSet(X) /\ Len(q) \in Nat
  BY <1>1, <1>2, PlacedNumbers
<1>4. r \in Seq(Nat)
  OBVIOUS
<1>5. b \in Books
  BY <1>1, BookTypes
<1>6. b.entered <= 0 /\ b.gone = 0
  <2>1. b.entered = Len(p) - m /\ b.gone = x
    BY BookFields
  <2> QED
    BY <1>2, <2>1
<1>7. b.places <= 0 /\ b.lost <= 0 /\ b.first + b.length <= 1
  <2> HIDE DEF b
  <2>1. b.places <= 0 /\ b.lost <= 0
    <3>1. b.entered = 0
      BY <1>5, <1>6, BookNumbers
    <3> QED
      BY <1>1, <1>6, <3>1 DEF Sums
  <2>2. b.entered + b.places + 1 = b.first + b.length + b.new + b.lost
    BY <1>1 DEF Sums
  <2>3. \A i \in Nat, y \in Nat, f \in Int, n \in Nat, w \in Nat, o \in Nat :
          i <= 0 /\ y <= 0 /\ i + y + 1 = f + n + w + o => f + n <= 1
    OBVIOUS
  <2>4. /\ b.entered \in Nat /\ b.places \in Nat /\ b.first \in Int /\ b.length \in Nat
        /\ b.new \in Nat /\ b.lost \in Nat
    BY <1>5, BookNumbers
  <2>5. b.first + b.length <= 1
    BY <1>6, <2>1, <2>2, <2>3, <2>4
  <2> QED
    BY <2>1, <2>5
<1>8. b.places = Cardinality(X) /\ b.first = h /\ b.length = Len(q)
  BY BookFields
<1>9. X = {}
  <2>1. Cardinality(X) = 0
    <3> HIDE DEF b
    <3> QED
      BY <1>3, <1>7, <1>8
  <2> QED
    BY <1>3, <2>1, FS_EmptySet
<1>10. h + Len(q) = 1
  <2> HIDE DEF b
  <2> QED
    BY <1>2, <1>3, <1>7, <1>8
<1>11. Placed(s, r, g, {})
  BY <1>2, <1>10, PlacedBefore
<1>12. Writes(b, a)
  BY <1>1, BookWrites
<1>20. /\ Size(Older(c, s)) = Size(Older(d, s)) + 1
       /\ Size(Newer(d, s)) = Size(Newer(c, s)) /\ Size(Done(d, s)) = Size(Done(c, s)) + 1
  BY PushMoves
<1>13. Allowance(g, {}, x) = Allowance(h, {}, x)
  <2>1. UpTo(g, {}) = UpTo(h, {})
    BY DEF UpTo
  <2> QED
    BY <2>1 DEF Allowance
<1>14. /\ a.first = b.first - 1 /\ a.places = b.places /\ a.allowed = b.allowed
       /\ b.old = a.old + 1 /\ a.new = b.new /\ a.done = b.done + 1
  BY <1>9, <1>13, <1>20, BookFields
<1>15. Ghosts(p, m, g, l, x)
  BY <1>2 DEF Ghosts
<1> HIDE DEF r, g
<1>16. a \in Books /\ Worth(a)
  BY <1>4, <1>11, <1>15, BookTypes
<1> HIDE DEF a, b
<1>17. a.old <= b.old /\ a.done >= b.done /\ a.allowed >= b.allowed
  <2>1. a.old \in Nat /\ b.done \in Nat /\ b.allowed \in Nat
    BY <1>5, <1>16, BookNumbers
  <2> QED
    BY <1>14, <2>1
<1>18. Sums(s, a)
  BY <1>1, <1>5, <1>6, <1>12, <1>14, <1>16, <1>17, SumsPushFirst
<1>19. Holds(s, r, p, e, d, m, g, l, {}, x)
  BY <1>1, <1>11, <1>15, <1>18 DEF Holds, a
<1> QED
  BY <1>2, <1>15, <1>19 DEF BoundedAt, Ghosts, r

\* The newest MaxRequests times of q are r.
Cut(q, r) ==
  /\ Len(q) <= MaxRequests => r = q
  /\ Len(q) > MaxRequests =>
       Len(r) = MaxRequests /\ \A j \in 1 .. MaxRequests : r[j] = q[Len(q) - MaxRequests + j]

LEMMA PlacedCut ==
  ASSUME NEW s \in Nat, NEW q \in Seq(Nat), NEW h \in Int, NEW X, Placed(s, q, h, X),
         NEW r \in Seq(Nat), Cut(q, r), Len(q) >= MaxRequests
  PROVE  Placed(s, r, h + Len(q) - MaxRequests, X) /\ Len(r) = MaxRequests
<1> DEFINE n == Len(q)
           g == h + n - MaxRequests
<1>1. n \in Nat /\ MaxRequests \in Nat \ {0} /\ g \in Int /\ n >= MaxRequests
  BY RateNumbers
<1>2. /\ h - 1 + n \in Nat /\ X \in SUBSET (1 .. h - 1 + n)
      /\ \A j \in 1 .. n : q[j] < s /\ h + j - 1 >= 1 => h + j - 1 \in X
  BY DEF Placed
<1>3. Len(r) = MaxRequests /\ \A j \in 1 .. MaxRequests : r[j] = q[n - MaxRequests + j]
  <2>1. CASE n = MaxRequests
    <3>1. r = q
      BY <1>1, <2>1 DEF Cut
    <3>2. \A j \in 1 .. MaxRequests : n - MaxRequests + j = j
      BY <1>1, <2>1
    <3> QED
      BY <2>1, <3>1, <3>2
  <2>2. CASE n > MaxRequests
    BY <2>2 DEF Cut
  <2> QED
    BY <1>1, <2>1, <2>2
<1> HIDE DEF n
<1>4. g - 1 + MaxRequests = h - 1 + n
  BY <1>1
<1>5. ASSUME NEW j \in 1 .. MaxRequests, r[j] < s, g + j - 1 >= 1 PROVE g + j - 1 \in X
  <2> DEFINE i == n - MaxRequests + j
  <2>1. i \in 1 .. n /\ h + i - 1 = g + j - 1 /\ r[j] = q[i]
    BY <1>1, <1>3
  <2> HIDE DEF i, g
  <2>2. q[i] < s /\ h + i - 1 >= 1
    BY <1>5, <2>1
  <2>3. h + i - 1 \in X
    BY <1>2, <2>1, <2>2
  <2> QED
    BY <2>1, <2>3
<1> HIDE DEF g
<1>6. Placed(s, r, g, X)
  <2>1. g - 1 + Len(r) = h - 1 + n
    BY <1>3, <1>4
  <2>2. g - 1 + Len(r) \in Nat /\ X \in SUBSET (1 .. g - 1 + Len(r))
    BY <1>2, <2>1
  <2> QED
    BY <1>3, <1>5, <2>2 DEF Placed
<1> QED
  BY <1>3, <1>6 DEF g, n

LEMMA TrimMoves ==
  ASSUME NEW s \in Nat, NEW c, NEW d, NEW k \in Callers,
         \A j \in Callers : j = k \/ d[j] = c[j],
         c[k].at = "trim", d[k].at = "expire"
  PROVE  /\ Size(Coming(d, s)) = Size(Coming(c, s)) /\ Size(Found(d)) = Size(Found(c))
         /\ Size(ToTrim(c)) = Size(ToTrim(d)) + 1 /\ Size(Newer(d, s)) = Size(Newer(c, s))
         /\ Size(Older(d, s)) = Size(Older(c, s)) /\ Size(Done(d, s)) = Size(Done(c, s))
         /\ Size(Found(d)) + 1 <= Cardinality(Callers)
<1>1. /\ Moves(Coming(c, s), Coming(d, s), k) /\ Moves(Found(c), Found(d), k)
      /\ Moves(ToTrim(c), ToTrim(d), k) /\ Moves(Newer(c, s), Newer(d, s), k)
      /\ Moves(Older(c, s), Older(d, s), k) /\ Moves(Done(c, s), Done(d, s), k)
  BY MovesOne
<1>2. k \notin Coming(c, s) /\ k \notin Coming(d, s) /\ k \notin Found(c) /\ k \notin Found(d)
  BY DEF Coming, Found
<1>3. k \in ToTrim(c) /\ k \notin ToTrim(d) /\ k \notin Newer(c, s) /\ k \notin Newer(d, s)
  BY DEF ToTrim, Newer
<1>4. k \notin Older(c, s) /\ k \notin Older(d, s) /\ k \in Done(c, s) /\ k \in Done(d, s)
  BY DEF Older, Done
<1>5. Size(Found(d)) + 1 <= Cardinality(Callers)
  BY <1>2, SetsOfCallers, SizeWithout
<1> QED
  BY <1>1, <1>2, <1>3, <1>4, <1>5 DEF Moves

\* LTRIM
LEMMA HoldsTrims ==
  ASSUME NEW s \in Nat, NEW q \in Seq(Nat), NEW p \in Seq(Nat), NEW e \in Nat,
         NEW c \in [Callers -> Calls],
         NEW m, NEW h, NEW l, NEW X, NEW x, Holds(s, q, p, e, c, m, h, l, X, x),
         NEW r \in Seq(Nat), NEW d \in [Callers -> Calls], NEW k \in Callers,
         \A j \in Callers : j = k \/ d[j] = c[j],
         c[k].at = "trim", d[k].at = "expire", Cut(q, r)
  PROVE  BoundedAt(s, r, p, e, d)
<1> DEFINE b == Book(s, q, p, e, c, m, h, l, X, x)
<1>1. Ghosts(p, m, h, l, x) /\ Placed(s, q, h, X) /\ Sums(s, b) /\ (\A i \in 1 .. m : p[i] < s)
  BY DEF Holds
<1>2. m \in Nat /\ m <= Len(p) /\ h \in Int /\ l \in Nat /\ x \in {0, 1} /\ X \in SUBSET Nat
  BY <1>1, PlacedNumbers DEF Ghosts
<1>3. X \in SUBSET Int /\ IsFiniteSet(X) /\ Len(q) \in Nat /\ MaxRequests \in Nat \ {0}
  BY <1>1, <1>2, PlacedNumbers, RateNumbers
<1>4. /\ Size(Coming(d, s)) = Size(Coming(c, s)) /\ Size(Found(d)) = Size(Found(c))
      /\ Size(ToTrim(c)) = Size(ToTrim(d)) + 1 /\ Size(Newer(d, s)) = Size(Newer(c, s))
      /\ Size(Older(d, s)) = Size(Older(c, s)) /\ Size(Done(d, s)) = Size(Done(c, s))
      /\ Size(Found(d)) + 1 <= Cardinality(Callers)
  BY TrimMoves
<1>5. b \in Books
  BY <1>1, BookTypes
<1>6. CASE Len(q) < MaxRequests
  <2> DEFINE a == Book(s, q, p, e, d, m, h, l, X, x)
  <2>1. r = q
    BY <1>3, <1>6 DEF Cut
  <2>2. a \in Books
    BY <1>1, BookTypes
  <2>3. /\ a.length = b.length /\ a.stale = b.stale /\ a.entered = b.entered /\ a.new = b.new
        /\ a.first = b.first /\ a.lost = b.lost /\ a.gone = b.gone /\ a.places = b.places
        /\ a.allowed = b.allowed /\ a.old = b.old /\ a.coming = b.coming /\ a.expires = b.expires
        /\ a.done = b.done /\ b.length = Len(q)
    BY <1>4, BookFields
  <2> HIDE DEF a, b
  <2>4. SameList(b, a)
    BY <2>3 DEF SameList
  <2>5. a.old <= b.old /\ a.coming <= b.coming /\ a.done >= b.done /\ ~(b.length >= MaxRequests)
    <3>1. b.old \in Nat /\ b.coming \in Nat /\ b.done \in Nat
      BY <1>5, BookNumbers
    <3>2. ~(b.length >= MaxRequests)
      BY <1>3, <1>6, <2>3
    <3>3. a.old <= b.old /\ a.coming <= b.coming /\ a.done >= b.done
      BY <2>3, <3>1
    <3> QED
      BY <3>2, <3>3
  <2>6. Sums(s, a)
    BY <1>1, <1>5, <2>2, <2>3, <2>4, <2>5, SumsStay
  <2>7. Holds(s, q, p, e, d, m, h, l, X, x)
    BY <1>1, <2>6 DEF Holds, a
  <2> QED
    BY <1>2, <2>1, <2>7 DEF BoundedAt
<1>7. CASE Len(q) >= MaxRequests
  <2> DEFINE g == h + Len(q) - MaxRequests
             a == Book(s, r, p, e, d, m, g, l, X, x)
  <2>1. Placed(s, r, g, X) /\ Len(r) = MaxRequests
    BY <1>1, <1>2, <1>7, PlacedCut
  <2>2. g \in Int /\ h <= g /\ (Len(q) > MaxRequests => h < g)
    BY <1>2, <1>3, <1>7
  <2>3. Ghosts(p, m, g, l, x)
    BY <1>2, <2>2 DEF Ghosts
  <2>4. a.first = b.first + b.length - MaxRequests
    <3>1. a.first = g /\ b.first = h /\ b.length = Len(q)
      BY BookFields
    <3> QED
      BY <3>1
  <2> HIDE DEF g
  <2>5. a \in Books /\ Worth(a)
    BY <2>1, <2>3, BookTypes
  <2>6. /\ Allowance(h, X, x) <= Allowance(g, X, x)
        /\ h < g /\ g \in X => Allowance(h, X, x) + Cardinality(Callers) <= Allowance(g, X, x)
    <3>1. X \subseteq X
      OBVIOUS
    <3> QED
      BY <1>2, <1>3, <2>2, <3>1, AllowanceGrows
  <2>7. r[1] < s /\ g >= 1 => g \in X
    <3> SUFFICES ASSUME r[1] < s, g >= 1 PROVE g \in X
      OBVIOUS
    <3>1. 1 \in 1 .. Len(r) /\ g + 1 - 1 = g
      BY <1>3, <2>1, <2>2
    <3> QED
      BY <2>1, <3>1 DEF Placed
  <2>8. /\ a.length = MaxRequests /\ a.entered = b.entered /\ a.expires = b.expires /\ a.new = b.new
        /\ a.old = b.old /\ a.coming = b.coming /\ a.room = b.room /\ b.trim = a.trim + 1
        /\ a.done = b.done /\ a.lost = b.lost /\ a.gone = b.gone /\ a.places = b.places
        /\ a.room + 1 <= Cardinality(Callers)
    BY <1>4, <2>1, BookFields
  <2>9. /\ b.length = Len(q) /\ b.first = h /\ a.first = g
        /\ b.allowed = Allowance(h, X, x) /\ a.allowed = Allowance(g, X, x)
        /\ a.stale = (IF Len(r) >= 1 /\ r[1] < s THEN 1 ELSE 0)
        /\ b.stale = (IF Len(q) >= 1 /\ q[1] < s THEN 1 ELSE 0)
    BY BookFields
  <2>10. b.room <= b.coming /\ b.trim <= Cardinality(Callers)
    <3>1. Size(Found(c)) <= Size(Coming(c, s)) /\ Size(ToTrim(c)) <= Cardinality(Callers)
      BY SetsApart, SizesNat
    <3> QED
      BY <3>1, BookFields
  <2> HIDE DEF a, b
  <2>11. b.length = MaxRequests => a.stale = b.stale
    <3> SUFFICES ASSUME b.length = MaxRequests PROVE a.stale = b.stale
      OBVIOUS
    <3>1. r = q
      BY <1>3, <2>9 DEF Cut
    <3> QED
      BY <2>9, <3>1
  <2>12. /\ a.allowed >= b.allowed
         /\ b.length > MaxRequests /\ a.stale = 1 /\ a.first >= 1 =>
              a.allowed >= b.allowed + Cardinality(Callers)
    <3>1. b.allowed \in Nat /\ a.allowed \in Nat /\ Cardinality(Callers) \in Nat
      BY <1>5, <2>5, BookNumbers
    <3>2. a.stale = 1 => r[1] < s
      BY <2>9
    <3> QED
      BY <2>2, <2>6, <2>7, <2>9, <3>1, <3>2
  <2>13. a.done >= b.done /\ b.length >= MaxRequests
    <3>1. a.done \in Nat /\ a.done = b.done
      BY <2>5, <2>8, BookNumbers
    <3> QED
      BY <1>7, <2>9, <3>1
  <2>14. Sums(s, a)
    BY <1>1, <1>5, <2>4, <2>5, <2>8, <2>10, <2>11, <2>12, <2>13, SumsTrim
  <2>15. Holds(s, r, p, e, d, m, g, l, X, x)
    BY <1>1, <2>1, <2>3, <2>14 DEF Holds, a
  <2> QED
    BY <1>2, <2>2, <2>15 DEF BoundedAt
<1> QED
  BY <1>3, <1>6, <1>7

\* The key expires.
LEMMA HoldsGone ==
  ASSUME NEW s \in Nat, NEW q \in Seq(Nat), NEW p \in Seq(Nat), NEW e \in Nat,
         NEW c \in [Callers -> Calls],
         NEW m, NEW h, NEW l, NEW X, NEW x, Holds(s, q, p, e, c, m, h, l, X, x),
         e # 0, e < s + Width
  PROVE  BoundedAt(s, <<>>, p, 0, c)
<1> DEFINE b == Book(s, q, p, e, c, m, h, l, X, x)
           g == Len(p) - m - Size(Newer(c, s))
           a == Book(s, <<>>, p, 0, c, m, 1, g, {}, 1)
<1>1. Ghosts(p, m, h, l, x) /\ Placed(s, q, h, X) /\ Sums(s, b) /\ (\A i \in 1 .. m : p[i] < s)
  BY DEF Holds
<1>2. /\ m \in Nat /\ m <= Len(p) /\ h \in Int /\ l \in Nat /\ x \in {0, 1} /\ Len(p) \in Nat
      /\ h - 1 + Len(q) \in Nat /\ X \in SUBSET (1 .. h - 1 + Len(q)) /\ Len(q) \in Nat
  BY <1>1 DEF Ghosts, Placed
<1>3. Cardinality(X) \in Nat /\ Cardinality(X) <= h - 1 + Len(q)
  <2> DEFINE j == h - 1 + Len(q)
  <2>1. j \in Int /\ j \in Nat /\ X \in SUBSET (1 .. j)
    BY <1>2
  <2> HIDE DEF j
  <2>2. Cardinality(X) \in Nat /\ Cardinality(X) <= j
    BY <2>1, PlacesFinite
  <2> QED
    BY <2>2 DEF j
<1>4. /\ b.entered = Len(p) - m /\ b.new = Size(Newer(c, s)) /\ b.places = Cardinality(X)
      /\ b.first = h /\ b.length = Len(q) /\ b.expires = e /\ b.coming = Size(Coming(c, s))
      /\ b.old = Size(Older(c, s)) /\ b.done = Size(Done(c, s))
  BY BookFields
<1>5. /\ a.length = Len(<<>>) /\ a.entered = Len(p) - m /\ a.expires = 0 /\ a.new = Size(Newer(c, s))
      /\ a.old = Size(Older(c, s)) /\ a.coming = Size(Coming(c, s)) /\ a.first = 1 /\ a.gone = 1
      /\ a.places = Cardinality({}) /\ a.lost = g
  BY BookFields
<1>6. b \in Books
  BY <1>1, BookTypes
<1> HIDE DEF b
<1>7. b.entered + b.places + 1 = b.first + b.length + b.new + b.lost
  BY <1>1 DEF Sums
<1>8. g \in Nat
  <2>1. Len(p) - m + Cardinality(X) + 1 = h + Len(q) + Size(Newer(c, s)) + l
    <3>1. b.lost = l
      BY BookFields DEF b
    <3> QED
      BY <1>4, <1>7, <3>1
  <2>2. Size(Newer(c, s)) \in Nat
    BY SizesNat
  <2> DEFINE i == Len(p) - m
             n == Size(Newer(c, s))
             y == Cardinality(X)
             z == h - 1 + Len(q)
  <2>3. i \in Nat /\ n \in Nat /\ y \in Nat /\ z \in Nat /\ y <= z /\ l \in Nat
    BY <1>2, <1>3, <2>2
  <2>4. i + y + 1 = z + 1 + n + l
    <3>1. z + 1 = h + Len(q)
      BY <1>2
    <3> HIDE DEF z
    <3> QED
      BY <2>1, <3>1
  <2>5. g = i - n
    OBVIOUS
  <2> HIDE DEF i, n, y, z, g
  <2> QED
    BY <2>3, <2>4, <2>5
<1>9. Placed(s, <<>>, 1, {})
  BY DEF Placed
<1>10. Ghosts(p, m, 1, g, 1)
  BY <1>2, <1>8 DEF Ghosts
<1>11. g + b.new = b.entered
  <2>1. b.entered \in Nat /\ b.new \in Nat
    BY <1>6, BookNumbers
  <2>2. g = b.entered - b.new
    BY <1>4
  <2> HIDE DEF g
  <2> QED
    BY <2>1, <2>2
<1> HIDE DEF g
<1>12. a \in Books
  <2>1. <<>> \in Seq(Nat) /\ 0 \in Nat
    OBVIOUS
  <2> QED
    BY <1>9, <1>10, <2>1, BookTypes
<1>13. Len(<<>>) = 0 /\ Cardinality({}) = 0
  BY FS_EmptySet
<1> HIDE DEF a
<1>14. b.coming <= Cardinality(Callers) /\ b.done + b.old <= Cardinality(Callers)
  BY <1>4, SizesNat, SetsApart
<1>15. /\ a.expires = 0 /\ a.length = 0 /\ a.entered = b.entered /\ a.new = b.new /\ a.old = b.old
       /\ a.coming = b.coming /\ a.first = 1 /\ a.gone = 1 /\ a.places = 0 /\ a.lost + b.new = b.entered
  BY <1>4, <1>5, <1>11, <1>13
<1>16. b.expires # 0 /\ b.expires < s + Width
  BY <1>4
<1>17. Sums(s, a)
  BY <1>1, <1>6, <1>12, <1>14, <1>15, <1>16, SumsKeyGone
<1>18. Holds(s, <<>>, p, 0, c, m, 1, g, {}, 1)
  BY <1>1, <1>9, <1>10, <1>17 DEF Holds, a
<1> QED
  BY <1>2, <1>8, <1>18 DEF BoundedAt

\* A span begins: nothing entered in it, and no one is to push a time in it.
LEMMA HoldsBegins ==
  ASSUME NEW s \in Nat, NEW q \in Seq(Nat), NEW p \in Seq(Nat), NEW e \in Nat,
         NEW c \in [Callers -> Calls],
         \A i \in 1 .. Len(p) : p[i] < s,
         \A k \in Callers : c[k].time < s,
         Len(q) + Size(Found(c)) <= MaxRequests - 1 + Cardinality(Callers) + Size(ToTrim(c))
  PROVE  BoundedAt(s, q, p, e, c)
<1> DEFINE m == Len(p)
           h == 1 - Len(q)
           b == Book(s, q, p, e, c, m, h, 0, {}, 0)
<1>1. m \in Nat /\ Len(q) \in Nat /\ h \in Int /\ m - m = 0 /\ h - 1 + Len(q) = 0
  OBVIOUS
<1>2. Ghosts(p, m, h, 0, 0)
  BY <1>1 DEF Ghosts
<1>3. Placed(s, q, h, {})
  <2>1. ASSUME NEW j \in 1 .. Len(q) PROVE ~(h + j - 1 >= 1)
    BY <1>1
  <2> HIDE DEF h
  <2> QED
    BY <1>1, <2>1 DEF Placed
<1>4. b \in Books /\ Worth(b)
  BY <1>2, <1>3, BookTypes
<1>5. Newer(c, s) = {}
  <2> SUFFICES ASSUME NEW k \in Newer(c, s) PROVE FALSE
    OBVIOUS
  <2>1. k \in Callers /\ c[k].time >= s
    BY DEF Newer
  <2>2. c[k].time \in Nat /\ c[k].time < s
    BY <2>1, RateNumbers DEF Calls
  <2> QED
    BY <2>1, <2>2
<1>6. Size(Newer(c, s)) = 0 /\ Cardinality({}) = 0
  BY <1>5, FS_EmptySet DEF Size
<1>7. /\ b.entered = 0 /\ b.new = 0 /\ b.lost = 0 /\ b.gone = 0 /\ b.places = 0 /\ b.length = Len(q)
      /\ b.first = h /\ b.coming = Size(Coming(c, s)) /\ b.room = Size(Found(c)) /\ b.trim = Size(ToTrim(c))
  BY <1>1, <1>6, BookFields
<1>8. b.first = 1 - b.length
  BY <1>7
<1>9. b.coming <= Cardinality(Callers) /\ b.room + b.trim <= Cardinality(Callers)
  BY <1>7, SizesNat, SetsApart
<1>10. b.length + b.room <= MaxRequests - 1 + Cardinality(Callers) + b.trim
  BY <1>7
<1> HIDE DEF b, h
<1>11. Sums(s, b)
  BY <1>4, <1>7, <1>8, <1>9, <1>10, SumsBegin
<1>12. Holds(s, q, p, e, c, m, h, 0, {}, 0)
  BY <1>2, <1>3, <1>11 DEF Holds, b
<1> QED
  BY <1>1, <1>12 DEF BoundedAt

\* Who is let in next is not among too many.
LEMMA HoldsEnough ==
  ASSUME NEW s \in Nat, NEW q \in Seq(Nat), NEW p \in Seq(Nat), NEW e \in Nat,
         NEW c \in [Callers -> Calls], BoundedAt(s, q, p, e, c),
         NEW k \in Callers, c[k].at = "stamp"
  PROVE  \E m \in Nat : /\ m <= Len(p) /\ Len(p) - m < MaxRequests + Most
                        /\ \A i \in 1 .. m : p[i] < s
<1>1. PICK m \in Nat, h \in Int, l \in Nat, X \in SUBSET Nat, x \in {0, 1} :
        Holds(s, q, p, e, c, m, h, l, X, x)
  BY DEF BoundedAt
<1> DEFINE b == Book(s, q, p, e, c, m, h, l, X, x)
<1>2. Ghosts(p, m, h, l, x) /\ Placed(s, q, h, X) /\ Sums(s, b) /\ (\A i \in 1 .. m : p[i] < s)
  BY <1>1 DEF Holds
<1>3. b \in Books /\ b.allowed <= Cardinality(Callers) * b.places + Spare(b.gone)
  BY <1>2, BookTypes
<1>4. Size(Newer(c, s)) + 1 <= Size(Coming(c, s))
  BY SetsApart
<1>5. b.new = Size(Newer(c, s)) /\ b.coming = Size(Coming(c, s)) /\ b.entered = Len(p) - m
  BY BookFields
<1>6. Cardinality(Callers) >= 1
  <2>1. {} \in SUBSET Callers /\ k \notin {}
    OBVIOUS
  <2>2. Size({}) + 1 <= Cardinality(Callers)
    BY <2>1, SizeWithout
  <2> QED
    BY <2>2, FS_EmptySet DEF Size
<1> HIDE DEF b
<1>7. b.entered < MaxRequests + Most
  <2>1. b.new + 1 <= b.coming
    BY <1>4, <1>5
  <2> QED
    BY <1>2, <1>3, <1>6, <2>1, SumsEnough
<1>8. m <= Len(p)
  BY <1>2 DEF Ghosts
<1> QED
  BY <1>2, <1>5, <1>7, <1>8

-----------------------------------------------------------------------------
(* Every span stays bounded                                                 *)

LEMMA PartedTimes == ASSUME NEW q \in Seq(Parted) PROVE q \in Seq(Nat)
<1>1. Parted \in SUBSET Nat
  BY RateNumbers
<1>2. Len(q) \in Nat /\ \A i \in 1 .. Len(q) : q[i] \in Parted
  OBVIOUS
<1>3. \A i \in 1 .. Len(q) : q[i] \in Nat
  BY <1>1, <1>2
<1>4. q = [i \in 1 .. Len(q) |-> q[i]]
  OBVIOUS
<1> QED
  BY <1>2, <1>3, <1>4

LEMMA RedisTypes ==
  ASSUME RateInvariant
  PROVE  /\ queue \in Seq(Nat) /\ passed \in Seq(Nat) /\ expiry \in Nat /\ part \in Nat
         /\ call \in [Callers -> Calls] /\ errors \in Nat
         /\ \A k \in Callers : call[k].time \in Nat
<1>1. /\ queue \in Seq(Parted) /\ passed \in Seq(Parted) /\ expiry \in 0 .. LastPart + Expiration * Parts
      /\ part \in Parted /\ call \in [Callers -> Calls] /\ errors \in 0 .. MaxErrors
  BY DEF RateInvariant, RateTypes
<1>2. Parted \in SUBSET Nat /\ LastPart + Expiration * Parts \in Nat /\ MaxErrors \in Nat
  BY RateNumbers
<1>3. queue \in Seq(Nat) /\ passed \in Seq(Nat)
  BY <1>1, PartedTimes
<1>4. expiry \in Nat /\ errors \in Nat /\ part \in Nat
  <2> DEFINE e == LastPart + Expiration * Parts
  <2>1. e \in Nat /\ expiry \in 0 .. e
    BY <1>1, <1>2
  <2> HIDE DEF e
  <2> QED
    BY <1>1, <1>2, <2>1
<1>5. \A k \in Callers : call[k].time \in Nat
  BY <1>1, <1>2 DEF Calls
<1> QED
  BY <1>1, <1>3, <1>4, <1>5

LEMMA RedisTypesNext ==
  ASSUME RateInvariant'
  PROVE  /\ queue' \in Seq(Nat) /\ passed' \in Seq(Nat) /\ expiry' \in Nat /\ part' \in Nat
         /\ call' \in [Callers -> Calls] /\ errors' \in Nat
         /\ \A k \in Callers : call'[k].time \in Nat
<1>1. /\ queue' \in Seq(Parted) /\ passed' \in Seq(Parted) /\ expiry' \in 0 .. LastPart + Expiration * Parts
      /\ part' \in Parted /\ call' \in [Callers -> Calls] /\ errors' \in 0 .. MaxErrors
  BY DEF RateInvariant, RateTypes
<1>2. Parted \in SUBSET Nat /\ LastPart + Expiration * Parts \in Nat /\ MaxErrors \in Nat
  BY RateNumbers
<1>3. queue' \in Seq(Nat) /\ passed' \in Seq(Nat)
  <2> DEFINE q == queue'
             p == passed'
  <2>1. q \in Seq(Parted) /\ p \in Seq(Parted)
    BY <1>1
  <2> HIDE DEF q, p
  <2>2. q \in Seq(Nat) /\ p \in Seq(Nat)
    BY <2>1, PartedTimes
  <2> QED
    BY <2>2 DEF q, p
<1>4. expiry' \in Nat /\ errors' \in Nat /\ part' \in Nat
  <2> DEFINE e == LastPart + Expiration * Parts
             f == expiry'
  <2>1. e \in Nat /\ f \in 0 .. e
    BY <1>1, <1>2
  <2> HIDE DEF e, f
  <2>2. f \in Nat
    BY <2>1
  <2> QED
    BY <1>1, <1>2, <2>2 DEF f
<1>5. \A k \in Callers : call'[k].time \in Nat
  BY <1>1, <1>2 DEF Calls
<1> QED
  BY <1>1, <1>3, <1>4, <1>5

LEMMA WidthNumber == Width \in Nat \ {0} /\ Width <= Expiration * Parts
<1>1. Parts \in Nat \ {0} /\ Duration \in Nat \ {0} /\ Expiration \in Nat /\ Duration <= Expiration
  BY RateNumbers, RateAssumption
<1>2. Parts * Duration <= Parts * Expiration
  BY <1>1, TimesLess
<1>3. Parts * Duration \in Nat /\ Parts * Duration >= 1
  <2>1. Parts * 1 <= Parts * Duration
    BY <1>1, TimesLess
  <2> QED
    BY <1>1, <2>1
<1>4. Duration * Parts = Parts * Duration /\ Expiration * Parts = Parts * Expiration
  BY <1>1
<1> QED
  BY <1>2, <1>3, <1>4 DEF Width

\* A time less than the duration ago is refused.
LEMMA WithinDuration ==
  ASSUME NEW a \in Nat, a < Width
  PROVE  Seconds(a) < Duration
<1>1. Seconds(a) \in Nat /\ Parts * Seconds(a) <= a /\ Parts \in Nat \ {0} /\ Duration \in Nat
  BY SecondsFacts, RateNumbers
<1> SUFFICES ASSUME Duration <= Seconds(a) PROVE FALSE
  BY <1>1
<1>2. Parts * Duration <= Parts * Seconds(a)
  BY <1>1, TimesLess
<1>3. Width = Parts * Duration
  BY <1>1 DEF Width
<1>4. Parts * Duration \in Nat /\ Parts * Seconds(a) \in Nat
  BY <1>1
<1> QED
  BY <1>1, <1>2, <1>3, <1>4

\* A span that began at s is not over, and bounded; and it is after a step.
Spans(s) ==
  /\ s \in Nat /\ s <= part /\ part < s + Width
  /\ \A k \in Callers : call[k].time <= part
  /\ BoundedAt(s, queue, passed, expiry, call)
StillBounded(s) == BoundedAt(s, queue', passed', expiry', call')

LEMMA ProceedsBounded ==
  ASSUME NEW s \in Nat, NEW q \in Seq(Nat), NEW p \in Seq(Nat), NEW e \in Nat,
         NEW c \in [Callers -> Calls], BoundedAt(s, q, p, e, c),
         NEW f, NEW d, NEW k, Proceeds(s, q, e, c, f, d, k)
  PROVE  BoundedAt(s, q, p, f, d)
<1>1. PICK m \in Nat, h \in Int, l \in Nat, X \in SUBSET Nat, x \in {0, 1} :
        Holds(s, q, p, e, c, m, h, l, X, x)
  BY DEF BoundedAt
<1>2. Holds(s, q, p, f, d, m, h, l, X, x)
  BY <1>1, HoldsStays
<1> QED
  BY <1>2 DEF BoundedAt

LEMMA PushesBounded ==
  ASSUME NEW s \in Nat, NEW q \in Seq(Nat), NEW p \in Seq(Nat), NEW e \in Nat,
         NEW c \in [Callers -> Calls], BoundedAt(s, q, p, e, c),
         NEW t, NEW d, NEW k, Pushes(c, d, k, t)
  PROVE  BoundedAt(s, Append(q, t), p, e, d)
<1>1. PICK m \in Nat, h \in Int, l \in Nat, X \in SUBSET Nat, x \in {0, 1} :
        Holds(s, q, p, e, c, m, h, l, X, x)
  BY DEF BoundedAt
<1>2. t \in Nat
  BY DEF Pushes
<1>3. CASE t >= s
  BY <1>1, <1>3, HoldsPushesNew
<1>4. CASE t < s /\ (x = 1 \/ Len(p) # m)
  BY <1>1, <1>4, HoldsPushesOld
<1>5. CASE t < s /\ x = 0 /\ Len(p) = m
  BY <1>1, <1>5, HoldsPushesFirst
<1>6. t < s \/ t >= s
  BY <1>2
<1> QED
  BY <1>3, <1>4, <1>5, <1>6, x \in {0, 1}

LEMMA OthersWait ==
  ASSUME RateInvariant, RateInvariant', NEW k \in Callers, NEW c, call' = [call EXCEPT ![k] = c]
  PROVE  call'[k] = c /\ \A j \in Callers : j = k \/ call'[j] = call[j]
BY RedisTypes

LEMMA LengthBounded ==
  ASSUME RateInvariant, RateInvariant', NEW s, Spans(s), NEW k \in Callers, Length(k)
  PROVE  StillBounded(s)
<1> DEFINE place == IF Len(queue) < MaxRequests THEN "stamp" ELSE "oldest"
           r == [age |-> call[k].age, at |-> place, full |-> FALSE, time |-> 0]
           d == call'
<1>1. /\ queue' = queue /\ passed' = passed /\ expiry' = expiry /\ call[k].at = "free"
      /\ call' = [call EXCEPT ![k] = r]
  BY DEF Length, In, Be
<1>2. d[k] = r /\ (\A j \in Callers : j = k \/ d[j] = call[j]) /\ d \in [Callers -> Calls]
  BY <1>1, OthersWait, RedisTypesNext
<1>3. Len(queue) \in Nat /\ MaxRequests \in Nat
  BY RedisTypes, RateNumbers
<1>4. /\ d[k].at \in {"stamp", "oldest"}
      /\ Len(queue) < MaxRequests \/ d[k].at = "oldest"
  BY <1>2
<1> HIDE DEF d, r, place
<1>5. /\ s \in Nat
      /\ {call[k].at, d[k].at} \cap {"push", "trim"} = {}
      /\ Len(queue) >= MaxRequests => k \in Found(call) \/ k \notin Found(d)
      /\ \/ k \in Coming(call, s) \/ k \notin Coming(d, s)
         \/ Len(queue) < MaxRequests
         \/ queue[1] < s
      /\ k \notin Done(call, s)
  BY <1>1, <1>3, <1>4 DEF Found, Coming, Done, Spans
<1>6. Proceeds(s, queue, expiry, call, expiry, d, k)
  BY <1>2, <1>5, RedisTypes DEF Proceeds
<1>7. BoundedAt(s, queue, passed, expiry, d)
  BY <1>6, RedisTypes, ProceedsBounded DEF Spans
<1> QED
  BY <1>1, <1>7 DEF StillBounded, d

LEMMA OldestBounded ==
  ASSUME RateInvariant, RateInvariant', NEW s, Spans(s), NEW k \in Callers, Oldest(k)
  PROVE  StillBounded(s)
<1> DEFINE r == IF queue = <<>> THEN Free
                ELSE [age |-> call[k].age, at |-> "judge", full |-> FALSE, time |-> queue[1]]
           d == call'
<1>1. /\ queue' = queue /\ passed' = passed /\ expiry' = expiry /\ call[k].at = "oldest"
      /\ call' = [call EXCEPT ![k] = r]
  BY DEF Oldest, In, Be, Leaves
<1>2. d[k] = r /\ (\A j \in Callers : j = k \/ d[j] = call[j]) /\ d \in [Callers -> Calls]
  BY <1>1, OthersWait, RedisTypesNext
<1>3. r.at \in {"free", "judge"} /\ (r.at = "judge" => r.time = queue[1])
  BY DEF Free
<1> HIDE DEF r
<1>4. /\ {call[k].at, d[k].at} \cap {"push", "trim"} = {}
      /\ Len(queue) >= MaxRequests => k \in Found(call) \/ k \notin Found(d)
      /\ \/ k \in Coming(call, s) \/ k \notin Coming(d, s)
         \/ Len(queue) < MaxRequests
         \/ queue[1] < s
      /\ k \notin Done(call, s)
  BY <1>1, <1>2, <1>3 DEF Found, Coming, Done
<1>5. s \in Nat
  BY DEF Spans
<1> HIDE DEF d
<1>6. Proceeds(s, queue, expiry, call, expiry, d, k)
  BY <1>2, <1>4, <1>5, RedisTypes DEF Proceeds
<1>7. BoundedAt(s, queue, passed, expiry, d)
  BY <1>6, RedisTypes, ProceedsBounded DEF Spans
<1> QED
  BY <1>1, <1>7 DEF StillBounded, d

LEMMA JudgementBounded ==
  ASSUME RateInvariant, RateInvariant', NEW s, Spans(s), NEW k \in Callers, Judgement(k)
  PROVE  StillBounded(s)
<1> DEFINE young == Seconds(part - call[k].time) < Duration
           r == IF young THEN [age |-> call[k].age, at |-> "expire", full |-> FALSE, time |-> 0]
                ELSE [age |-> call[k].age, at |-> "stamp", full |-> TRUE, time |-> 0]
           d == call'
<1>1. /\ queue' = queue /\ passed' = passed /\ expiry' = expiry /\ call[k].at = "judge"
      /\ call' = [call EXCEPT ![k] = r]
  BY DEF Judgement, In, Be
<1>2. d[k] = r /\ (\A j \in Callers : j = k \/ d[j] = call[j]) /\ d \in [Callers -> Calls]
  BY <1>1, OthersWait, RedisTypesNext
<1>3. /\ young => r.at = "expire"
      /\ ~young => r.at = "stamp" /\ r.full
  OBVIOUS
<1>4. ~young => call[k].time < s
  <2> SUFFICES ASSUME ~(call[k].time < s) PROVE young
    OBVIOUS
  <2>1. part - call[k].time \in Nat /\ part - call[k].time < Width
    BY RedisTypes, WidthNumber DEF Spans
  <2> QED
    BY <2>1, WithinDuration
<1> HIDE DEF r, young
<1>5. /\ {call[k].at, d[k].at} \cap {"push", "trim"} = {}
      /\ Len(queue) >= MaxRequests => k \in Found(call) \/ k \notin Found(d)
      /\ \/ k \in Coming(call, s) \/ k \notin Coming(d, s)
         \/ Len(queue) < MaxRequests
         \/ queue[1] < s
      /\ k \notin Done(call, s)
  <2>1. CASE young
    BY <1>1, <1>2, <1>3, <2>1 DEF Found, Coming, Done
  <2>2. CASE ~young
    BY <1>1, <1>2, <1>3, <1>4, <2>2 DEF Found, Coming, Done
  <2> QED
    BY <2>1, <2>2
<1>6. s \in Nat
  BY DEF Spans
<1> HIDE DEF d
<1>7. Proceeds(s, queue, expiry, call, expiry, d, k)
  BY <1>2, <1>5, <1>6, RedisTypes DEF Proceeds
<1>8. BoundedAt(s, queue, passed, expiry, d)
  BY <1>7, RedisTypes, ProceedsBounded DEF Spans
<1> QED
  BY <1>1, <1>8 DEF StillBounded, d

LEMMA TakeTimeBounded ==
  ASSUME RateInvariant, RateInvariant', NEW s, Spans(s), NEW k \in Callers, TakeTime(k)
  PROVE  StillBounded(s)
<1> DEFINE r == [age |-> call[k].age, at |-> "push", full |-> call[k].full, time |-> part]
           d == call'
<1>1. /\ queue' = queue /\ passed' = Append(passed, part) /\ expiry' = expiry /\ call[k].at = "stamp"
      /\ call' = [call EXCEPT ![k] = r]
  BY DEF TakeTime, In, Be, LetIn
<1>2. d[k] = r /\ (\A j \in Callers : j = k \/ d[j] = call[j]) /\ d \in [Callers -> Calls]
  BY <1>1, OthersWait, RedisTypesNext
<1>3. d[k].at = "push" /\ d[k].time = part /\ d[k].full = call[k].full
  BY <1>2
<1>4. s \in Nat /\ part \in Nat /\ part >= s
  BY RedisTypes DEF Spans
<1> HIDE DEF d, r
<1>5. PICK m \in Nat, h \in Int, l \in Nat, X \in SUBSET Nat, x \in {0, 1} :
        Holds(s, queue, passed, expiry, call, m, h, l, X, x)
  BY DEF Spans, BoundedAt
<1>6. Holds(s, queue, Append(passed, part), expiry, d, m, h, l, X, x)
  BY <1>1, <1>2, <1>3, <1>4, <1>5, RedisTypes, HoldsEnters
<1> QED
  BY <1>1, <1>6 DEF StillBounded, BoundedAt, d

LEMMA PushBounded ==
  ASSUME RateInvariant, RateInvariant', NEW s, Spans(s), NEW k \in Callers, Push(k), errors' = 0
  PROVE  StillBounded(s)
<1> DEFINE place == IF call[k].full THEN "trim" ELSE "expire"
           r == [age |-> call[k].age, at |-> place, full |-> FALSE, time |-> 0]
           d == call'
           t == call[k].time
<1>1. /\ queue' = Append(queue, t) /\ passed' = passed /\ expiry' = expiry /\ call[k].at = "push"
      /\ call' = [call EXCEPT ![k] = r]
  <2>1. errors + 1 # 0
    BY RedisTypes
  <2> QED
    BY <2>1 DEF Push, In, Be, Answered, Ignored
<1>2. d[k] = r /\ (\A j \in Callers : j = k \/ d[j] = call[j]) /\ d \in [Callers -> Calls]
  BY <1>1, OthersWait, RedisTypesNext
<1>3. d[k].at = place
  BY <1>2
<1>4. s \in Nat /\ t \in Nat
  BY RedisTypes DEF Spans
<1>5. Pushes(call, d, k, t)
  BY <1>1, <1>2, <1>3, <1>4 DEF Pushes
<1> HIDE DEF d, r, t
<1>6. BoundedAt(s, Append(queue, t), passed, expiry, d)
  BY <1>4, <1>5, RedisTypes, PushesBounded DEF Spans
<1> QED
  BY <1>1, <1>6 DEF StillBounded, d

\* What is left after a trim are the newest times.
LEMMA NewestCut ==
  ASSUME RateInvariant
  PROVE  Cut(queue, Newest(MaxRequests)) /\ Newest(MaxRequests) \in Seq(Nat)
<1> DEFINE n == Len(queue)
           a == n - MaxRequests + 1
           m == Max({1, a})
<1>1. queue \in Seq(Nat) /\ n \in Nat /\ MaxRequests \in Nat \ {0} /\ a \in Int
  BY RedisTypes, RateNumbers
<1>2. m = IF a >= 1 THEN a ELSE 1
  <2> HIDE DEF a, n
  <2>1. PICK g \in {1, a} : \A y \in {1, a} : g >= y
    BY <1>1
  <2>2. m \in {1, a} /\ \A y \in {1, a} : m >= y
    BY <2>1 DEF Max
  <2> HIDE DEF m
  <2> QED
    BY <1>1, <2>2
<1>3. Newest(MaxRequests) = SubSeq(queue, m, n)
  BY DEF Newest
<1> HIDE DEF m
<1>4. CASE n <= MaxRequests
  <2>1. m = 1
    BY <1>1, <1>2, <1>4
  <2>2. SubSeq(queue, 1, n) = queue
    BY <1>1
  <2>3. Newest(MaxRequests) = queue
    BY <1>3, <2>1, <2>2
  <2>4. ~(Len(queue) > MaxRequests)
    BY <1>1, <1>4
  <2> HIDE DEF n, a
  <2> QED
    BY <1>1, <2>3, <2>4 DEF Cut
<1>5. CASE n > MaxRequests
  <2>1. m = n - MaxRequests + 1 /\ m \in 1 .. n /\ n - m + 1 = MaxRequests
    BY <1>1, <1>2, <1>5
  <2>2. /\ SubSeq(queue, m, n) \in Seq(Nat) /\ Len(SubSeq(queue, m, n)) = n - m + 1
        /\ \A j \in 1 .. n - m + 1 : SubSeq(queue, m, n)[j] = queue[m + j - 1]
    <3>1. \A i \in m .. n : queue[i] \in Nat
      BY <1>1, <2>1
    <3> HIDE DEF n
    <3> QED
      BY <1>1, <2>1, <3>1 DEF n
  <2>3. ASSUME NEW j \in 1 .. MaxRequests PROVE Newest(MaxRequests)[j] = queue[Len(queue) - MaxRequests + j]
    <3>1. j \in 1 .. n - m + 1 /\ m + j - 1 = n - MaxRequests + j
      BY <1>1, <2>1
    <3> HIDE DEF n
    <3> QED
      BY <1>3, <2>2, <3>1 DEF n
  <2>4. Newest(MaxRequests) \in Seq(Nat) /\ Len(Newest(MaxRequests)) = MaxRequests
    BY <1>3, <2>1, <2>2
  <2>5. ~(Len(queue) <= MaxRequests)
    BY <1>1, <1>5
  <2> QED
    BY <2>3, <2>4, <2>5 DEF Cut
<1> QED
  BY <1>1, <1>4, <1>5

LEMMA TrimBounded ==
  ASSUME RateInvariant, RateInvariant', NEW s, Spans(s), NEW k \in Callers, Trim(k), errors' = 0
  PROVE  StillBounded(s)
<1> DEFINE r == [age |-> call[k].age, at |-> "expire", full |-> FALSE, time |-> 0]
           d == call'
           q == Newest(MaxRequests)
<1>1. /\ queue' = q /\ passed' = passed /\ expiry' = expiry /\ call[k].at = "trim"
      /\ call' = [call EXCEPT ![k] = r]
  <2>1. errors + 1 # 0
    BY RedisTypes
  <2> QED
    BY <2>1 DEF Trim, In, Be, Answered, Ignored
<1>2. d[k] = r /\ (\A j \in Callers : j = k \/ d[j] = call[j]) /\ d \in [Callers -> Calls]
  BY <1>1, OthersWait, RedisTypesNext
<1>3. d[k].at = "expire"
  BY <1>2
<1>4. s \in Nat
  BY DEF Spans
<1>5. PICK m \in Nat, h \in Int, l \in Nat, X \in SUBSET Nat, x \in {0, 1} :
        Holds(s, queue, passed, expiry, call, m, h, l, X, x)
  BY DEF Spans, BoundedAt
<1>6. Cut(queue, q) /\ q \in Seq(Nat)
  BY NewestCut
<1> HIDE DEF d, r, q
<1>7. BoundedAt(s, q, passed, expiry, d)
  BY <1>1, <1>2, <1>3, <1>4, <1>5, <1>6, RedisTypes, HoldsTrims
<1> QED
  BY <1>1, <1>7 DEF StillBounded, d

LEMMA ExpireBounded ==
  ASSUME RateInvariant, RateInvariant', NEW s, Spans(s), NEW k \in Callers, Expire(k), errors' = 0
  PROVE  StillBounded(s)
<1> DEFINE d == call'
           f == expiry'
<1>1. /\ queue' = queue /\ passed' = passed /\ call[k].at = "expire"
      /\ f = 0 \/ f = part + Expiration * Parts
      /\ call' = [call EXCEPT ![k] = Free]
  <2>1. errors + 1 # 0
    BY RedisTypes
  <2> QED
    BY <2>1 DEF Expire, In, Leaves, Answered, Ignored
<1>2. /\ d[k] = Free /\ (\A j \in Callers : j = k \/ d[j] = call[j]) /\ d \in [Callers -> Calls]
      /\ f \in Nat
  BY <1>1, OthersWait, RedisTypesNext
<1>3. s \in Nat /\ s <= part /\ part \in Nat
  BY RedisTypes DEF Spans
<1>4. f = 0 \/ f >= s + Width
  <2> HIDE DEF f
  <2> QED
    BY <1>1, <1>3, WidthNumber, RateNumbers
<1>5. /\ {call[k].at, d[k].at} \cap {"push", "trim"} = {}
      /\ Len(queue) >= MaxRequests => k \in Found(call) \/ k \notin Found(d)
      /\ \/ k \in Coming(call, s) \/ k \notin Coming(d, s)
         \/ Len(queue) < MaxRequests
         \/ queue[1] < s
  BY <1>1, <1>2 DEF Found, Coming, Free
<1> HIDE DEF d, f
<1>6. Proceeds(s, queue, expiry, call, f, d, k)
  BY <1>2, <1>3, <1>4, <1>5, RedisTypes DEF Proceeds
<1>7. BoundedAt(s, queue, passed, f, d)
  BY <1>6, RedisTypes, ProceedsBounded DEF Spans
<1> QED
  BY <1>1, <1>7 DEF StillBounded, d, f

\* A request is where it was when time passes.
LEMMA TimeKeepsCalls ==
  ASSUME RateInvariant, backend = "redis", TimePasses
  PROVE  \A k \in Callers : /\ call'[k].at = call[k].at
                            /\ call[k].at = "free" \/ (call'[k].time = call[k].time /\ call'[k].full = call[k].full)
                            /\ call'[k].time \in {0, call[k].time}
<1> SUFFICES ASSUME NEW k \in Callers
             PROVE  /\ call'[k].at = call[k].at
                    /\ call[k].at = "free" \/ (call'[k].time = call[k].time /\ call'[k].full = call[k].full)
                    /\ call'[k].time \in {0, call[k].time}
  OBVIOUS
<1>0. call' = [j \in Callers |-> IF In(j, "free") \/ backend = "memory" THEN Free
                                 ELSE [call[j] EXCEPT !.age = @ + 1]]
  BY DEF TimePasses
<1>1. CASE In(k, "free")
  BY <1>0, <1>1 DEF In, Free
<1>2. CASE ~In(k, "free")
  <2>1. call'[k] = [call[k] EXCEPT !.age = @ + 1] /\ call[k] \in Calls
    BY <1>0, <1>2, RedisTypes
  <2> QED
    BY <2>1 DEF Calls
<1> QED
  BY <1>1, <1>2

LEMMA TimeBounded ==
  ASSUME RateInvariant, RateInvariant', backend = "redis", TimePasses, NEW s, Spans(s), part' < s + Width
  PROVE  StillBounded(s)
<1> DEFINE d == call'
           over == expiry # 0 /\ part + 1 >= expiry
<1>1. /\ passed' = passed /\ part' = part + 1
      /\ over => queue' = <<>> /\ expiry' = 0
      /\ ~over => queue' = queue /\ expiry' = expiry
  BY DEF TimePasses
<1>2. d \in [Callers -> Calls]
  BY RedisTypesNext
<1>3. s \in Nat /\ part \in Nat /\ expiry \in Nat /\ Width \in Nat
  BY RedisTypes, WidthNumber DEF Spans
<1>4. PICK m \in Nat, h \in Int, l \in Nat, X \in SUBSET Nat, x \in {0, 1} :
        Holds(s, queue, passed, expiry, call, m, h, l, X, x)
  BY DEF Spans, BoundedAt
<1>5. Holds(s, queue, passed, expiry, d, m, h, l, X, x)
  BY <1>3, <1>4, TimeKeepsCalls, HoldsSame
<1> HIDE DEF d
<1>6. CASE over
  <2>1. expiry # 0 /\ expiry < s + Width
    BY <1>1, <1>3, <1>6
  <2>2. BoundedAt(s, <<>>, passed, 0, d)
    BY <1>2, <1>3, <1>4, <1>5, <2>1, RedisTypes, HoldsGone
  <2> QED
    BY <1>1, <1>6, <2>2 DEF StillBounded, d
<1>7. CASE ~over
  <2>1. BoundedAt(s, queue, passed, expiry, d)
    BY <1>4, <1>5 DEF BoundedAt
  <2> HIDE DEF over
  <2> QED
    BY <1>1, <1>7, <2>1 DEF StillBounded, d
<1> QED
  BY <1>6, <1>7

-----------------------------------------------------------------------------
(* The limit is kept on Redis                                               *)

\* No time is to come, and the first requests came after the clock began.
Past ==
  /\ part >= 1
  /\ \A i \in 1 .. Len(passed) : passed[i] \in 1 .. part
  /\ \A j \in 1 .. Len(queue) : queue[j] <= part
  /\ \A k \in Callers : call[k].time <= part

\* Every span that is not over is bounded.
SpansBounded ==
  \A s \in 1 .. part : part < s + Width => BoundedAt(s, queue, passed, expiry, call)

RedisInvariant == backend = "redis" /\ errors = 0 => Past /\ LimitKept /\ SpansBounded

LEMMA PastGoes ==
  ASSUME RateInvariant, RateInvariant', Past,
         part' = part \/ part' = part + 1,
         passed' = passed \/ passed' = Append(passed, part),
         \A j \in 1 .. Len(queue') : queue'[j] <= part,
         \A k \in Callers : call'[k].time <= part
  PROVE  Past'
<1> DEFINE b == part'
           p == passed'
           q == queue'
<1>1. /\ part \in Nat /\ b \in Nat /\ passed \in Seq(Nat) /\ p \in Seq(Nat) /\ q \in Seq(Nat)
      /\ \A k \in Callers : call'[k].time \in Nat
      /\ part <= b /\ part >= 1
  BY RedisTypes, RedisTypesNext DEF Past
<1>2. \A i \in 1 .. Len(p) : p[i] \in 1 .. part
  <2>1. CASE p = passed
    BY <2>1 DEF Past
  <2>2. CASE p = Append(passed, part)
    <3>1. Len(p) = Len(passed) + 1 /\ p[Len(passed) + 1] = part /\ \A i \in 1 .. Len(passed) : p[i] = passed[i]
      BY <1>1, <2>2
    <3> HIDE DEF p
    <3> SUFFICES ASSUME NEW i \in 1 .. Len(p) PROVE p[i] \in 1 .. part
      OBVIOUS
    <3>2. i \in 1 .. Len(passed) \/ i = Len(passed) + 1
      BY <1>1, <3>1
    <3>3. part \in 1 .. part
      BY <1>1
    <3>4. \A n \in 1 .. Len(passed) : passed[n] \in 1 .. part
      BY DEF Past
    <3> QED
      BY <3>1, <3>2, <3>3, <3>4
  <2> QED
    BY <2>1, <2>2
<1> HIDE DEF b, p
<1>3. b >= 1 /\ (\A i \in 1 .. Len(p) : p[i] \in 1 .. b)
  BY <1>1, <1>2
<1>4. \A j \in 1 .. Len(q) : q[j] <= b
  <2> HIDE DEF q
  <2> SUFFICES ASSUME NEW j \in 1 .. Len(q) PROVE q[j] <= b
    OBVIOUS
  <2>1. q[j] \in Nat
    BY <1>1
  <2>2. q[j] <= part
    BY DEF q
  <2> QED
    BY <1>1, <2>1, <2>2
<1>5. \A k \in Callers : call'[k].time <= b
  BY <1>1
<1> QED
  BY <1>3, <1>4, <1>5 DEF Past, b, p, q

\* One request goes on; its time is one that is kept, or now.
LEMMA CallPast ==
  ASSUME RateInvariant, RateInvariant', Past, NEW k \in Callers, NEW c, call' = [call EXCEPT ![k] = c],
         c.time \in {0, part, call[k].time} \/ (queue # <<>> /\ c.time = queue[1])
  PROVE  \A j \in Callers : call'[j].time <= part
<1>1. c.time <= part
  <2>1. queue # <<>> => queue[1] <= part
    <3>1. queue # <<>> => 1 \in 1 .. Len(queue)
      BY RedisTypes
    <3> QED
      BY <3>1 DEF Past
  <2> QED
    BY <2>1, RedisTypes DEF Past
<1> QED
  BY <1>1, OthersWait DEF Past

LEMMA PastKept ==
  ASSUME RateInvariant, RateInvariant', backend = "redis", Past, RateNext
  PROVE  Past'
<1>1. ASSUME NEW k \in Callers, Length(k) PROVE Past'
  <2>1. \A j \in Callers : call'[j].time <= part
    BY <1>1, CallPast DEF Length, Be
  <2> QED
    BY <1>1, <2>1, PastGoes DEF Length, Past
<1>2. ASSUME NEW k \in Callers, Oldest(k) PROVE Past'
  <2>1. \A j \in Callers : call'[j].time <= part
    BY <1>2, CallPast DEF Oldest, Be, Leaves, Free
  <2> QED
    BY <1>2, <2>1, PastGoes DEF Oldest, Past
<1>3. ASSUME NEW k \in Callers, Judgement(k) PROVE Past'
  <2>1. \A j \in Callers : call'[j].time <= part
    <3>1. CASE Seconds(part - call[k].time) < Duration
      BY <1>3, <3>1, CallPast DEF Judgement, Be
    <3>2. CASE ~(Seconds(part - call[k].time) < Duration)
      BY <1>3, <3>2, CallPast DEF Judgement, Be
    <3> QED
      BY <3>1, <3>2
  <2> QED
    BY <1>3, <2>1, PastGoes DEF Judgement, Past
<1>4. ASSUME NEW k \in Callers, TakeTime(k) PROVE Past'
  <2>1. \A j \in Callers : call'[j].time <= part
    BY <1>4, CallPast DEF TakeTime, Be
  <2> QED
    BY <1>4, <2>1, PastGoes DEF TakeTime, LetIn, Past
<1>5. ASSUME NEW k \in Callers, Push(k) PROVE Past'
  <2>1. \A j \in Callers : call'[j].time <= part
    BY <1>5, CallPast DEF Push, Be
  <2>2. part' = part /\ passed' = passed
        /\ (queue' = queue \/ queue' = Append(queue, call[k].time))
    BY <1>5 DEF Push
  <2>3. \A j \in 1 .. Len(queue') : queue'[j] <= part
    <3>1. CASE queue' = queue
      BY <3>1 DEF Past
    <3>2. CASE queue' = Append(queue, call[k].time)
      <4> DEFINE r == Append(queue, call[k].time)
      <4>1. /\ Len(r) = Len(queue) + 1 /\ r[Len(queue) + 1] = call[k].time /\ Len(queue) \in Nat
            /\ \A j \in 1 .. Len(queue) : r[j] = queue[j]
        BY RedisTypes
      <4> HIDE DEF r
      <4>2. ASSUME NEW j \in 1 .. Len(r) PROVE r[j] <= part
        <5>1. j \in 1 .. Len(queue) \/ j = Len(queue) + 1
          BY <4>1
        <5> QED
          BY <4>1, <5>1 DEF Past
      <4> QED
        BY <3>2, <4>2 DEF r
    <3> QED
      BY <2>2, <3>1, <3>2
  <2> QED
    BY <2>1, <2>2, <2>3, PastGoes
<1>6. ASSUME NEW k \in Callers, Trim(k) PROVE Past'
  <2>1. \A j \in Callers : call'[j].time <= part
    BY <1>6, CallPast DEF Trim, Be
  <2>2. part' = part /\ passed' = passed /\ (queue' = queue \/ queue' = Newest(MaxRequests))
    BY <1>6 DEF Trim
  <2>3. \A j \in 1 .. Len(queue') : queue'[j] <= part
    <3>1. CASE queue' = queue
      BY <3>1 DEF Past
    <3>2. CASE queue' = Newest(MaxRequests)
      <4> DEFINE r == Newest(MaxRequests)
      <4>1. Cut(queue, r) /\ r \in Seq(Nat)
        BY NewestCut
      <4>2. Len(queue) \in Nat /\ MaxRequests \in Nat
        BY RedisTypes, RateNumbers
      <4> HIDE DEF r
      <4>3. ASSUME NEW j \in 1 .. Len(r) PROVE r[j] <= part
        <5>1. CASE Len(queue) <= MaxRequests
          BY <4>1, <5>1 DEF Cut, Past
        <5>2. CASE Len(queue) > MaxRequests
          <6>1. Len(r) = MaxRequests /\ r[j] = queue[Len(queue) - MaxRequests + j]
            BY <4>1, <5>2 DEF Cut
          <6>2. Len(queue) - MaxRequests + j \in 1 .. Len(queue)
            BY <4>2, <5>2, <6>1
          <6> QED
            BY <6>1, <6>2 DEF Past
        <5> QED
          BY <4>2, <5>1, <5>2
      <4> QED
        BY <3>2, <4>3 DEF r
    <3> QED
      BY <2>2, <3>1, <3>2
  <2> QED
    BY <2>1, <2>2, <2>3, PastGoes
<1>7. ASSUME NEW k \in Callers, Expire(k) PROVE Past'
  <2>1. \A j \in Callers : call'[j].time <= part
    BY <1>7, CallPast DEF Expire, Leaves, Free
  <2> QED
    BY <1>7, <2>1, PastGoes DEF Expire, Past
<1>8. CASE TimePasses
  <2>1. \A j \in Callers : call'[j].time <= part
    <3>1. \A j \in Callers : call'[j].time \in {0, call[j].time} /\ 0 <= part
      BY <1>8, TimeKeepsCalls, RedisTypes
    <3> QED
      BY <3>1 DEF Past
  <2>2. part' = part + 1 /\ passed' = passed /\ (queue' = queue \/ queue' = <<>>)
    BY <1>8 DEF TimePasses
  <2>3. \A j \in 1 .. Len(queue') : queue'[j] <= part
    <3>1. CASE queue' = queue
      BY <3>1 DEF Past
    <3>2. CASE queue' = <<>>
      BY <3>2
    <3> QED
      BY <2>2, <3>1, <3>2
  <2> QED
    BY <2>1, <2>2, <2>3, PastGoes
<1>9. ~Request /\ ~Clear
  BY DEF Request, Clear
<1> QED
  BY <1>1, <1>2, <1>3, <1>4, <1>5, <1>6, <1>7, <1>8, <1>9 DEF RateNext

\* A span that is not over stays bounded.
LEMMA SpanKept ==
  ASSUME RateInvariant, RateInvariant', backend = "redis", RateNext, errors' = 0,
         NEW s, Spans(s), part' < s + Width
  PROVE  StillBounded(s)
<1>1. ASSUME NEW k \in Callers, Length(k) PROVE StillBounded(s)
  BY <1>1, LengthBounded
<1>2. ASSUME NEW k \in Callers, Oldest(k) PROVE StillBounded(s)
  BY <1>2, OldestBounded
<1>3. ASSUME NEW k \in Callers, Judgement(k) PROVE StillBounded(s)
  BY <1>3, JudgementBounded
<1>4. ASSUME NEW k \in Callers, TakeTime(k) PROVE StillBounded(s)
  BY <1>4, TakeTimeBounded
<1>5. ASSUME NEW k \in Callers, Push(k) PROVE StillBounded(s)
  BY <1>5, PushBounded
<1>6. ASSUME NEW k \in Callers, Trim(k) PROVE StillBounded(s)
  BY <1>6, TrimBounded
<1>7. ASSUME NEW k \in Callers, Expire(k) PROVE StillBounded(s)
  BY <1>7, ExpireBounded
<1>8. CASE TimePasses
  BY <1>8, TimeBounded
<1>9. ~Request /\ ~Clear
  BY DEF Request, Clear
<1> QED
  BY <1>1, <1>2, <1>3, <1>4, <1>5, <1>6, <1>7, <1>8, <1>9 DEF RateNext

\* A span that begins is bounded.
LEMMA SpanBegins ==
  ASSUME RateInvariant', backend' = "redis", errors' = 0, NEW s \in Nat,
         \A i \in 1 .. Len(passed') : passed'[i] < s,
         \A k \in Callers : call'[k].time < s
  PROVE  BoundedAt(s, queue', passed', expiry', call')
<1>1. Len(queue') + Cardinality(Unfull') <= MaxRequests - 1 + Cardinality(Callers) + Cardinality(Trimming')
  <2> DEFINE u == Cardinality(Unfull')
             n == Cardinality(Callers)
             w == Cardinality(Trimming')
  <2>1. Len(queue') + u <= MaxRequests - 1 + n + w + errors'
    BY DEF RateInvariant, ListShort
  <2>2. Len(queue') \in Nat /\ u \in Nat /\ n \in Nat /\ w \in Nat /\ MaxRequests \in Nat
    BY RedisTypesNext, RateNumbers, CallersCountedNext
  <2> HIDE DEF u, n, w
  <2>3. Len(queue') + u <= MaxRequests - 1 + n + w
    BY <2>1, <2>2
  <2> QED
    BY <2>3 DEF u, n, w
<1>2. Unfull' = Found(call') /\ Trimming' = ToTrim(call')
  BY DEF Unfull, Found, Trimming, ToTrim
<1>3. Len(queue') + Size(Found(call')) <= MaxRequests - 1 + Cardinality(Callers) + Size(ToTrim(call'))
  BY <1>1, <1>2 DEF Size
<1> QED
  BY <1>3, RedisTypesNext, HoldsBegins

\* One more request is let in: by the bound of the span that began with the one a limit
\* before it, that span is over.
LEMMA LimitStays ==
  ASSUME RateInvariant, backend = "redis", errors = 0, Past, LimitKept, SpansBounded, RateNext
  PROVE  LimitKept'
<1>1. backend' = backend
  BY DEF RateNext, Request, Clear, Length, Oldest, Judgement, TakeTime, Push, Trim, Expire, TimePasses
<1>2. /\ Excess = Most /\ Span = Width - 1 /\ Excess' = Most /\ Span' = Width - 1
      /\ Most \in Nat /\ MaxRequests \in Nat \ {0} /\ Width \in Nat \ {0}
  <2>1. Excess = Most /\ Span = Width - 1 /\ Excess' = Most /\ Span' = Width - 1
    BY <1>1 DEF Excess, Most, Span, Width
  <2>2. Most \in Nat
    <3> DEFINE n == Cardinality(Callers)
    <3>1. n \in Nat
      BY RateNumbers
    <3> HIDE DEF n
    <3>2. n >= 2 => n * n >= 1 /\ n * n \in Nat
      <4>1. n >= 2 => n * 1 <= n * n
        BY <3>1, Grows
      <4> QED
        BY <3>1, <4>1
    <3>3. (IF n <= 1 THEN 1 ELSE n * n - 1) \in Nat
      BY <3>1, <3>2
    <3> QED
      BY <3>3 DEF n, Most
  <2> QED
    BY <2>1, <2>2, RateNumbers, WidthNumber
<1>3. \A first, later \in DOMAIN passed :
        later = first + MaxRequests + Most => passed[later] - passed[first] > Width - 1
  BY <1>2 DEF LimitKept
<1>4. CASE passed' = passed
  BY <1>2, <1>3, <1>4 DEF LimitKept
<1>5. ASSUME NEW k \in Callers, TakeTime(k) PROVE LimitKept'
  <2> DEFINE r == Append(passed, part)
  <2>1. passed' = r /\ call[k].at = "stamp"
    BY <1>5 DEF TakeTime, LetIn, In
  <2>2. /\ passed \in Seq(Nat) /\ Len(passed) \in Nat /\ part \in Nat
        /\ Len(r) = Len(passed) + 1 /\ r[Len(passed) + 1] = part
        /\ DOMAIN r = 1 .. Len(passed) + 1 /\ DOMAIN passed = 1 .. Len(passed)
        /\ \A i \in 1 .. Len(passed) : r[i] = passed[i]
    BY RedisTypes
  <2> HIDE DEF r
  <2>3. ASSUME NEW first \in DOMAIN r, NEW later \in DOMAIN r, later = first + MaxRequests + Most
        PROVE  r[later] - r[first] > Width - 1
    <3>1. /\ first \in 1 .. Len(passed) /\ first \in Nat
          /\ later \in 1 .. Len(passed) \/ later = Len(passed) + 1
      BY <1>2, <2>2, <2>3
    <3>2. CASE later \in 1 .. Len(passed)
      BY <1>3, <2>2, <2>3, <3>1, <3>2
    <3>3. CASE later = Len(passed) + 1
      <4> DEFINE s == passed[first]
      <4>1. s \in 1 .. part /\ r[first] = s /\ r[later] = part /\ s \in Nat
        BY <2>2, <3>1, <3>3 DEF Past
      <4> SUFFICES ASSUME ~(part - s > Width - 1) PROVE FALSE
        BY <4>1
      <4>2. part < s + Width
        BY <1>2, <2>2, <4>1
      <4>3. BoundedAt(s, queue, passed, expiry, call)
        BY <4>1, <4>2 DEF SpansBounded
      <4>4. PICK m \in Nat : /\ m <= Len(passed) /\ Len(passed) - m < MaxRequests + Most
                             /\ \A i \in 1 .. m : passed[i] < s
        BY <2>1, <4>1, <4>3, RedisTypes, HoldsEnough
      <4>5. first \in 1 .. m
        BY <1>2, <2>2, <2>3, <3>1, <3>3, <4>4
      <4>6. s < s
        BY <4>4, <4>5
      <4> QED
        BY <4>1, <4>6
    <3> QED
      BY <3>1, <3>2, <3>3
  <2> QED
    BY <1>2, <2>1, <2>3 DEF LimitKept
<1>6. (\E k \in Callers : TakeTime(k)) \/ passed' = passed
  BY DEF RateNext, Request, Clear, Length, Oldest, Judgement, Push, Trim, Expire, TimePasses
<1> QED
  BY <1>4, <1>5, <1>6

LEMMA RedisStarts == ASSUME RateInit PROVE RedisInvariant
<1> SUFFICES ASSUME backend = "redis" PROVE Past /\ LimitKept /\ SpansBounded
  BY DEF RedisInvariant
<1>1. /\ part = 1 /\ queue = <<>> /\ passed = <<>> /\ errors = 0
      /\ \A k \in Callers : call[k].time = 0
  BY DEF RateInit, Free
<1>2. Past
  BY <1>1 DEF Past
<1>3. LimitKept
  BY <1>1 DEF LimitKept
<1>4. BoundedAt(1, queue, passed, expiry, call)
  <2>1. RateInvariant /\ Len(queue) = 0 /\ 1 \in Nat
    BY <1>1, RateStarts
  <2>2. Len(queue) + Size(Found(call)) <= MaxRequests - 1 + Cardinality(Callers) + Size(ToTrim(call))
    <3>1. /\ Size(Found(call)) \in Nat /\ Size(Found(call)) <= Cardinality(Callers)
          /\ Size(ToTrim(call)) \in Nat /\ Cardinality(Callers) \in Nat /\ MaxRequests \in Nat \ {0}
      BY SetsOfCallers, Sizes, RateNumbers
    <3> QED
      BY <2>1, <3>1
  <2>3. (\A i \in 1 .. Len(passed) : passed[i] < 1) /\ (\A k \in Callers : call[k].time < 1)
    BY <1>1
  <2> QED
    BY <2>1, <2>2, <2>3, RedisTypes, HoldsBegins
<1>5. SpansBounded
  <2>1. 1 .. part = {1}
    BY <1>1
  <2> QED
    BY <1>4, <2>1 DEF SpansBounded
<1> QED
  BY <1>2, <1>3, <1>5

LEMMA RedisKept ==
  ASSUME RateInvariant, RateInvariant', RedisInvariant, RateNext
  PROVE  RedisInvariant'
<1> SUFFICES ASSUME backend' = "redis", errors' = 0 PROVE Past' /\ LimitKept' /\ SpansBounded'
  BY DEF RedisInvariant
<1>1. backend = "redis" /\ errors = 0
  <2>1. errors' = errors \/ errors' = errors + 1
    BY DEF RateNext, Request, Clear, Length, Oldest, Judgement, TakeTime, Push, Trim, Expire, TimePasses,
           Answered, Ignored
  <2>2. backend' = backend
    BY DEF RateNext, Request, Clear, Length, Oldest, Judgement, TakeTime, Push, Trim, Expire, TimePasses
  <2> QED
    BY <2>1, <2>2, RedisTypes
<1>2. Past /\ LimitKept /\ SpansBounded
  BY <1>1 DEF RedisInvariant
<1>3. Past'
  BY <1>1, <1>2, PastKept
<1>4. LimitKept'
  BY <1>1, <1>2, LimitStays
<1>5. part' = part \/ part' = part + 1
  BY DEF RateNext, Request, Clear, Length, Oldest, Judgement, TakeTime, Push, Trim, Expire, TimePasses
<1>6. ASSUME NEW s \in 1 .. part', part' < s + Width
      PROVE  BoundedAt(s, queue', passed', expiry', call')
  <2>1. part \in Nat /\ s \in Nat /\ Width \in Nat
    BY <1>5, <1>6, RedisTypes, WidthNumber
  <2>2. CASE s <= part
    <3>1. s \in 1 .. part /\ part < s + Width
      BY <1>5, <1>6, <2>1, <2>2
    <3>2. Spans(s)
      BY <1>2, <2>1, <2>2, <3>1 DEF Spans, SpansBounded, Past
    <3> QED
      BY <1>1, <1>6, <3>2, SpanKept DEF StillBounded
  <2>3. CASE s > part
    <3>1. s = part + 1 /\ part' = s /\ part' # part
      BY <1>5, <1>6, <2>1, <2>3
    <3>2. TimePasses
      BY <3>1 DEF RateNext, Request, Clear, Length, Oldest, Judgement, TakeTime, Push, Trim, Expire
    <3>3. \A i \in 1 .. Len(passed') : passed'[i] < s
      <4>1. passed' = passed
        BY <3>2 DEF TimePasses
      <4>2. \A i \in 1 .. Len(passed) : passed[i] \in 1 .. part
        BY <1>2 DEF Past
      <4> QED
        BY <2>1, <3>1, <4>1, <4>2
    <3>4. \A k \in Callers : call'[k].time < s
      <4>1. \A k \in Callers : call'[k].time \in {0, call[k].time} /\ call[k].time \in Nat /\ call[k].time <= part
        BY <1>1, <1>2, <3>2, TimeKeepsCalls, RedisTypes DEF Past
      <4> QED
        BY <2>1, <3>1, <4>1
    <3> QED
      BY <2>1, <3>3, <3>4, SpanBegins
  <2> QED
    BY <2>1, <2>2, <2>3
<1>7. SpansBounded'
  BY <1>6 DEF SpansBounded
<1> QED
  BY <1>3, <1>4, <1>7

\* The limit on Redis: in no span as long as the duration are more requests let in than the
\* limit and Excess more, for every number of requests at work, as long as no call to Redis
\* fails.
THEOREM RedisInvariantHolds == RateSpec => []RedisInvariant
<1>1. RateInvariant /\ RateInvariant' /\ RedisInvariant /\ [RateNext]_rateVars => RedisInvariant'
  <2> SUFFICES ASSUME RateInvariant, RateInvariant', RedisInvariant, [RateNext]_rateVars
               PROVE  RedisInvariant'
    OBVIOUS
  <2>1. CASE RateNext
    BY <2>1, RedisKept
  <2>2. CASE UNCHANGED rateVars
    BY <2>2 DEF rateVars, RedisInvariant, Past, LimitKept, SpansBounded, Excess, Span
  <2> QED
    BY <2>1, <2>2
<1> QED
  BY <1>1, RedisStarts, RateInvariantHolds, PTL DEF RateSpec

\* The same in memory and on Redis.
THEOREM LimitKeptHolds == RateSpec => []LimitKept
<1>1. RateInvariant /\ RedisInvariant /\ (backend = "memory" => LimitKept) => LimitKept
  BY DEF RateInvariant, RateTypes, RedisInvariant, LimitKept
<1> QED
  BY <1>1, RateInvariantHolds, RedisInvariantHolds, MemoryLimitHolds, PTL
=============================================================================
