-------------------------------- MODULE Options --------------------------------
(***************************************************************************)
(* The options that say how one may log in: UpdateOption of                *)
(* controller/option.go and model/option.go, over the table of options and *)
(* the copy of it in memory that the program works by.                     *)
(*                                                                         *)
(* A request is judged by the copy, then written to the table in two       *)
(* statements whose errors nobody reads, and then to the copy; a restart   *)
(* makes the copy from the table.  Other options take the same way and are *)
(* judged by the shape of their value only, or by whether another one is   *)
(* empty as GitHub's switch is by the client id; they are left out.        *)
(***************************************************************************)
EXTENDS Integers, FiniteSets

CONSTANTS Updates,    \* requests to change an option, at work at one time
          MaxUpdates  \* bound on accepted requests

ASSUME OptionsAssumption == IsFiniteSet(Updates) /\ MaxUpdates \in Nat

VARIABLES
  table,       \* table[key]: the value of the row, or "absent"
  memory,      \* memory[key]: OptionMap and the variable beside it
  update,      \* update[u]: where request u is, and its locals
  overlapped,  \* a method was switched off while the other one was being switched off
  unsure,      \* keys of which table and memory were written in different orders, or
               \* memory only
  halved,      \* a restart found one of those, or a switch whose row was created only
  accepted     \* accepted requests so far

optionsVars == <<table, memory, update, overlapped, unsure, halved, accepted>>

Switches == {"PasswordLoginEnabled", "GitHubOAuthEnabled"}
Keys     == Switches \cup {"GitHubClientId"}
Values(key) == IF key \in Switches THEN {"true", "false"} ELSE {"", "id"}
Rested  == [at |-> "rest", key |-> "GitHubClientId", value |-> ""]
Asking  == [at : {"rest", "create", "save", "set"}, key : Keys, value : {"true", "false", "", "id"}]

\* common/constants.go
Default == [GitHubClientId |-> "", GitHubOAuthEnabled |-> "false", PasswordLoginEnabled |-> "true"]

\* What InitOptionMap makes of a table: the rows over the defaults.
Loaded(rows) == [key \in Keys |-> IF rows[key] = "absent" THEN Default[key] ELSE rows[key]]

OptionsInit ==
  /\ table = [key \in Keys |-> "absent"] /\ memory = Loaded(table)
  /\ update = [u \in Updates |-> Rested]
  /\ overlapped = FALSE /\ unsure = {} /\ halved = FALSE /\ accepted = 0

----------------------------------------------------------------------------
SwitchedOn(key) == memory[key] = "true"
Going(u, place) == update[u].at = place
Goes(u, place)  == update' = [update EXCEPT ![u] = IF place = "rest" THEN Rested
                                                   ELSE [@ EXCEPT !.at = place]]

\* Mutant of Accepts: password login may be switched off by itself.
AcceptsOff(key, value) ==
  /\ key = "GitHubOAuthEnabled" /\ value = "false" => SwitchedOn("PasswordLoginEnabled")
  /\ key = "GitHubOAuthEnabled" /\ value = "true" => memory["GitHubClientId"] # ""

\* loginMethodGuardMessage, and GitHub's switch needs its client id; the id itself
\* may be emptied at any time.
Accepts(key, value) ==
  /\ key = "PasswordLoginEnabled" /\ value = "false" => SwitchedOn("GitHubOAuthEnabled")
  /\ key = "GitHubOAuthEnabled" /\ value = "false" => SwitchedOn("PasswordLoginEnabled")
  /\ key = "GitHubOAuthEnabled" /\ value = "true" => memory["GitHubClientId"] # ""

OtherGoesOff(key) == \E v \in Updates : update[v].value = "false" /\ update[v].key # key

UpdateOption(u, key, value) ==
  /\ Going(u, "rest") /\ accepted < MaxUpdates
  /\ Accepts(key, value)
  /\ update' = [update EXCEPT ![u] = [at |-> "create", key |-> key, value |-> value]]
  /\ overlapped' = (overlapped \/ (value = "false" /\ OtherGoesOff(key)))
  /\ accepted' = accepted + 1
  /\ UNCHANGED <<table, memory, unsure, halved>>

\* DB.FirstOrCreate: a row that is created is empty.
FirstOrCreate(u) ==
  /\ Going(u, "create") /\ Goes(u, "save")
  /\ \/ table' = [table EXCEPT ![update[u].key] = IF @ = "absent" THEN "" ELSE @]
     \/ UNCHANGED table
  /\ UNCHANGED <<memory, overlapped, unsure, halved, accepted>>

\* DB.Save: an UPDATE, or an INSERT when there is no row.  Another request that has
\* saved the key, and not yet set it, may set it last.
SaveOption(u) ==
  LET key == update[u].key
      passed_by == \E v \in Updates : Going(v, "set") /\ update[v].key = key
  IN /\ Going(u, "save") /\ Goes(u, "set")
     /\ \/ /\ table' = [table EXCEPT ![key] = update[u].value]
           /\ unsure' = IF passed_by THEN unsure \cup {key} ELSE unsure \ {key}
        \/ UNCHANGED table /\ unsure' = unsure \cup {key}
     /\ UNCHANGED <<memory, overlapped, halved, accepted>>

\* updateOptionMap, under its lock.
SetOption(u) ==
  /\ Going(u, "set") /\ Goes(u, "rest")
  /\ memory' = [memory EXCEPT ![update[u].key] = update[u].value]
  /\ UNCHANGED <<table, overlapped, unsure, halved, accepted>>

\* The process stops and starts; of the requests at work nothing more is heard.
Restart ==
  /\ memory' = Loaded(table)
  /\ update' = [u \in Updates |-> Rested]
  /\ halved' = (halved \/ unsure # {} \/ \E key \in Switches : table[key] = "")
  /\ unsure' = {}
  /\ UNCHANGED <<table, overlapped, accepted>>

OptionsNext ==
  \/ \E u \in Updates :
       \/ \E key \in Keys : \E value \in Values(key) : UpdateOption(u, key, value)
       \/ FirstOrCreate(u) \/ SaveOption(u) \/ SetOption(u)
  \/ Restart

OptionsSpec == OptionsInit /\ [][OptionsNext]_optionsVars

----------------------------------------------------------------------------
(* Properties                                                               *)

\* Every variable keeps to its range.
OptionsTypeOK ==
  /\ table \in [Keys -> {"absent", "", "true", "false", "id"}]
  /\ memory \in [Keys -> {"", "true", "false", "id"}]
  /\ update \in [Updates -> Asking]
  /\ overlapped \in BOOLEAN /\ halved \in BOOLEAN
  /\ unsure \subseteq Keys /\ accepted \in 0 .. MaxUpdates

\* controller/option.go:46: one way to log in is always left, across restarts too,
\* unless both were switched off at the same time or a restart took a row that was
\* not saved; and an option that no request is at work on is in memory as a restart
\* would load it, unless a save failed or two requests for it crossed.
LoginLeft ==
  /\ ~overlapped /\ ~halved => \E key \in Switches : SwitchedOn(key)
  /\ \A key \in Keys \ unsure :
       (\A u \in Updates : Going(u, "rest") \/ update[u].key # key) =>
         memory[key] = Loaded(table)[key]
=============================================================================
