----------------------------- MODULE Verification -----------------------------
(***************************************************************************)
(* Codes sent by mail: the map of common/verification.go, the handlers that *)
(* fill it and reset passwords in controller/misc.go, and those of          *)
(* controller/user.go and controller/github.go that give an account its     *)
(* address.                                                                 *)
(*                                                                          *)
(* A code is looked up under the lock, what it is for is written later, and *)
(* only the reset of a password then deletes it.  Codes are numbered, so    *)
(* that none is sent twice; one that is lost with its mail is one that      *)
(* nobody presents.  E-mail verification is switched on.  The passwords     *)
(* themselves, and the other fields of an account (see Accounts), are left  *)
(* out, and an administrator does not set addresses by hand.                *)
(***************************************************************************)
EXTENDS Integers, FiniteSets

CONSTANTS People,     \* accounts that are there or may come to be
          Addresses,
          Presenters, \* requests at work at one time
          Valid,      \* VerificationValidMinutes
          MaxPairs,   \* verificationMapMaxSize
          MaxCodes,   \* bound on codes sent
          LastTime    \* bound on the clock

ASSUME VerificationAssumption ==
  /\ Valid \in Nat \ {0}
  /\ {MaxPairs, MaxCodes, LastTime} \subseteq Nat
  /\ {"absent", "unset"} \cap Addresses = {}

VARIABLES
  now,      \* the time
  pairs,    \* verificationMap
  latest,   \* the code last registered for each key
  codes,    \* codes registered so far
  deleted,  \* keys whose latest code was deleted by a reset with an older one
  spent,    \* codes whose reset was answered
  respent,  \* a code was accepted for a reset after that
  shared,   \* codes that a request presented for a reset while another was at work with it
  rewritten, \* any other code has written passwords a second time
  address,  \* address[u]: the address of account u, "unset" or "absent"
  present,  \* present[k]: where request k is, and its locals
  doubled   \* EmailBind gave an account an address that another one had

verificationVars ==
  <<now, pairs, latest, codes, deleted, spent, respent, shared, rewritten,
    address, present, doubled>>

\* EmailVerificationPurpose and PasswordResetPurpose, before the address.
Pairs    == {"v", "r"} \X Addresses
Codes    == 1 .. MaxCodes
NoCode   == [code |-> 0, time |-> 0]
Entries  == [code : Codes \cup {0}, time : 0 .. LastTime]
Elsewhere == [at |-> "away", for |-> <<"v", "unset">>, code |-> 0, who |-> "nobody"]
Presented == [at : {"away", "insert", "bind", "password", "delete"},
              for : Pairs \cup {<<"v", "unset">>}, code : Codes \cup {0},
              who : People \cup {"nobody"}]

VerificationInit ==
  /\ now = 0 /\ codes = 0
  /\ pairs = [key \in Pairs |-> NoCode] /\ latest = pairs
  /\ deleted = {} /\ spent = {} /\ respent = FALSE
  /\ shared = {} /\ rewritten = FALSE
  /\ address \in [People -> {"absent", "unset"}]
  /\ present = [k \in Presenters |-> Elsewhere]
  /\ doubled = FALSE

----------------------------------------------------------------------------
(* The map                                                                  *)

Expired(entry) == now - entry.time >= Valid

\* Mutant of Trimmed: the map is emptied but for the code that was just sent.
TrimmedToOne(map, new) == [key \in Pairs |-> IF key = new THEN map[key] ELSE NoCode]

\* removeExpiredPairs
Trimmed(map, new) == [key \in Pairs |-> IF Expired(map[key]) THEN NoCode ELSE map[key]]

\* RegisterVerificationCodeWithKey
RegisterCode(key) ==
  LET entry == [code |-> codes + 1, time |-> now]
      map   == [pairs EXCEPT ![key] = entry]
      full  == Cardinality({pair \in Pairs : map[pair].code # 0}) > MaxPairs
  IN /\ codes < MaxCodes /\ codes' = codes + 1
     /\ pairs' = IF full THEN Trimmed(map, key) ELSE map
     /\ latest' = [latest EXCEPT ![key] = entry]
     /\ deleted' = deleted \ {key}

\* VerifyCodeWithKey, when it says yes.
VerifyCode(key, code) == pairs[key].code = code /\ code # 0 /\ ~Expired(pairs[key])

----------------------------------------------------------------------------
(* The handlers                                                             *)

Owners(a) == {u \in People : address[u] = a}

\* IsEmailAlreadyTaken
Taken(a) == Cardinality(Owners(a)) = 1

\* Whether the address is taken is asked a moment before; a code that was sent a
\* moment earlier would be the same.
SendEmailVerification(a) ==
  /\ ~Taken(a) /\ RegisterCode(<<"v", a>>)
  /\ UNCHANGED <<now, spent, respent, shared, rewritten, address, present, doubled>>

SendPasswordResetEmail(a) ==
  /\ Taken(a) /\ RegisterCode(<<"r", a>>)
  /\ UNCHANGED <<now, spent, respent, shared, rewritten, address, present, doubled>>

Away(k)    == present[k].at = "away"
GoesAway(k) == present' = [present EXCEPT ![k] = Elsewhere]
Accepted(k, place, key, u) ==
  /\ Away(k) /\ VerifyCode(key, pairs[key].code)
  /\ present' = [present EXCEPT ![k] =
                   [at |-> place, for |-> key, code |-> pairs[key].code, who |-> u]]
  /\ UNCHANGED <<now, pairs, latest, codes, deleted, spent, rewritten, address, doubled>>

RegisterWithCode(k, u, a) ==
  /\ address[u] = "absent" /\ Accepted(k, "insert", <<"v", a>>, u)
  /\ UNCHANGED <<respent, shared>>

BindWithCode(k, u, a) ==
  /\ address[u] # "absent" /\ Accepted(k, "bind", <<"v", a>>, u)
  /\ UNCHANGED <<respent, shared>>

\* The requests that have presented a code for a reset and were not yet answered.
Resetting(code) ==
  {k \in Presenters : present[k].at \in {"password", "delete"} /\ present[k].code = code}

ResetPassword(k, a) ==
  LET code == pairs[<<"r", a>>].code
  IN /\ Accepted(k, "password", <<"r", a>>, "nobody")
     /\ respent' = (respent \/ code \in spent)
     /\ shared' = IF Resetting(code) = {} THEN shared ELSE shared \cup {code}

\* User.Insert and User.Update, or an error.
SaveAddress(k) ==
  LET a == present[k].for[2]  u == present[k].who
  IN /\ present[k].at \in {"insert", "bind"} /\ GoesAway(k)
     /\ \/ /\ present[k].at = "insert" => address[u] = "absent"
           /\ address' = [address EXCEPT ![u] = a]
           /\ doubled' = (doubled \/ (present[k].at = "bind" /\ Owners(a) \ {u} # {}))
        \/ UNCHANGED <<address, doubled>>
     /\ UNCHANGED <<now, pairs, latest, codes, deleted, spent, respent, shared, rewritten>>

\* GitHubOAuth makes an account with the address that GitHub names, if any.
GitHubSignUp(u) ==
  /\ address[u] = "absent"
  /\ \E a \in Addresses \cup {"unset"} : address' = [address EXCEPT ![u] = a]
  /\ UNCHANGED <<now, pairs, latest, codes, deleted, spent, respent, shared, rewritten, present,
                 doubled>>

\* Passwords were written with the code.
ResetWith(code) == code \in spent \/ \E k \in Resetting(code) : present[k].at = "delete"

\* ResetUserPasswordByEmail writes the password of everyone with the address.
WritePassword(k) ==
  LET code == present[k].code
  IN /\ present[k].at = "password"
     /\ \/ /\ present' = [present EXCEPT ![k].at = "delete"]
           /\ rewritten' = (rewritten \/ (ResetWith(code) /\ code \notin shared))
        \/ GoesAway(k) /\ UNCHANGED rewritten
     /\ UNCHANGED <<now, pairs, latest, codes, deleted, spent, respent, shared, address, doubled>>

\* DeleteKey, whatever the map has for the key by now; and the answer.
DeleteKey(k) ==
  LET key == present[k].for
  IN /\ present[k].at = "delete" /\ GoesAway(k)
     /\ pairs' = [pairs EXCEPT ![key] = NoCode]
     /\ deleted' = IF latest[key].code = present[k].code THEN deleted ELSE deleted \cup {key}
     /\ spent' = spent \cup {present[k].code}
     /\ UNCHANGED <<now, latest, codes, respent, shared, rewritten, address, doubled>>

TimeGoesOn ==
  /\ now < LastTime /\ now' = now + 1
  /\ UNCHANGED <<pairs, latest, codes, deleted, spent, respent, shared, rewritten, address,
                 present, doubled>>

VerificationNext ==
  \/ \E a \in Addresses : SendEmailVerification(a) \/ SendPasswordResetEmail(a)
  \/ \E k \in Presenters, a \in Addresses :
       \/ ResetPassword(k, a)
       \/ \E u \in People : RegisterWithCode(k, u, a) \/ BindWithCode(k, u, a)
  \/ \E k \in Presenters : SaveAddress(k) \/ WritePassword(k) \/ DeleteKey(k)
  \/ \E u \in People : GitHubSignUp(u)
  \/ TimeGoesOn

VerificationSpec == VerificationInit /\ [][VerificationNext]_verificationVars

----------------------------------------------------------------------------
(* Properties                                                               *)

\* Every variable keeps to its range.
VerificationTypeOK ==
  /\ now \in 0 .. LastTime /\ codes \in 0 .. MaxCodes
  /\ pairs \in [Pairs -> Entries] /\ latest \in [Pairs -> Entries]
  /\ deleted \subseteq Pairs /\ spent \subseteq Codes
  /\ respent \in BOOLEAN /\ doubled \in BOOLEAN
  /\ shared \subseteq Codes /\ rewritten \in BOOLEAN
  /\ address \in [People -> Addresses \cup {"absent", "unset"}]
  /\ present \in [Presenters -> Presented]

\* common/verification.go:34 and controller/misc.go:163: the last code sent for an
\* address is accepted until its time is over or its reset was answered, however many
\* codes there are and whatever requests do with older ones, unless a reset with an
\* older code has deleted it.  Once its reset was answered a code is accepted no
\* more, and it writes passwords once, unless several requests had presented it
\* before one of them was answered: those may each write, the later ones after the
\* answer of the first.
CodesKept ==
  /\ \A key \in Pairs \ deleted :
       latest[key].code \notin spent \cup {0} /\ ~Expired(latest[key]) =>
         VerifyCode(key, latest[key].code)
  /\ ~respent /\ ~rewritten
=============================================================================
