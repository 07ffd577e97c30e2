------------------------------ MODULE UserProofs ------------------------------
(***************************************************************************)
(* Proofs about Accounts, for any number of accounts and requests, and     *)
(* about Verification, for any number of accounts, addresses, codes and    *)
(* requests, any capacity of the map and any time of validity.             *)
(***************************************************************************)
EXTENDS Accounts, Verification, TLAPS

\* The roles and states an account that exists may have.
Roles    == {Common, Admin, Super}
Statuses == {"enabled", "disabled"}

-----------------------------------------------------------------------------
(* Accounts: rows                                                           *)

LEMMA RoleFacts ==
  /\ Nobody = 0 /\ Common = 1 /\ Admin = 10 /\ Super = 100
  /\ Nobody \notin Roles
BY DEF Nobody, Common, Admin, Super, Roles

LEMMA RowFacts ==
  /\ \A role, status : Row(role, status).role = role /\ Row(role, status).status = status
  /\ \A role \in Roles, status \in Statuses : Row(role, status) \in Accounts
  /\ Gone \in Accounts /\ Unborn \in Accounts /\ RootRow \in Accounts /\ NewRow \in Accounts
  /\ Gone # Unborn /\ Gone # RootRow /\ Gone # NewRow /\ Unborn # RootRow /\ Unborn # NewRow
  /\ Gone.role = Nobody /\ Unborn.role = Nobody /\ RootRow.role = Super /\ NewRow.role = Common
  /\ RootRow.status = "enabled"
BY RoleFacts DEF Row, Gone, Unborn, RootRow, NewRow, Accounts, Roles, Statuses

\* A row that is there has a role, a status and nothing else.
LEMMA ThereFacts ==
  ASSUME NEW row \in Accounts, row # Gone, row # Unborn
  PROVE  /\ row.role \in Roles /\ row.status \in Statuses
         /\ row.role # Nobody /\ row = Row(row.role, row.status)
<1>1. row \in [role : Roles, status : Statuses]
  BY DEF Accounts, Roles, Statuses
<1> QED
  BY <1>1, RoleFacts DEF Row

LEMMA WrittenFacts ==
  ASSUME NEW row \in Accounts, row # Gone, row # Unborn, NEW h \in Handling, NEW only
  PROVE  Written(row, h, only) \in Accounts \ {Gone, Unborn}
<1> DEFINE role == IF h.role = Nobody \/ "role" \notin only THEN row.role ELSE h.role
           status == IF h.status = "same" \/ "status" \notin only THEN row.status ELSE h.status
<1>1. h.role \in {Nobody} \cup Roles /\ h.status \in {"same"} \cup Statuses
  BY DEF Handling, Roles, Statuses
<1>2. role \in Roles /\ status \in Statuses
  BY <1>1, ThereFacts
<1>3. Written(row, h, only) = Row(role, status)
  BY DEF Written
<1> HIDE DEF role, status
<1> QED
  BY <1>2, <1>3, RowFacts, RoleFacts

LEMMA IdleFacts ==
  /\ Idle \in Handling /\ Idle.at = "idle" /\ Idle.copied = FALSE /\ Idle.old = FALSE
  /\ Idle.asks = {} /\ Idle.role = Nobody /\ Idle.status = "same" /\ Idle.user = Founder
BY AccountsAssumption DEF Idle, Handling

-----------------------------------------------------------------------------
(* The invariant                                                            *)

\* What holds of the locals h of a request while the rows are acc: it is about an
\* account that has been there; a copy that is not old has, in the fields it does not
\* ask for, what the row has; without a copy it writes what it asks for only; and it
\* would leave the founder what it is.
Sound(acc, h) ==
  /\ h.at # "idle" => acc[h.user] # Unborn
  /\ h.at = "idle" => ~h.copied
  /\ h.copied /\ ~h.old /\ acc[h.user].role # Nobody =>
       /\ "role" \in h.asks \/ h.role = acc[h.user].role
       /\ "status" \in h.asks \/ h.status = acc[h.user].status
  /\ ~h.copied => /\ "role" \in h.asks \/ h.role = Nobody
                  /\ "status" \in h.asks \/ h.status = "same"
  /\ h.user = Founder => /\ h.at \in {"idle", "save"} /\ h.role \in {Nobody, Super}
                         /\ h.status \in {"same", "enabled"}

SessionsBorn == \A u \in Users : session[u] # Nobody => account[u] # Unborn
GoneAsked    == \A u \in Users : /\ account[u] = Gone => asked[u] = Gone
                                 /\ asked[u] = Unborn => account[u] = Unborn
FounderStays == account[Founder] \in {RootRow, Gone}
AllSound     == \A k \in Handlers : Sound(account, handler[k])

AccountsInvariant ==
  AccountsTypeOK /\ SessionsBorn /\ GoneAsked /\ FounderStays /\ AllSound /\ LastWordKept

\* The parts of the type invariant that have no Boolean in them.
LEMMA TypeFacts ==
  ASSUME AccountsTypeOK
  PROVE  /\ account \in [Users -> Accounts] /\ asked \in [Users -> Accounts]
         /\ session \in [Users -> {Nobody, Common, Admin, Super}]
         /\ handler \in [Handlers -> Handling] /\ writes \in Nat
         /\ Founder \in Users
BY AccountsAssumption DEF AccountsTypeOK

LEMMA ExistsFacts ==
  ASSUME AccountsTypeOK, NEW u \in Users
  PROVE  Exists(u) <=> account[u] \notin {Gone, Unborn}
<1>1. account[u] \in Accounts
  BY TypeFacts
<1> QED
  BY <1>1, RowFacts, ThereFacts DEF Exists

LEMMA SoundIdle == ASSUME NEW acc PROVE Sound(acc, Idle)
BY IdleFacts, RoleFacts DEF Sound

\* Rows of other accounts do not matter.
LEMMA SoundElsewhere ==
  ASSUME NEW acc, NEW acc2, NEW h, Sound(acc, h), acc2[h.user] = acc[h.user]
  PROVE  Sound(acc2, h)
BY DEF Sound

\* A row that goes away leaves every request sound.
LEMMA SoundGone ==
  ASSUME NEW acc, NEW acc2, NEW h, Sound(acc, h), acc2[h.user] = Gone
  PROVE  Sound(acc2, h)
BY RowFacts DEF Sound

\* So does a change to a row, once the copies of it are old.
LEMMA SoundOld ==
  ASSUME NEW acc, NEW acc2, NEW h \in Handling, Sound(acc, h), h.copied => h.old,
         acc[h.user] # Unborn => acc2[h.user] # Unborn
  PROVE  Sound(acc2, h)
BY DEF Sound

LEMMA AccountsInitially == AccountsInit => AccountsInvariant
<1> SUFFICES ASSUME AccountsInit PROVE AccountsInvariant
  OBVIOUS
<1>1. AccountsTypeOK
  <2>1. account \in [Users -> Accounts] /\ asked \in [Users -> Accounts]
    BY RowFacts DEF AccountsInit
  <2>2. handler \in [Handlers -> Handling]
    BY IdleFacts DEF AccountsInit
  <2>3. session \in [Users -> {Nobody, Common, Admin, Super}] /\ writes \in Nat
    BY DEF AccountsInit
  <2>4. rolledBack \in [Users -> BOOLEAN] /\ swallowed \in BOOLEAN
    BY DEF AccountsInit
  <2> QED
    BY <2>1, <2>2, <2>3, <2>4 DEF AccountsTypeOK
<1>2. account[Founder] = RootRow
  BY AccountsAssumption DEF AccountsInit
<1>3. \A u \in Users : account[u] # Gone
  BY RowFacts DEF AccountsInit
<1>4. AllSound
  BY SoundIdle DEF AllSound, AccountsInit
<1>5. LastWordKept
  BY <1>2 DEF LastWordKept, AccountsInit
<1>6. SessionsBorn
  BY DEF SessionsBorn, AccountsInit
<1>7. GoneAsked
  BY <1>3 DEF GoneAsked, AccountsInit
<1> QED
  BY <1>1, <1>2, <1>4, <1>5, <1>6, <1>7 DEF AccountsInvariant, FounderStays

-----------------------------------------------------------------------------
(* Sessions, and requests that begin                                        *)

LEMMA SameRows ==
  ASSUME AccountsInvariant, UNCHANGED <<account, asked, rolledBack, swallowed, writes>>,
         session' \in [Users -> {Nobody, Common, Admin, Super}],
         handler' \in [Handlers -> Handling], SessionsBorn',
         \A k \in Handlers : Sound(account, handler'[k])
  PROVE  AccountsInvariant'
<1>1. AccountsTypeOK'
  BY DEF AccountsInvariant, AccountsTypeOK
<1>2. GoneAsked' /\ FounderStays' /\ LastWordKept'
  BY DEF AccountsInvariant, GoneAsked, FounderStays, LastWordKept
<1>3. AllSound'
  BY DEF AllSound
<1> QED
  BY <1>1, <1>2, <1>3 DEF AccountsInvariant

LEMMA SessionKept ==
  ASSUME AccountsInvariant, NEW u \in Users, OpenSession(u) \/ Logout(u)
  PROVE  AccountsInvariant'
<1>1. AccountsTypeOK /\ SessionsBorn
  BY DEF AccountsInvariant
<1>2. account[u] \in Accounts /\ account[u].role \in {Nobody, Common, Admin, Super}
  BY <1>1, TypeFacts, ThereFacts, RowFacts DEF Roles
<1>3. session \in [Users -> {Nobody, Common, Admin, Super}] /\ handler \in [Handlers -> Handling]
  BY <1>1, TypeFacts
<1>4. UNCHANGED <<account, asked, rolledBack, swallowed, handler, writes>>
  BY DEF OpenSession, Logout
<1>5. session' \in [Users -> {Nobody, Common, Admin, Super}]
  BY <1>2, <1>3 DEF OpenSession, Logout
<1>6. SessionsBorn'
  <2>1. CASE OpenSession(u)
    <3>1. account[u] # Unborn
      BY <2>1 DEF OpenSession, Admitted, Unborn, Row
    <3> QED
      BY <1>1, <1>3, <1>4, <2>1, <3>1 DEF SessionsBorn, OpenSession
  <2>2. CASE Logout(u)
    BY <1>1, <1>3, <1>4, <2>2 DEF SessionsBorn, Logout
  <2> QED
    BY <2>1, <2>2
<1>7. \A k \in Handlers : Sound(account, handler'[k])
  BY <1>4 DEF AccountsInvariant, AllSound
<1> QED
  BY <1>3, <1>4, <1>5, <1>6, <1>7, SameRows

LEMMA BornSame ==
  ASSUME SessionsBorn, UNCHANGED <<account, session>>
  PROVE  SessionsBorn'
BY DEF SessionsBorn

LEMMA TakesKept ==
  ASSUME AccountsInvariant, NEW k \in Handlers, NEW h \in Handling, Takes(k, h),
         Sound(account, h)
  PROVE  AccountsInvariant'
<1>1. AccountsTypeOK /\ SessionsBorn /\ \A j \in Handlers : Sound(account, handler[j])
  BY DEF AccountsInvariant, AllSound
<1>2. session \in [Users -> {Nobody, Common, Admin, Super}] /\ handler \in [Handlers -> Handling]
  BY <1>1, TypeFacts
<1>3. UNCHANGED <<account, session, asked, rolledBack, swallowed, writes>>
  BY DEF Takes
<1>4. handler' = [handler EXCEPT ![k] = h]
  BY DEF Takes
<1>5. handler' \in [Handlers -> Handling] /\ \A j \in Handlers : Sound(account, handler'[j])
  BY <1>1, <1>2, <1>4
<1>6. SessionsBorn'
  BY <1>1, <1>3, BornSame
<1> QED
  BY <1>2, <1>3, <1>5, <1>6, SameRows

LEMMA RefuseKept ==
  ASSUME AccountsInvariant, NEW k \in Handlers, Refuse(k)
  PROVE  AccountsInvariant'
<1>1. AccountsTypeOK /\ SessionsBorn /\ \A j \in Handlers : Sound(account, handler[j])
  BY DEF AccountsInvariant, AllSound
<1>2. session \in [Users -> {Nobody, Common, Admin, Super}] /\ handler \in [Handlers -> Handling]
  BY <1>1, TypeFacts
<1>3. UNCHANGED <<account, session, asked, rolledBack, swallowed, writes>>
  BY DEF Refuse
<1>4. handler' = [handler EXCEPT ![k] = Idle]
  BY DEF Refuse
<1>5. handler' \in [Handlers -> Handling] /\ \A j \in Handlers : Sound(account, handler'[j])
  BY <1>1, <1>2, <1>4, IdleFacts, SoundIdle
<1>6. SessionsBorn'
  BY <1>1, <1>3, BornSame
<1> QED
  BY <1>2, <1>3, <1>5, <1>6, SameRows

\* The founder is not below anybody.
LEMMA FounderAbove ==
  ASSUME AccountsInvariant, NEW me \in Users, NEW u \in Users, Exists(u),
         session[me] > account[u].role
  PROVE  u # Founder
<1> SUFFICES ASSUME u = Founder PROVE FALSE
  OBVIOUS
<1>1. account[Founder].role = Super
  BY RowFacts DEF AccountsInvariant, FounderStays, Exists
<1>2. session[me] \in {Nobody, Common, Admin, Super}
  BY TypeFacts DEF AccountsInvariant
<1> QED
  BY <1>1, <1>2, RoleFacts

LEMMA CopySound ==
  ASSUME AccountsInvariant, NEW u \in Users, Exists(u),
         NEW role \in Roles, NEW status \in Statuses, NEW asks \in SUBSET {"role", "status"},
         "role" \in asks \/ role = account[u].role, "status" \in asks \/ status = account[u].status,
         u = Founder => role = Super /\ status = "enabled"
  PROVE  Copy(u, role, status, asks) \in Handling /\ Sound(account, Copy(u, role, status, asks))
<1> DEFINE h == Copy(u, role, status, asks)
<1>1. /\ h.asks = asks /\ h.at = "save" /\ h.copied /\ ~h.old /\ h.role = role
      /\ h.status = status /\ h.user = u
  BY DEF Copy
<1>2. h \in Handling
  BY DEF Copy, Handling, Roles, Statuses
<1>3. account[u] # Unborn
  BY ExistsFacts DEF AccountsInvariant
<1> HIDE DEF h
<1>4. Sound(account, h)
  BY <1>1, <1>3 DEF Sound
<1> QED
  BY <1>2, <1>4 DEF h

LEMMA FounderRow ==
  ASSUME AccountsInvariant, Exists(Founder)
  PROVE  account[Founder].role = Super /\ account[Founder].status = "enabled"
BY RowFacts DEF AccountsInvariant, FounderStays, Exists

LEMMA ManageUserKept ==
  ASSUME AccountsInvariant, NEW k \in Handlers, NEW me \in Users, NEW u \in Users,
         ManageUser(k, me, u)
  PROVE  AccountsInvariant'
<1> DEFINE role == account[u].role
           status == account[u].status
<1>1. Exists(u)
  BY DEF ManageUser
<1>2. PICK h \in Managed(session[me], u) : Takes(k, h)
  BY DEF ManageUser
<1>3. role \in Roles /\ status \in Statuses
  BY <1>1, ExistsFacts, TypeFacts, ThereFacts DEF AccountsInvariant
<1>4. u = Founder => role = Super /\ status = "enabled"
  BY <1>1, FounderRow
<1>5. Admin \in Roles /\ Common \in Roles /\ "enabled" \in Statuses /\ "disabled" \in Statuses
  BY DEF Roles, Statuses
<1>6. \/ h = Copy(u, role, "enabled", {"status"})
      \/ h = Copy(u, role, status, {})
      \/ role # Super /\ h = Copy(u, role, "disabled", {"status"})
      \/ role # Super /\ h = [Copy(u, role, status, {}) EXCEPT !.at = "delete"]
      \/ role < Admin /\ h = Copy(u, Admin, status, {"role"})
      \/ role # Super /\ h = Copy(u, Common, status, {"role"})
  BY <1>2 DEF Managed
<1>7. role < Admin => role # Super
  BY RoleFacts
<1> HIDE DEF role, status
<1>8. \A r \in Roles, t \in Statuses, asks \in SUBSET {"role", "status"} :
        /\ "role" \in asks \/ r = role
        /\ "status" \in asks \/ t = status
        /\ u = Founder => r = Super /\ t = "enabled"
        => Copy(u, r, t, asks) \in Handling /\ Sound(account, Copy(u, r, t, asks))
  BY <1>1, CopySound DEF role, status
<1>9. h \in Handling /\ Sound(account, h)
  <2>1. CASE h = Copy(u, role, "enabled", {"status"})
    BY <1>3, <1>4, <1>5, <1>8, <2>1
  <2>2. CASE h = Copy(u, role, status, {})
    BY <1>3, <1>4, <1>8, <2>2
  <2>3. CASE role # Super /\ h = Copy(u, role, "disabled", {"status"})
    BY <1>3, <1>4, <1>5, <1>8, <2>3
  <2>4. CASE role # Super /\ h = [Copy(u, role, status, {}) EXCEPT !.at = "delete"]
    <3> DEFINE c == Copy(u, role, status, {})
    <3>1. c \in Handling /\ Sound(account, c)
      BY <1>3, <1>4, <1>8
    <3>2. c.at = "save" /\ c.user = u
      BY DEF Copy
    <3>3. h = [c EXCEPT !.at = "delete"]
      BY <2>4
    <3> HIDE DEF c
    <3>4. /\ h \in Handling /\ h.at = "delete" /\ h.asks = c.asks /\ h.copied = c.copied
          /\ h.old = c.old /\ h.role = c.role /\ h.status = c.status /\ h.user = c.user
      BY <3>1, <3>3 DEF Handling
    <3> QED
      BY <1>4, <2>4, <3>1, <3>2, <3>4 DEF Sound
  <2>5. CASE role < Admin /\ h = Copy(u, Admin, status, {"role"})
    BY <1>3, <1>4, <1>5, <1>7, <1>8, <2>5
  <2>6. CASE role # Super /\ h = Copy(u, Common, status, {"role"})
    BY <1>3, <1>4, <1>5, <1>8, <2>6
  <2> QED
    BY <1>6, <2>1, <2>2, <2>3, <2>4, <2>5, <2>6
<1> QED
  BY <1>2, <1>9, TakesKept

LEMMA UpdateUserKept ==
  ASSUME AccountsInvariant, NEW k \in Handlers, NEW me \in Users, NEW u \in Users,
         UpdateUser(k, me, u)
  PROVE  AccountsInvariant'
<1>1. Exists(u) /\ session[me] > account[u].role
  BY DEF UpdateUser
<1>2. u # Founder /\ account[u] # Unborn
  BY <1>1, FounderAbove, ExistsFacts DEF AccountsInvariant
<1>3. PICK role \in {Nobody, Common, Admin}, status \in {"same", "enabled", "disabled"} :
        Takes(k, [asks |-> {f \in {"role", "status"} : IF f = "role" THEN role # Nobody
                                                        ELSE status # "same"},
                  at |-> "save", copied |-> FALSE, old |-> FALSE, role |-> role,
                  status |-> status, user |-> u])
  BY DEF UpdateUser
<1> DEFINE asks == {f \in {"role", "status"} : IF f = "role" THEN role # Nobody ELSE status # "same"}
           h == [asks |-> asks, at |-> "save", copied |-> FALSE, old |-> FALSE, role |-> role,
                 status |-> status, user |-> u]
<1>4. Takes(k, h)
  BY <1>3
<1>5. /\ asks \in SUBSET {"role", "status"}
      /\ "role" \in asks \/ role = Nobody
      /\ "status" \in asks \/ status = "same"
  OBVIOUS
<1> HIDE DEF asks
<1>6. h \in Handling
  BY <1>5 DEF Handling
<1>7. Sound(account, h)
  BY <1>2, <1>5 DEF Sound
<1> HIDE DEF h
<1> QED
  BY <1>4, <1>6, <1>7, TakesKept

LEMMA WriteBackKept ==
  ASSUME AccountsInvariant, NEW k \in Handlers, NEW me \in Users, WriteBack(k, me)
  PROVE  AccountsInvariant'
<1>1. Exists(me) /\ Takes(k, Copy(me, account[me].role, account[me].status, {}))
  BY DEF WriteBack
<1>2. account[me].role \in Roles /\ account[me].status \in Statuses
  BY <1>1, ExistsFacts, TypeFacts, ThereFacts DEF AccountsInvariant
<1>3. me = Founder => account[me].role = Super /\ account[me].status = "enabled"
  BY <1>1, FounderRow
<1>4. /\ Copy(me, account[me].role, account[me].status, {}) \in Handling
      /\ Sound(account, Copy(me, account[me].role, account[me].status, {}))
  BY <1>1, <1>2, <1>3, CopySound
<1> QED
  BY <1>1, <1>4, TakesKept

LEMMA UpdateSelfKept ==
  ASSUME AccountsInvariant, NEW k \in Handlers, NEW me \in Users, UpdateSelf(k, me)
  PROVE  AccountsInvariant'
<1> DEFINE h == [Idle EXCEPT !.at = "save", !.user = me]
<1>1. Takes(k, h) /\ session[me] >= Common
  BY DEF UpdateSelf, Authorized
<1>2. account[me] # Unborn
  BY <1>1, RoleFacts DEF AccountsInvariant, SessionsBorn
<1>3. /\ h.at = "save" /\ h.user = me /\ ~h.copied /\ h.role = Nobody /\ h.status = "same"
      /\ h \in Handling
  BY AccountsAssumption DEF Idle, Handling
<1> HIDE DEF h
<1>4. Sound(account, h)
  BY <1>2, <1>3 DEF Sound
<1> QED
  BY <1>1, <1>3, <1>4, TakesKept

LEMMA DeleteUserKept ==
  ASSUME AccountsInvariant, NEW k \in Handlers, NEW me \in Users, NEW u \in Users,
         DeleteUser(k, me, u)
  PROVE  AccountsInvariant'
<1> DEFINE h == [Idle EXCEPT !.at = "deleteonly", !.user = u]
<1>1. Takes(k, h) /\ Exists(u) /\ session[me] > account[u].role
  BY DEF DeleteUser
<1>2. u # Founder /\ account[u] # Unborn
  BY <1>1, FounderAbove, ExistsFacts DEF AccountsInvariant
<1>3. /\ h.at = "deleteonly" /\ h.user = u /\ ~h.copied /\ h.role = Nobody /\ h.status = "same"
      /\ h \in Handling
  BY AccountsAssumption DEF Idle, Handling
<1> HIDE DEF h
<1>4. Sound(account, h)
  BY <1>2, <1>3 DEF Sound
<1> QED
  BY <1>1, <1>3, <1>4, TakesKept

-----------------------------------------------------------------------------
(* Writes                                                                   *)

LEMMA NewAccountKept ==
  ASSUME AccountsInvariant, NEW u \in Users, NewAccount(u),
         session' = session \/ session' = [session EXCEPT ![u] = NewRow.role]
  PROVE  AccountsInvariant'
<1>1. /\ AccountsTypeOK /\ SessionsBorn /\ GoneAsked /\ FounderStays /\ LastWordKept
      /\ \A j \in Handlers : Sound(account, handler[j])
  BY DEF AccountsInvariant, AllSound
<1>2. /\ account[u] = Unborn /\ account' = [account EXCEPT ![u] = NewRow]
      /\ asked' = [asked EXCEPT ![u] = NewRow] /\ writes' = writes + 1
      /\ UNCHANGED <<rolledBack, swallowed, handler>>
  BY DEF NewAccount
<1>3. /\ account \in [Users -> Accounts] /\ asked \in [Users -> Accounts]
      /\ session \in [Users -> {Nobody, Common, Admin, Super}]
      /\ handler \in [Handlers -> Handling] /\ writes \in Nat
  BY <1>1, TypeFacts
<1>4. u # Founder
  BY <1>1, <1>2, RowFacts DEF FounderStays
<1>5. /\ account' \in [Users -> Accounts] /\ asked' \in [Users -> Accounts] /\ writes' \in Nat
      /\ session' \in [Users -> {Nobody, Common, Admin, Super}]
  BY <1>2, <1>3, RowFacts
<1>6. AccountsTypeOK'
  BY <1>1, <1>2, <1>3, <1>5 DEF AccountsTypeOK
<1>7. SessionsBorn'
  BY <1>1, <1>2, <1>3, RowFacts DEF SessionsBorn
<1>8. GoneAsked'
  BY <1>1, <1>2, <1>3, RowFacts DEF GoneAsked
<1>9. FounderStays'
  BY <1>1, <1>2, <1>4 DEF FounderStays
<1>10. AllSound'
  <2> SUFFICES ASSUME NEW j \in Handlers PROVE Sound(account', handler[j])
    BY <1>2 DEF AllSound
  <2>1. handler[j] \in Handling /\ handler[j].user \in Users /\ Sound(account, handler[j])
    BY <1>1, <1>3 DEF Handling
  <2>2. CASE handler[j].user # u
    <3>1. account'[handler[j].user] = account[handler[j].user]
      BY <1>2, <1>3, <2>1, <2>2
    <3> QED
      BY <2>1, <3>1, SoundElsewhere
  <2>3. CASE handler[j].user = u
    <3>1. ~handler[j].copied
      BY <1>2, <2>1, <2>3 DEF Sound
    <3>2. account'[u] # Unborn
      BY <1>2, <1>3, RowFacts
    <3> QED
      BY <2>1, <2>3, <3>1, <3>2, SoundOld
  <2> QED
    BY <2>2, <2>3
<1>11. LastWordKept'
  BY <1>1, <1>2, <1>3, <1>4, AccountsAssumption DEF LastWordKept
<1> QED
  BY <1>6, <1>7, <1>8, <1>9, <1>10, <1>11 DEF AccountsInvariant

LEMMA DeleteSelfKept ==
  ASSUME AccountsInvariant, NEW u \in Users, DeleteSelf(u)
  PROVE  AccountsInvariant'
<1>1. /\ AccountsTypeOK /\ SessionsBorn /\ GoneAsked /\ FounderStays /\ LastWordKept
      /\ \A j \in Handlers : Sound(account, handler[j])
  BY DEF AccountsInvariant, AllSound
<1>2. /\ account' = [account EXCEPT ![u] = Gone] /\ asked' = [asked EXCEPT ![u] = Gone]
      /\ writes' = writes + 1 /\ UNCHANGED <<session, rolledBack, swallowed, handler>>
  BY DEF DeleteSelf
<1>3. /\ account \in [Users -> Accounts] /\ asked \in [Users -> Accounts]
      /\ handler \in [Handlers -> Handling] /\ writes \in Nat
  BY <1>1, TypeFacts
<1>4. account' \in [Users -> Accounts] /\ asked' \in [Users -> Accounts] /\ writes' \in Nat
  BY <1>2, <1>3, RowFacts
<1>5. AccountsTypeOK'
  BY <1>1, <1>2, <1>4 DEF AccountsTypeOK
<1>6. SessionsBorn' /\ GoneAsked'
  BY <1>1, <1>2, <1>3, RowFacts DEF SessionsBorn, GoneAsked
<1>7. FounderStays'
  BY <1>1, <1>2, <1>3, AccountsAssumption DEF FounderStays
<1>8. AllSound'
  <2> SUFFICES ASSUME NEW j \in Handlers PROVE Sound(account', handler[j])
    BY <1>2 DEF AllSound
  <2>1. handler[j] \in Handling /\ handler[j].user \in Users /\ Sound(account, handler[j])
    BY <1>1, <1>3 DEF Handling
  <2>2. CASE handler[j].user # u
    <3>1. account'[handler[j].user] = account[handler[j].user]
      BY <1>2, <1>3, <2>1, <2>2
    <3> QED
      BY <2>1, <3>1, SoundElsewhere
  <2>3. CASE handler[j].user = u
    <3>1. account'[handler[j].user] = Gone
      BY <1>2, <1>3, <2>1, <2>3
    <3> QED
      BY <2>1, <3>1, SoundGone
  <2> QED
    BY <2>2, <2>3
<1>9. LastWordKept'
  BY <1>1, <1>2, <1>3, AccountsAssumption DEF LastWordKept
<1> QED
  BY <1>5, <1>6, <1>7, <1>8, <1>9 DEF AccountsInvariant

\* The locals of the other requests after a write.
LEMMA OutdateFacts ==
  ASSUME AccountsTypeOK, NEW k \in Handlers, NEW u \in Users, NEW changed \in BOOLEAN,
         NEW local \in Handling, Outdate(k, u, changed, local)
  PROVE  /\ handler' \in [Handlers -> Handling] /\ handler'[k] = local
         /\ \A j \in Handlers \ {k} :
              \/ handler'[j] = handler[j] /\ (~changed \/ ~handler[j].copied \/ handler[j].user # u)
              \/ handler'[j] = handler[j] /\ handler[j].old
              \/ handler'[j] = [handler[j] EXCEPT !.old = TRUE]
<1>1. handler \in [Handlers -> Handling]
  BY TypeFacts
<1> DEFINE New(j) == IF j = k THEN local
                     ELSE [handler[j] EXCEPT !.old = handler[j].old \/ (changed /\ handler[j].copied
                                                                       /\ handler[j].user = u)]
<1>2. handler' = [j \in Handlers |-> New(j)]
  BY DEF Outdate
<1>3. ASSUME NEW j \in Handlers \ {k}
      PROVE  /\ New(j) \in Handling
             /\ \/ New(j) = handler[j] /\ (~changed \/ ~handler[j].copied \/ handler[j].user # u)
                \/ New(j) = handler[j] /\ handler[j].old
                \/ New(j) = [handler[j] EXCEPT !.old = TRUE]
  <2> DEFINE h == handler[j]
             old == h.old \/ (changed /\ h.copied /\ h.user = u)
  <2>1. h \in Handling /\ h.old \in BOOLEAN /\ h.copied \in BOOLEAN
    BY <1>1 DEF Handling
  <2>2. New(j) = [h EXCEPT !.old = old]
    BY DEF New
  <2>3. CASE old
    <3>1. New(j) = [h EXCEPT !.old = TRUE]
      BY <2>2, <2>3
    <3>2. [h EXCEPT !.old = TRUE] \in Handling
      BY <2>1 DEF Handling
    <3> QED
      BY <3>1, <3>2
  <2>4. CASE ~old
    <3>1. New(j) = [h EXCEPT !.old = FALSE] /\ h.old = FALSE
      BY <2>1, <2>2, <2>4
    <3>2. [h EXCEPT !.old = FALSE] = h
      BY <2>1, <3>1 DEF Handling
    <3> QED
      BY <2>1, <2>4, <3>1, <3>2
  <2> QED
    BY <2>3, <2>4
<1> HIDE DEF New
<1>4. New(k) = local
  BY DEF New
<1>5. \A j \in Handlers : New(j) \in Handling
  BY <1>3, <1>4
<1> QED
  BY <1>2, <1>3, <1>4, <1>5

\* A write of a row keeps the other requests sound.
LEMMA OthersSound ==
  ASSUME AccountsInvariant, NEW k \in Handlers, NEW u \in Users, NEW changed \in BOOLEAN,
         NEW local \in Handling, Outdate(k, u, changed, local),
         \A v \in Users \ {u} : account'[v] = account[v],
         ~changed => account'[u] = account[u],
         account[u] # Unborn => account'[u] # Unborn
  PROVE  \A j \in Handlers \ {k} : Sound(account', handler'[j])
<1> SUFFICES ASSUME NEW j \in Handlers \ {k} PROVE Sound(account', handler'[j])
  OBVIOUS
<1>1. AccountsTypeOK /\ Sound(account, handler[j])
  BY DEF AccountsInvariant, AllSound
<1>2. handler[j] \in Handling /\ handler[j].user \in Users
  BY <1>1, TypeFacts DEF Handling
<1>3. \/ handler'[j] = handler[j] /\ (~changed \/ ~handler[j].copied \/ handler[j].user # u)
      \/ handler'[j] = handler[j] /\ handler[j].old
      \/ handler'[j] = [handler[j] EXCEPT !.old = TRUE]
  BY <1>1, OutdateFacts
<1>4. CASE handler'[j] = handler[j] /\ (~changed \/ handler[j].user # u)
  BY <1>1, <1>2, <1>4, SoundElsewhere
<1>5. CASE handler'[j] = handler[j] /\ (~handler[j].copied \/ handler[j].old)
  <2>1. account[handler[j].user] # Unborn => account'[handler[j].user] # Unborn
    BY <1>2
  <2> QED
    BY <1>1, <1>2, <1>5, <2>1, SoundOld
<1>6. CASE handler'[j] = [handler[j] EXCEPT !.old = TRUE]
  <2> DEFINE h == handler[j]
             n == [h EXCEPT !.old = TRUE]
  <2>1. /\ n \in Handling /\ n.old /\ n.at = h.at /\ n.asks = h.asks /\ n.copied = h.copied
        /\ n.role = h.role /\ n.status = h.status /\ n.user = h.user
    BY <1>2 DEF Handling
  <2>2. account[n.user] # Unborn => account'[n.user] # Unborn
    BY <1>2, <2>1
  <2> HIDE DEF n
  <2>3. Sound(account, n)
    BY <1>1, <2>1 DEF Sound
  <2>4. Sound(account', n)
    BY <2>1, <2>2, <2>3, SoundOld
  <2> QED
    BY <1>6, <2>4 DEF n
<1> QED
  BY <1>3, <1>4, <1>5, <1>6

LEMMA DeleteRowKept ==
  ASSUME AccountsInvariant, NEW k \in Handlers, DeleteRow(k)
  PROVE  AccountsInvariant'
<1> DEFINE h == handler[k]
           u == h.user
           local == IF h.at = "delete" THEN [h EXCEPT !.at = "save"] ELSE Idle
<1>1. /\ AccountsTypeOK /\ SessionsBorn /\ GoneAsked /\ FounderStays /\ LastWordKept
      /\ Sound(account, h)
  BY DEF AccountsInvariant, AllSound
<1>2. /\ account \in [Users -> Accounts] /\ asked \in [Users -> Accounts] /\ writes \in Nat
      /\ h \in Handling /\ u \in Users
  BY <1>1, TypeFacts DEF Handling
<1>3. /\ h.at \in {"delete", "deleteonly"} /\ Outdate(k, u, TRUE, local)
      /\ asked' = [asked EXCEPT ![u] = Gone] /\ writes' = writes + 1
      /\ UNCHANGED <<session, rolledBack>>
  BY DEF DeleteRow
<1>4. u # Founder /\ account[u] # Unborn
  BY <1>1, <1>3 DEF Sound
<1>5. local \in Handling /\ Sound(account, local)
  <2>1. CASE h.at = "delete"
    <3> DEFINE n == [h EXCEPT !.at = "save"]
    <3>1. /\ n \in Handling /\ n.at = "save" /\ n.asks = h.asks /\ n.copied = h.copied
          /\ n.old = h.old /\ n.role = h.role /\ n.status = h.status /\ n.user = h.user
      BY <1>2 DEF Handling
    <3>2. local = n
      BY <2>1
    <3> HIDE DEF n, local, h
    <3>3. n.user # Founder
      BY <1>4, <3>1
    <3>4. Sound(account, n)
      BY <1>1, <1>3, <3>1, <3>3 DEF Sound
    <3> QED
      BY <3>1, <3>2, <3>4
  <2>2. CASE h.at # "delete"
    BY <2>2, IdleFacts, SoundIdle
  <2> QED
    BY <2>1, <2>2
<1>6. \/ account' = [account EXCEPT ![u] = Gone] /\ UNCHANGED swallowed
      \/ h.at = "deleteonly" /\ swallowed' = TRUE /\ UNCHANGED account
  BY DEF DeleteRow
<1>7. handler' \in [Handlers -> Handling] /\ handler'[k] = local
  BY <1>1, <1>2, <1>3, <1>5, OutdateFacts
<1>8. asked' \in [Users -> Accounts] /\ account' \in [Users -> Accounts] /\ writes' \in Nat
  BY <1>2, <1>3, <1>6, RowFacts
<1>9. AccountsTypeOK'
  <2>1. swallowed' \in BOOLEAN
    BY <1>1, <1>6 DEF AccountsTypeOK
  <2> QED
    BY <1>1, <1>3, <1>7, <1>8, <2>1 DEF AccountsTypeOK
<1>10. account'[u] # Unborn /\ \A v \in Users \ {u} : account'[v] = account[v]
  BY <1>2, <1>4, <1>6, RowFacts
<1>11. SessionsBorn' /\ GoneAsked'
  BY <1>1, <1>2, <1>3, <1>10, RowFacts DEF SessionsBorn, GoneAsked
<1>12. account'[Founder] = account[Founder] /\ asked'[Founder] = asked[Founder]
  BY <1>2, <1>3, <1>4, <1>10, AccountsAssumption
<1>13. FounderStays'
  BY <1>1, <1>12 DEF FounderStays
<1>14. AllSound'
  <2>1. \A j \in Handlers \ {k} : Sound(account', handler'[j])
    BY <1>2, <1>3, <1>4, <1>5, <1>10, OthersSound
  <2>2. Sound(account', local)
    <3>1. CASE account' = account
      BY <1>5, <3>1
    <3>2. CASE h.at # "delete"
      BY <3>2, SoundIdle
    <3>3. CASE h.at = "delete" /\ account' # account
      <4>1. local.user = u /\ account'[u] = Gone
        BY <1>2, <1>6, <3>3 DEF Handling
      <4> QED
        BY <1>5, <4>1, SoundGone
    <3> QED
      BY <3>1, <3>2, <3>3
  <2> QED
    BY <1>7, <2>1, <2>2 DEF AllSound
<1>15. LastWordKept'
  <2>1. CASE swallowed'
    BY <2>1 DEF LastWordKept
  <2>2. CASE ~swallowed'
    <3>1. ~swallowed /\ account'[u] = Gone
      BY <1>2, <1>6, <2>2
    <3> QED
      BY <1>1, <1>2, <1>3, <1>10, <1>12, <3>1 DEF LastWordKept
  <2> QED
    BY <2>1, <2>2
<1> QED
  BY <1>9, <1>11, <1>13, <1>14, <1>15 DEF AccountsInvariant

\* A request that is not old writes what it asks for and what the row has.
LEMMA WritesWhatItAsks ==
  ASSUME NEW h \in Handling, Sound(account, h), ~h.old, account[h.user].role # Nobody
  PROVE  Written(account[h.user], h, {"role", "status"}) = Written(account[h.user], h, h.asks)
<1>1. h.copied => /\ "role" \in h.asks \/ h.role = account[h.user].role
                  /\ "status" \in h.asks \/ h.status = account[h.user].status
  BY DEF Sound
<1>2. ~h.copied => /\ "role" \in h.asks \/ h.role = Nobody
                   /\ "status" \in h.asks \/ h.status = "same"
  BY DEF Sound
<1> QED
  BY <1>1, <1>2 DEF Written

LEMMA SaveKept ==
  ASSUME AccountsInvariant, NEW k \in Handlers, Save(k)
  PROVE  AccountsInvariant'
<1> DEFINE h == handler[k]
           u == h.user
           row == Written(account[u], h, {"role", "status"})
<1>1. /\ AccountsTypeOK /\ SessionsBorn /\ GoneAsked /\ FounderStays /\ LastWordKept
      /\ Sound(account, h)
  BY DEF AccountsInvariant, AllSound
<1>2. /\ account \in [Users -> Accounts] /\ asked \in [Users -> Accounts] /\ writes \in Nat
      /\ h \in Handling /\ u \in Users /\ Idle \in Handling
  BY <1>1, TypeFacts, IdleFacts DEF Handling
<1>3. /\ h.at = "save"
      /\ account' = [account EXCEPT ![u] = IF Exists(u) THEN row ELSE account[u]]
      /\ asked' = [asked EXCEPT ![u] = IF asked[u] = Gone THEN asked[u]
                                        ELSE Written(asked[u], h, h.asks)]
      /\ writes' = writes + 1 /\ UNCHANGED <<session, swallowed>>
  BY DEF Save
<1>4. /\ rolledBack' = [rolledBack EXCEPT ![u] = rolledBack[u] \/ (Exists(u) /\ h.old)]
      /\ Outdate(k, u, account'[u] # account[u], Idle)
  BY DEF Save
<1>5. account[u] # Unborn /\ asked[u] # Unborn
  BY <1>1, <1>2, <1>3 DEF Sound, GoneAsked
<1>6. Exists(u) <=> account[u] # Gone
  BY <1>1, <1>2, <1>5, ExistsFacts
<1>7. Exists(u) => row \in Accounts \ {Gone, Unborn}
  BY <1>2, <1>5, <1>6, WrittenFacts
<1>8. asked[u] # Gone => Written(asked[u], h, h.asks) \in Accounts \ {Gone, Unborn}
  BY <1>2, <1>5, WrittenFacts
<1> HIDE DEF row
<1>9. /\ account' \in [Users -> Accounts] /\ asked' \in [Users -> Accounts] /\ writes' \in Nat
      /\ account'[u] # Unborn /\ asked'[u] # Unborn
      /\ account'[u] = Gone <=> account[u] = Gone
      /\ asked'[u] = Gone <=> asked[u] = Gone
      /\ \A v \in Users \ {u} : account'[v] = account[v] /\ asked'[v] = asked[v]
  BY <1>2, <1>3, <1>5, <1>6, <1>7, <1>8
<1>10. /\ handler' \in [Handlers -> Handling] /\ handler'[k] = Idle
       /\ \A j \in Handlers \ {k} : Sound(account', handler'[j])
  <2>1. \A v \in Users \ {u} : account'[v] = account[v]
    BY <1>9
  <2>2. account[u] # Unborn => account'[u] # Unborn
    BY <1>9
  <2>3. CASE account'[u] # account[u]
    <3>1. Outdate(k, u, TRUE, Idle)
      BY <1>4, <2>3
    <3>2. handler' \in [Handlers -> Handling] /\ handler'[k] = Idle
      BY <1>1, <1>2, <3>1, OutdateFacts
    <3>3. \A j \in Handlers \ {k} : Sound(account', handler'[j])
      BY <1>2, <2>1, <2>2, <3>1, OthersSound
    <3> QED
      BY <3>2, <3>3
  <2>4. CASE account'[u] = account[u]
    <3>1. Outdate(k, u, FALSE, Idle)
      BY <1>4, <2>4
    <3>2. handler' \in [Handlers -> Handling] /\ handler'[k] = Idle
      BY <1>1, <1>2, <3>1, OutdateFacts
    <3>3. \A j \in Handlers \ {k} : Sound(account', handler'[j])
      BY <1>2, <2>1, <2>2, <2>4, <3>1, OthersSound
    <3> QED
      BY <3>2, <3>3
  <2> QED
    BY <2>3, <2>4
<1>11. AccountsTypeOK'
  <2>1. rolledBack \in [Users -> BOOLEAN] /\ swallowed \in BOOLEAN
    BY <1>1 DEF AccountsTypeOK
  <2>2. rolledBack' \in [Users -> BOOLEAN]
    BY <1>4, <2>1
  <2> QED
    BY <1>1, <1>3, <1>9, <1>10, <2>1, <2>2 DEF AccountsTypeOK
<1>12. SessionsBorn' /\ GoneAsked'
  BY <1>1, <1>3, <1>5, <1>9 DEF SessionsBorn, GoneAsked
<1>13. AllSound'
  BY <1>10, SoundIdle DEF AllSound
<1>14. account'[Founder] = account[Founder]
  <2>1. CASE u # Founder
    BY <1>9, <2>1, AccountsAssumption
  <2>2. CASE u = Founder /\ ~Exists(u)
    BY <1>2, <1>3, <2>2
  <2>3. CASE u = Founder /\ Exists(u)
    <3>1. account[u] = RootRow
      BY <1>1, <1>6, <2>3 DEF FounderStays
    <3>2. h.role \in {Nobody, Super} /\ h.status \in {"same", "enabled"}
      BY <1>1, <2>3 DEF Sound
    <3>3. row = RootRow
      BY <3>1, <3>2, RowFacts DEF row, Written, RootRow
    <3> QED
      BY <1>2, <1>3, <2>3, <3>1, <3>3
  <2> QED
    BY <2>1, <2>2, <2>3
<1>15. FounderStays'
  BY <1>1, <1>14 DEF FounderStays
<1>16. LastWordKept'
  <2> SUFFICES ASSUME ~swallowed'
               PROVE  /\ \A v \in Users : ~rolledBack'[v] \/ asked'[v] = Gone => account'[v] = asked'[v]
                      /\ asked'[Founder] # Gone => account'[Founder] = RootRow
    BY DEF LastWordKept
  <2>1. /\ ~swallowed
        /\ \A v \in Users : ~rolledBack[v] \/ asked[v] = Gone => account[v] = asked[v]
        /\ asked[Founder] # Gone => account[Founder] = RootRow
    BY <1>1, <1>3 DEF LastWordKept
  <2>2. asked'[Founder] # Gone => account'[Founder] = RootRow
    BY <1>9, <1>14, <2>1, AccountsAssumption
  <2>3. rolledBack \in [Users -> BOOLEAN]
    BY <1>1 DEF AccountsTypeOK
  <2>4. ASSUME NEW v \in Users, v # u, ~rolledBack'[v] \/ asked'[v] = Gone
        PROVE  account'[v] = asked'[v]
    <3>1. rolledBack'[v] = rolledBack[v]
      BY <1>4, <2>3, <2>4
    <3> QED
      BY <1>9, <2>1, <2>4, <3>1
  <2>5. ASSUME ~rolledBack'[u] \/ asked'[u] = Gone
        PROVE  account'[u] = asked'[u]
    <3>1. CASE asked[u] = Gone
      <4>1. account[u] = Gone
        BY <1>2, <2>1, <3>1
      <4> QED
        BY <1>9, <3>1, <4>1
    <3>2. CASE asked[u] # Gone
      <4>1. ~rolledBack'[u] /\ asked'[u] = Written(asked[u], h, h.asks)
        BY <1>2, <1>3, <1>9, <2>5, <3>2
      <4>2. ~rolledBack[u] /\ ~(Exists(u) /\ h.old)
        BY <1>2, <1>4, <2>3, <4>1
      <4>3. account[u] = asked[u]
        BY <1>2, <2>1, <4>2
      <4>4. Exists(u) /\ ~h.old
        BY <1>6, <3>2, <4>2, <4>3
      <4>5. row = Written(account[u], h, h.asks)
        BY <1>1, <1>2, <4>4, WritesWhatItAsks DEF Exists, row
      <4> QED
        BY <1>2, <1>3, <4>1, <4>3, <4>4, <4>5
    <3> QED
      BY <3>1, <3>2
  <2> QED
    BY <2>2, <2>4, <2>5
<1> QED
  BY <1>11, <1>12, <1>13, <1>15, <1>16 DEF AccountsInvariant

-----------------------------------------------------------------------------
(* The specification                                                        *)

\* A copy that is not old has what the row has, a request without a copy writes only
\* what it asks for, and no request would change the founder.
THEOREM AccountsInvariantHolds == AccountsSpec => []AccountsInvariant
<1>1. AccountsInvariant /\ [AccountsNext]_accountsVars => AccountsInvariant'
  <2> SUFFICES ASSUME AccountsInvariant, [AccountsNext]_accountsVars
               PROVE  AccountsInvariant'
    OBVIOUS
  <2>1. ASSUME NEW u \in Users, NewAccount(u), UNCHANGED session PROVE AccountsInvariant'
    BY <2>1, NewAccountKept
  <2>2. ASSUME NEW u \in Users, SignIn(u) PROVE AccountsInvariant'
    BY <2>2, SessionKept, NewAccountKept DEF SignIn
  <2>3. ASSUME NEW u \in Users,
               \/ Login(u) \/ Logout(u) \/ Register(u) \/ WeChatAuth(u) \/ GitHubOAuth(u)
               \/ DeleteSelf(u)
        PROVE  AccountsInvariant'
    BY <2>1, <2>2, <2>3, SessionKept, DeleteSelfKept DEF Login, Register, WeChatAuth, GitHubOAuth
  <2>4. ASSUME NEW me \in Users, NEW u \in Users, CreateUser(me, u) PROVE AccountsInvariant'
    BY <2>1, <2>4 DEF CreateUser
  <2>5. ASSUME NEW k \in Handlers, NEW me \in Users,
               \/ UpdateSelf(k, me) \/ GenerateToken(k, me) \/ EmailBind(k, me)
               \/ WeChatBind(k, me) \/ GitHubBind(k, me)
        PROVE  AccountsInvariant'
    BY <2>5, UpdateSelfKept, WriteBackKept DEF GenerateToken, EmailBind, WeChatBind, GitHubBind
  <2>6. ASSUME NEW k \in Handlers, NEW me \in Users, NEW u \in Users,
               ManageUser(k, me, u) \/ UpdateUser(k, me, u) \/ DeleteUser(k, me, u)
        PROVE  AccountsInvariant'
    BY <2>6, ManageUserKept, UpdateUserKept, DeleteUserKept
  <2>7. ASSUME NEW k \in Handlers, Save(k) \/ DeleteRow(k) \/ Refuse(k) PROVE AccountsInvariant'
    BY <2>7, SaveKept, DeleteRowKept, RefuseKept
  <2>8. CASE UNCHANGED accountsVars
    <3>1. SessionsBorn'
      BY <2>8, BornSame DEF accountsVars, AccountsInvariant
    <3>2. session' \in [Users -> {Nobody, Common, Admin, Super}] /\ handler' \in [Handlers -> Handling]
      BY <2>8, TypeFacts DEF accountsVars, AccountsInvariant
    <3>3. \A k \in Handlers : Sound(account, handler'[k])
      BY <2>8 DEF accountsVars, AccountsInvariant, AllSound
    <3>4. UNCHANGED <<account, asked, rolledBack, swallowed, writes>>
      BY <2>8 DEF accountsVars
    <3> QED
      BY <3>1, <3>2, <3>3, <3>4, SameRows
  <2> QED
    BY <2>3, <2>4, <2>5, <2>6, <2>7, <2>8 DEF AccountsNext
<1> QED
  BY <1>1, AccountsInitially, PTL DEF AccountsSpec

\* Every variable keeps to its range; no field of a row of model/user.go:100 is emptied.
THEOREM AccountsTypeCorrect == AccountsSpec => []AccountsTypeOK
<1>1. AccountsInvariant => AccountsTypeOK
  BY DEF AccountsInvariant
<1> QED
  BY <1>1, AccountsInvariantHolds, PTL

\* controller/user.go:600: role and status are what acknowledged requests have asked
\* for, until a request writes back an old copy; a deleted account stays deleted, and
\* the founder an enabled root.
THEOREM LastWordKeptHolds == AccountsSpec => []LastWordKept
<1>1. AccountsInvariant => LastWordKept
  BY DEF AccountsInvariant
<1> QED
  BY <1>1, AccountsInvariantHolds, PTL

-----------------------------------------------------------------------------
(* Verification: the data                                                   *)

LEMMA PairFacts ==
  /\ \A a \in Addresses : <<"v", a>> \in Pairs /\ <<"r", a>> \in Pairs
  /\ \A key \in Pairs : key[2] \in Addresses
BY DEF Pairs

LEMMA NoCodeFacts ==
  NoCode \in Entries /\ NoCode.code = 0
BY VerificationAssumption DEF NoCode, Entries, Codes

LEMMA ElsewhereFacts ==
  Elsewhere \in Presented /\ Elsewhere.at = "away" /\ Elsewhere.code = 0
BY DEF Elsewhere, Presented

LEMMA EntryFacts ==
  ASSUME NEW entry \in Entries
  PROVE  entry.code \in Nat /\ entry.time \in Nat
BY VerificationAssumption DEF Entries, Codes

\* What removeExpiredPairs leaves is what was there and has not expired.
LEMMA TrimmedFacts ==
  ASSUME NEW map \in [Pairs -> Entries], NEW new \in Pairs
  PROVE  /\ Trimmed(map, new) \in [Pairs -> Entries]
         /\ \A key \in Pairs : \/ Trimmed(map, new)[key] = map[key]
                               \/ Trimmed(map, new)[key] = NoCode /\ Expired(map[key])
BY NoCodeFacts DEF Trimmed

-----------------------------------------------------------------------------
(* The invariant                                                            *)

\* A request at work has presented a code for some key; one that is to save an address
\* does so for an account.
Presents ==
  \A k \in Presenters : present[k].at # "away" =>
    /\ present[k].code # 0 /\ present[k].for \in Pairs
    /\ present[k].at \in {"insert", "bind"} => present[k].who \in People

\* Codes are numbered as they are sent.
Numbered ==
  /\ \A key \in Pairs : pairs[key].code <= codes
  /\ \A k \in Presenters : present[k].code <= codes
  /\ \A code \in spent : code <= codes

\* A code is for one key, in the map and with those that present it.
OneKey ==
  /\ \A one, other \in Pairs :
       pairs[one].code # 0 /\ pairs[one].code = pairs[other].code => one = other
  /\ \A k \in Presenters, key \in Pairs :
       present[k].code # 0 /\ pairs[key].code = present[k].code => key = present[k].for

\* A code whose reset was answered is gone from the map.
Unspent == \A key \in Pairs : pairs[key].code \notin spent

\* The last code sent is there, or over, or answered, or deleted with an older one.
LastHeld ==
  \A key \in Pairs \ deleted :
    \/ pairs[key] = latest[key]
    \/ latest[key].code \in spent \cup {0}
    \/ Expired(latest[key])

\* A code that is not shared is with one request until it is answered, and with none
\* afterwards.
SingleUse ==
  \A code \in Codes \ shared :
    /\ \A j, k \in Resetting(code) : j = k
    /\ code \in spent => Resetting(code) = {}

CodesInvariant ==
  /\ VerificationTypeOK
  /\ Presents /\ Numbered /\ OneKey /\ Unspent /\ LastHeld /\ SingleUse
  /\ ~respent /\ ~rewritten

\* All of the type invariant that concerns the codes and the requests.
LEMMA CodesTypeFacts ==
  ASSUME VerificationTypeOK
  PROVE  /\ now \in Nat /\ codes \in Nat /\ now \in 0 .. LastTime /\ codes \in 0 .. MaxCodes
         /\ pairs \in [Pairs -> Entries] /\ latest \in [Pairs -> Entries]
         /\ deleted \subseteq Pairs /\ spent \subseteq Codes /\ spent \subseteq Nat \ {0}
         /\ address \in [People -> Addresses \cup {"absent", "unset"}]
         /\ present \in [Presenters -> Presented]
         /\ \A k \in Presenters : present[k].code \in Nat
BY VerificationAssumption DEF VerificationTypeOK, Codes, Presented

LEMMA CodesBegin == VerificationInit => CodesInvariant
<1> SUFFICES ASSUME VerificationInit PROVE CodesInvariant
  OBVIOUS
<1>1. VerificationTypeOK
  <2>1. 0 \in 0 .. LastTime /\ 0 \in 0 .. MaxCodes
    BY VerificationAssumption
  <2>2. pairs \in [Pairs -> Entries] /\ latest \in [Pairs -> Entries]
    BY NoCodeFacts DEF VerificationInit
  <2>3. address \in [People -> Addresses \cup {"absent", "unset"}]
    BY DEF VerificationInit
  <2>4. present \in [Presenters -> Presented]
    BY ElsewhereFacts DEF VerificationInit
  <2> QED
    BY <2>1, <2>2, <2>3, <2>4 DEF VerificationInit, VerificationTypeOK
<1>2. Presents /\ Numbered /\ OneKey /\ Unspent
  BY NoCodeFacts, ElsewhereFacts
     DEF VerificationInit, Presents, Numbered, OneKey, Unspent
<1>3. LastHeld /\ ~respent /\ ~rewritten
  BY DEF VerificationInit, LastHeld
<1>4. SingleUse
  BY ElsewhereFacts DEF VerificationInit, SingleUse, Resetting
<1> QED
  BY <1>1, <1>2, <1>3, <1>4 DEF CodesInvariant

-----------------------------------------------------------------------------
(* Steps                                                                    *)

\* RegisterVerificationCodeWithKey: the new code is for its key only; another key's code
\* stays or has expired.
LEMMA RegisterCodeKeeps ==
  ASSUME CodesInvariant, NEW key \in Pairs, RegisterCode(key),
         UNCHANGED <<now, spent, respent, shared, rewritten, address, present, doubled>>
  PROVE  CodesInvariant'
<1> DEFINE entry == [code |-> codes + 1, time |-> now]
           map   == [pairs EXCEPT ![key] = entry]
<1> USE CodesTypeFacts DEF CodesInvariant
<1>1. entry \in Entries /\ entry.code = codes + 1 /\ entry.time = now
  BY VerificationAssumption DEF RegisterCode, Entries, Codes
<1>2. codes' = codes + 1 /\ codes + 1 \in 0 .. MaxCodes
  BY VerificationAssumption DEF RegisterCode
<1>3. /\ latest' = [latest EXCEPT ![key] = entry]
      /\ deleted' = deleted \ {key}
  BY DEF RegisterCode
<1>4. pairs' = map \/ pairs' = Trimmed(map, key)
  BY DEF RegisterCode
<1>5. map \in [Pairs -> Entries] /\ map[key] = entry
      /\ \A other \in Pairs : other # key => map[other] = pairs[other]
  BY <1>1
<1> HIDE DEF entry, map
<1>6. ~Expired(entry)
  BY <1>1, VerificationAssumption DEF Expired
<1>7. /\ pairs' \in [Pairs -> Entries] /\ pairs'[key] = entry
      /\ \A other \in Pairs : other # key =>
           \/ pairs'[other] = pairs[other]
           \/ pairs'[other] = NoCode /\ Expired(pairs[other])
  <2>1. CASE pairs' = map
    BY <1>5, <2>1
  <2>2. CASE pairs' = Trimmed(map, key)
    <3>1. /\ pairs' \in [Pairs -> Entries]
          /\ \A other \in Pairs :
               \/ pairs'[other] = map[other]
               \/ pairs'[other] = NoCode /\ Expired(map[other])
      BY <1>5, <2>2, TrimmedFacts
    <3> QED
      BY <1>5, <1>6, <3>1
  <2> QED
    BY <1>4, <2>1, <2>2
<1>8. VerificationTypeOK'
  BY <1>1, <1>2, <1>3, <1>7 DEF VerificationTypeOK
<1>9. \A other \in Pairs : pairs[other].code \in Nat
  BY EntryFacts
<1>10. Presents' /\ Numbered'
  BY <1>1, <1>2, <1>7, <1>9, NoCodeFacts DEF Presents, Numbered
<1>11. OneKey'
  BY <1>1, <1>7, <1>9, NoCodeFacts DEF OneKey, Numbered
<1>12. Unspent'
  BY <1>1, <1>7, NoCodeFacts DEF Unspent, Numbered
<1>13. LastHeld'
  <2>1. ASSUME NEW other \in Pairs, other \notin deleted', other # key
        PROVE  (\/ pairs[other] = latest[other]
                \/ latest[other].code \in spent \cup {0}
                \/ Expired(latest[other]))'
    <3>1. latest'[other] = latest[other] /\ other \notin deleted
      BY <1>3, <2>1
    <3>2. \/ pairs[other] = latest[other]
          \/ latest[other].code \in spent \cup {0}
          \/ Expired(latest[other])
      BY <3>1 DEF LastHeld
    <3>3. Expired(latest[other]) => Expired(latest[other])'
      BY <3>1 DEF Expired
    <3>4. pairs'[other] = pairs[other] \/ Expired(pairs[other])
      BY <1>7, <2>1
    <3> QED
      BY <3>1, <3>2, <3>3, <3>4
  <2>2. pairs'[key] = latest'[key]
    BY <1>3, <1>7
  <2> QED
    BY <2>1, <2>2 DEF LastHeld
<1>14. SingleUse'
  BY DEF SingleUse, Resetting
<1> QED
  BY <1>8, <1>10, <1>11, <1>12, <1>13, <1>14

\* VerifyCodeWithKey says yes to a code of the map, for its own key.
LEMMA AcceptedKeeps ==
  ASSUME CodesInvariant, NEW k \in Presenters, NEW key \in Pairs,
         NEW place \in {"insert", "bind", "password"}, NEW u \in People \cup {"nobody"},
         place \in {"insert", "bind"} => u \in People,
         Accepted(k, place, key, u), UNCHANGED respent, shared' \subseteq Codes,
         \/ place # "password" /\ UNCHANGED shared
         \/ shared' = IF Resetting(pairs[key].code) = {} THEN shared
                      ELSE shared \cup {pairs[key].code}
  PROVE  CodesInvariant'
<1> DEFINE new == [at |-> place, for |-> key, code |-> pairs[key].code, who |-> u]
<1> USE CodesTypeFacts DEF CodesInvariant
<1>1. pairs[key].code # 0 /\ pairs[key].code \in Codes \cup {0}
  BY DEF Accepted, VerifyCode, Entries
<1>2. /\ new \in Presented /\ new.at = place /\ new.for = key /\ new.code = pairs[key].code
      /\ new.who = u
  BY <1>1 DEF Presented
<1>3. present' = [present EXCEPT ![k] = new]
  BY DEF Accepted
<1> HIDE DEF new
<1>4. UNCHANGED <<now, pairs, latest, codes, deleted, spent, rewritten, address, doubled>>
  BY DEF Accepted
<1>5. VerificationTypeOK'
  BY <1>2, <1>3, <1>4 DEF VerificationTypeOK
<1>6. Presents'
  BY <1>1, <1>2, <1>3, <1>4 DEF Presents
<1>7. Numbered' /\ OneKey'
  BY <1>1, <1>2, <1>3, <1>4 DEF Numbered, OneKey
<1>8. Unspent' /\ LastHeld'
  BY <1>4 DEF Unspent, LastHeld, Expired
<1>9. /\ present[k].at = "away" /\ present'[k] = new
      /\ \A j \in Presenters : j # k => present'[j] = present[j]
  BY <1>3 DEF Accepted, Away
<1>10. SingleUse'
  <2> SUFFICES ASSUME NEW code \in Codes \ shared'
               PROVE  /\ \A i, j \in Resetting(code)' : i = j
                      /\ code \in spent => Resetting(code)' = {}
    BY <1>4 DEF SingleUse
  <2>1. code \notin shared
    OBVIOUS
  <2>2. CASE place = "password" /\ code = pairs[key].code
    <3>1. Resetting(code) = {}
      BY <2>2
    <3>2. Resetting(code)' \subseteq {k}
      BY <3>1, <1>9 DEF Resetting
    <3>3. code \notin spent
      BY <2>2 DEF Unspent
    <3> QED
      BY <3>2, <3>3
  <2>3. CASE ~(place = "password" /\ code = pairs[key].code)
    <3>1. Resetting(code)' = Resetting(code)
      BY <2>3, <1>2, <1>9 DEF Resetting
    <3> QED
      BY <2>1, <3>1 DEF SingleUse
  <2> QED
    BY <2>2, <2>3
<1> QED
  BY <1>4, <1>5, <1>6, <1>7, <1>8, <1>10

\* A step that leaves the codes alone, and at which requests only go on or away.
LEMMA CodesStay ==
  ASSUME CodesInvariant, VerificationTypeOK', Presents',
         UNCHANGED <<now, pairs, latest, codes, deleted, spent, respent, shared, rewritten>>,
         \A k \in Presenters : \/ present'[k].code = 0
                               \/ /\ present'[k].code = present[k].code
                                  /\ present'[k].for = present[k].for
                                  /\ \/ present'[k].at = present[k].at
                                     \/ present[k].at = "password"
  PROVE  CodesInvariant'
<1> USE DEF CodesInvariant
<1>1. Numbered' /\ OneKey'
  BY CodesTypeFacts DEF Numbered, OneKey
<1>2. Unspent' /\ LastHeld'
  BY DEF Unspent, LastHeld, Expired
<1>3. \A code \in Codes : Resetting(code)' \subseteq Resetting(code)
  BY VerificationAssumption DEF Resetting, Codes
<1>4. SingleUse'
  BY <1>3 DEF SingleUse
<1> QED
  BY <1>1, <1>2, <1>4

LEMMA GoesAwayFacts ==
  ASSUME present \in [Presenters -> Presented], NEW k \in Presenters, GoesAway(k)
  PROVE  /\ present' \in [Presenters -> Presented]
         /\ present'[k].at = "away" /\ present'[k].code = 0
         /\ \A j \in Presenters : j # k => present'[j] = present[j]
BY ElsewhereFacts DEF GoesAway

LEMMA SaveAddressKeeps ==
  ASSUME CodesInvariant, NEW k \in Presenters, SaveAddress(k)
  PROVE  CodesInvariant'
<1> USE CodesTypeFacts DEF CodesInvariant
<1>1. /\ UNCHANGED <<now, pairs, latest, codes, deleted, spent, respent, shared, rewritten>>
      /\ GoesAway(k)
  BY DEF SaveAddress
<1>2. address' \in [People -> Addresses \cup {"absent", "unset"}]
  BY PairFacts DEF SaveAddress, Presents
<1>3. doubled' \in BOOLEAN
  <2> DEFINE other == present[k].at = "bind" /\ Owners(present[k].for[2]) \ {present[k].who} # {}
  <2>1. other \in BOOLEAN /\ doubled \in BOOLEAN
    BY DEF VerificationTypeOK
  <2>2. doubled' = (doubled \/ other) \/ doubled' = doubled
    BY DEF SaveAddress
  <2> HIDE DEF other
  <2> QED
    BY <2>1, <2>2
<1>4. VerificationTypeOK'
  BY <1>1, <1>2, <1>3, GoesAwayFacts DEF VerificationTypeOK
<1>5. Presents'
  BY <1>1, GoesAwayFacts DEF Presents
<1> QED
  BY <1>1, <1>4, <1>5, GoesAwayFacts, CodesStay

LEMMA WritePasswordKeeps ==
  ASSUME CodesInvariant, NEW k \in Presenters, WritePassword(k)
  PROVE  CodesInvariant'
<1> USE CodesTypeFacts DEF CodesInvariant
<1>1. /\ present' \in [Presenters -> Presented]
      /\ \A j \in Presenters : j # k => present'[j] = present[j]
      /\ \/ present'[k].at = "away" /\ present'[k].code = 0
         \/ /\ present'[k].at = "delete" /\ present[k].at = "password"
            /\ present'[k].code = present[k].code /\ present'[k].for = present[k].for
  <2>1. CASE GoesAway(k)
    BY <2>1, GoesAwayFacts
  <2>2. CASE present' = [present EXCEPT ![k].at = "delete"]
    <3>1. [present[k] EXCEPT !.at = "delete"] \in Presented
      BY DEF Presented
    <3> QED
      BY <2>2, <3>1 DEF WritePassword, Presented
  <2> QED
    BY <2>1, <2>2 DEF WritePassword
<1>2. UNCHANGED <<now, pairs, latest, codes, deleted, spent, respent, shared, address, doubled>>
  BY DEF WritePassword
<1>3. UNCHANGED rewritten
  <2> DEFINE code == present[k].code
  <2>1. present[k].at = "password" /\ code \in Codes /\ k \in Resetting(code)
    BY DEF WritePassword, Presents, Presented, Resetting
  <2>2. ASSUME code \notin shared, ResetWith(code)
        PROVE  FALSE
    <3>1. code \notin spent /\ \A j \in Resetting(code) : j = k
      BY <2>1, <2>2 DEF SingleUse
    <3> QED
      BY <2>1, <2>2, <3>1 DEF ResetWith
  <2>3. \/ rewritten' = rewritten
        \/ rewritten' = (rewritten \/ (ResetWith(code) /\ code \notin shared))
    BY DEF WritePassword
  <2> HIDE DEF code
  <2> QED
    BY <2>2, <2>3 DEF VerificationTypeOK
<1>4. VerificationTypeOK'
  BY <1>1, <1>2, <1>3 DEF VerificationTypeOK
<1>5. Presents'
  BY <1>1 DEF Presents
<1> QED
  BY <1>1, <1>2, <1>3, <1>4, <1>5, CodesStay

\* The entry of the key is cleared.  If it is the code of the reset, it is spent now;
\* otherwise the last code may go with it, and the key is one of "deleted".
LEMMA DeleteKeyKeeps ==
  ASSUME CodesInvariant, NEW k \in Presenters, DeleteKey(k)
  PROVE  CodesInvariant'
<1> USE CodesTypeFacts DEF CodesInvariant
<1> DEFINE key == present[k].for  code == present[k].code
<1>1. /\ key \in Pairs /\ code # 0 /\ code \in Codes /\ code <= codes
      /\ \A other \in Pairs : pairs[other].code = code => other = key
  BY DEF DeleteKey, Presents, Presented, Numbered, OneKey
<1>2. /\ GoesAway(k) /\ pairs' = [pairs EXCEPT ![key] = NoCode]
      /\ deleted' = (IF latest[key].code = code THEN deleted ELSE deleted \cup {key})
      /\ spent' = spent \cup {code}
      /\ UNCHANGED <<now, latest, codes, respent, shared, rewritten, address, doubled>>
  BY DEF DeleteKey
<1> HIDE DEF key, code
<1>3. /\ pairs' \in [Pairs -> Entries] /\ pairs'[key] = NoCode
      /\ \A other \in Pairs : other # key => pairs'[other] = pairs[other]
  BY <1>1, <1>2, NoCodeFacts
<1>4. VerificationTypeOK'
  BY <1>1, <1>2, <1>3, GoesAwayFacts DEF VerificationTypeOK
<1>5. Presents' /\ Numbered'
  BY <1>1, <1>2, <1>3, GoesAwayFacts, NoCodeFacts DEF Presents, Numbered
<1>6. OneKey'
  BY <1>2, <1>3, GoesAwayFacts, NoCodeFacts DEF OneKey
<1>7. Unspent'
  BY <1>1, <1>2, <1>3, NoCodeFacts DEF Unspent
<1>8. LastHeld'
  BY <1>1, <1>2, <1>3 DEF LastHeld, Expired
<1>9. SingleUse'
  <2> SUFFICES ASSUME NEW c \in Codes \ shared
               PROVE  /\ \A i, j \in Resetting(c)' : i = j
                      /\ c \in spent' => Resetting(c)' = {}
    BY <1>2 DEF SingleUse
  <2>1. Resetting(c)' \subseteq Resetting(c) \ {k}
    BY <1>2, GoesAwayFacts DEF Resetting
  <2>2. CASE c = code
    <3>1. k \in Resetting(c)
      BY <2>2 DEF DeleteKey, Resetting, code
    <3> QED
      BY <2>1, <3>1 DEF SingleUse
  <2>3. CASE c # code
    BY <2>1, <2>3, <1>2 DEF SingleUse
  <2> QED
    BY <2>2, <2>3
<1> QED
  BY <1>2, <1>4, <1>5, <1>6, <1>7, <1>8, <1>9

LEMMA GitHubSignUpKeeps ==
  ASSUME CodesInvariant, NEW u \in People, GitHubSignUp(u)
  PROVE  CodesInvariant'
<1> USE CodesTypeFacts DEF CodesInvariant
<1>1. UNCHANGED <<now, pairs, latest, codes, deleted, spent, respent, shared, rewritten, present,
                  doubled>>
  BY DEF GitHubSignUp
<1>2. address' \in [People -> Addresses \cup {"absent", "unset"}]
  BY DEF GitHubSignUp
<1>3. VerificationTypeOK' /\ Presents'
  BY <1>1, <1>2 DEF VerificationTypeOK, Presents
<1> QED
  BY <1>1, <1>3, CodesStay

\* What has expired stays so.
LEMMA TimeGoesOnKeeps ==
  ASSUME CodesInvariant, TimeGoesOn
  PROVE  CodesInvariant'
<1> USE CodesTypeFacts DEF CodesInvariant
<1>1. /\ now' = now + 1 /\ now' \in 0 .. LastTime
      /\ UNCHANGED <<pairs, latest, codes, deleted, spent, respent, shared, rewritten, address,
                     present, doubled>>
  BY VerificationAssumption DEF TimeGoesOn
<1>2. VerificationTypeOK'
  BY <1>1 DEF VerificationTypeOK
<1>3. Presents' /\ Numbered' /\ OneKey' /\ Unspent' /\ SingleUse'
  BY <1>1 DEF Presents, Numbered, OneKey, Unspent, SingleUse, Resetting
<1>4. \A e \in Entries : Expired(e) => Expired(e)'
  BY <1>1, EntryFacts, VerificationAssumption DEF Expired
<1>5. LastHeld'
  BY <1>1, <1>4 DEF LastHeld
<1> QED
  BY <1>1, <1>2, <1>3, <1>5

-----------------------------------------------------------------------------
(* Theorems                                                                 *)

\* Every behaviour: codes are for one key, those that are spent are gone, the last one
\* is held, and each is with one request at a time or known to be shared.
THEOREM CodesInvariantHolds == VerificationSpec => []CodesInvariant
<1>1. CodesInvariant /\ [VerificationNext]_verificationVars => CodesInvariant'
  <2> SUFFICES ASSUME CodesInvariant, [VerificationNext]_verificationVars
               PROVE  CodesInvariant'
    OBVIOUS
  <2>1. ASSUME NEW a \in Addresses, SendEmailVerification(a) \/ SendPasswordResetEmail(a)
        PROVE  CodesInvariant'
    BY <2>1, PairFacts, RegisterCodeKeeps DEF SendEmailVerification, SendPasswordResetEmail
  <2>2. ASSUME NEW k \in Presenters, NEW a \in Addresses, ResetPassword(k, a)
        PROVE  CodesInvariant'
    <3>1. pairs[<<"r", a>>].code \notin spent
      BY PairFacts DEF CodesInvariant, Unspent
    <3>2. respent' = (respent \/ pairs[<<"r", a>>].code \in spent)
      BY <2>2 DEF ResetPassword
    <3>3. UNCHANGED respent
      BY <3>1, <3>2 DEF CodesInvariant, VerificationTypeOK
    <3>4. pairs[<<"r", a>>].code \in Codes
      BY <2>2, PairFacts, CodesTypeFacts
         DEF ResetPassword, Accepted, VerifyCode, Entries, CodesInvariant
    <3>5. /\ Accepted(k, "password", <<"r", a>>, "nobody")
          /\ shared' = IF Resetting(pairs[<<"r", a>>].code) = {} THEN shared
                       ELSE shared \cup {pairs[<<"r", a>>].code}
      BY <2>2 DEF ResetPassword
    <3>6. shared' \subseteq Codes
      BY <3>4, <3>5 DEF CodesInvariant, VerificationTypeOK
    <3> QED
      BY <3>3, <3>5, <3>6, PairFacts, AcceptedKeeps
  <2>3. ASSUME NEW k \in Presenters, NEW a \in Addresses, NEW u \in People,
               RegisterWithCode(k, u, a) \/ BindWithCode(k, u, a)
        PROVE  CodesInvariant'
    <3>1. u \in People \cup {"nobody"} /\ <<"v", a>> \in Pairs
      BY PairFacts
    <3>2. UNCHANGED <<respent, shared>> /\ shared' \subseteq Codes
      BY <2>3 DEF RegisterWithCode, BindWithCode, CodesInvariant, VerificationTypeOK
    <3>3. Accepted(k, "insert", <<"v", a>>, u) \/ Accepted(k, "bind", <<"v", a>>, u)
      BY <2>3 DEF RegisterWithCode, BindWithCode
    <3> QED
      BY <3>1, <3>2, <3>3, AcceptedKeeps
  <2>4. ASSUME NEW k \in Presenters, SaveAddress(k) \/ WritePassword(k) \/ DeleteKey(k)
        PROVE  CodesInvariant'
    BY <2>4, SaveAddressKeeps, WritePasswordKeeps, DeleteKeyKeeps
  <2>5. ASSUME NEW u \in People, GitHubSignUp(u) PROVE CodesInvariant'
    BY <2>5, GitHubSignUpKeeps
  <2>6. CASE TimeGoesOn
    BY <2>6, TimeGoesOnKeeps
  <2>7. CASE UNCHANGED verificationVars
    BY <2>7 DEF verificationVars, CodesInvariant, VerificationTypeOK, Presents, Numbered,
                OneKey, Unspent, LastHeld, Expired, SingleUse, Resetting
  <2> QED
    BY <2>1, <2>2, <2>3, <2>4, <2>5, <2>6, <2>7 DEF VerificationNext
<1> QED
  BY <1>1, CodesBegin, PTL DEF VerificationSpec

\* common/verification.go:34 and controller/misc.go:163: the last code sent is accepted
\* until it is over or answered, unless an older one's reset has deleted it; a code that
\* was answered is accepted no more, and one that was not with several requests at once
\* writes passwords once.
THEOREM CodesKeptHolds == VerificationSpec => []CodesKept
<1>1. CodesInvariant => CodesKept
  BY DEF CodesInvariant, CodesKept, LastHeld, VerifyCode
<1> QED
  BY <1>1, CodesInvariantHolds, PTL
===============================================================================
