------------------------------- MODULE Accounts -------------------------------
(***************************************************************************)
(* The role and the status of the accounts: the handlers of                *)
(* controller/user.go, controller/wechat.go and controller/github.go over  *)
(* the rows of model/user.go, behind the sessions of middleware/auth.go.   *)
(*                                                                         *)
(* A handler reads the row of an account, judges it by the role that its   *)
(* session took at login, and writes it in a later statement.  Some write  *)
(* the fields of their request only; others write back every field that    *)
(* they have read, so that what was changed in between is undone.          *)
(*                                                                         *)
(* Names, passwords, bound identities and their codes are left out, and    *)
(* with them ResetPassword, which writes nothing else.  A token lets in    *)
(* who could also log in, and has no action of its own.                    *)
(***************************************************************************)
EXTENDS Integers, FiniteSets

CONSTANTS Users,     \* accounts that are there or may come to be
          Founder,   \* the account "root" of createRootAccountIfNeed
          Handlers,  \* requests at work at one time
          MaxWrites  \* bound on acknowledged changes

ASSUME AccountsAssumption == Founder \in Users /\ MaxWrites \in Nat

VARIABLES
  account,    \* account[u]: role and status of the row
  session,    \* session[u]: the role in the session of u, or Nobody
  asked,      \* asked[u]: role and status after the acknowledged requests
  rolledBack, \* the row of u was written back from a copy that was out of date
  swallowed,  \* a deletion that failed was acknowledged
  handler,    \* handler[k]: where request k is, and its locals
  writes      \* acknowledged changes so far

accountsVars == <<account, session, asked, rolledBack, swallowed, handler, writes>>

\* common/constants.go
Nobody == 0
Common == 1
Admin  == 10
Super  == 100

Row(role, status) == [role |-> role, status |-> status]
Unborn   == Row(Nobody, "unborn")
Gone     == Row(Nobody, "gone")
RootRow  == Row(Super, "enabled")
Accounts == {Unborn, Gone} \cup [role : {Common, Admin, Super}, status : {"enabled", "disabled"}]
Exists(u) == account[u].role # Nobody

\* "role" and "status" are what a request writes, Nobody and "same" for a field it
\* leaves; "asks" are the fields that its caller wants changed, and "copied" says
\* that the others were read; "old" that they have changed since.
Idle     == [asks |-> {}, at |-> "idle", copied |-> FALSE, old |-> FALSE, role |-> Nobody,
             status |-> "same", user |-> Founder]
Handling == [asks : SUBSET {"role", "status"}, at : {"idle", "delete", "deleteonly", "save"},
             copied : BOOLEAN, old : BOOLEAN, role : {Nobody, Common, Admin, Super},
             status : {"same", "enabled", "disabled"}, user : Users]

AccountsInit ==
  /\ account = [u \in Users |-> IF u = Founder THEN RootRow ELSE Unborn]
  /\ asked = account
  /\ session = [u \in Users |-> Nobody]
  /\ rolledBack = [u \in Users |-> FALSE] /\ swallowed = FALSE
  /\ handler = [k \in Handlers |-> Idle] /\ writes = 0

----------------------------------------------------------------------------
(* Sessions                                                                 *)

Admitted(u) == account[u].status = "enabled"

\* A session does not follow its row afterwards.
OpenSession(u) ==
  /\ Admitted(u)
  /\ session' = [session EXCEPT ![u] = account[u].role]
  /\ UNCHANGED <<account, asked, rolledBack, swallowed, handler, writes>>

Login(u) == OpenSession(u)

Logout(u) ==
  /\ session' = [session EXCEPT ![u] = Nobody]
  /\ UNCHANGED <<account, asked, rolledBack, swallowed, handler, writes>>

\* authHelper
Authorized(u, minRole) == session[u] >= minRole

----------------------------------------------------------------------------
(* What a handler reads and judges                                          *)

Takes(k, local) ==
  /\ handler[k] = Idle /\ writes < MaxWrites
  /\ handler' = [handler EXCEPT ![k] = local]
  /\ UNCHANGED <<account, session, asked, rolledBack, swallowed, writes>>

\* A request that writes the row back as it has read it, but for the fields it asks for.
Copy(u, role, status, asks) ==
  [asks |-> asks, at |-> "save", copied |-> TRUE, old |-> FALSE, role |-> role,
   status |-> status, user |-> u]

\* The action of ManageUser; one that it does not know saves the row as it is.
Managed(my, u) ==
  LET role == account[u].role  status == account[u].status
  IN {Copy(u, role, "enabled", {"status"}), Copy(u, role, status, {})}
     \cup (IF role = Super THEN {}
           ELSE {Copy(u, role, "disabled", {"status"}),
                 [Copy(u, role, status, {}) EXCEPT !.at = "delete"]})
     \cup (IF my = Super /\ role < Admin THEN {Copy(u, Admin, status, {"role"})} ELSE {})
     \cup (IF role \in {Super, Common} THEN {} ELSE {Copy(u, Common, status, {"role"})})

ManageUser(k, me, u) ==
  /\ Authorized(me, Admin) /\ Exists(u)
  /\ session[me] > account[u].role \/ session[me] = Super
  /\ \E local \in Managed(session[me], u) : Takes(k, local)

\* UpdateUser writes what the body names.
UpdateUser(k, me, u) ==
  /\ Authorized(me, Admin) /\ Exists(u) /\ session[me] > account[u].role
  /\ \E role \in {Nobody, Common, Admin}, status \in {"same", "enabled", "disabled"} :
       /\ session[me] > role
       /\ Takes(k, [asks |-> {f \in {"role", "status"} : IF f = "role" THEN role # Nobody
                                                         ELSE status # "same"},
                    at |-> "save", copied |-> FALSE, old |-> FALSE, role |-> role,
                    status |-> status, user |-> u])

\* They ask for neither field, and write both back.  For a row that is gone they
\* write nothing.
WriteBack(k, me) ==
  /\ Authorized(me, Common) /\ Exists(me)
  /\ Takes(k, Copy(me, account[me].role, account[me].status, {}))

GenerateToken(k, me) == WriteBack(k, me)
EmailBind(k, me)     == WriteBack(k, me)
WeChatBind(k, me)    == WriteBack(k, me)
GitHubBind(k, me)    == WriteBack(k, me)

\* The body names neither, and the row is not read.
UpdateSelf(k, me) ==
  /\ Authorized(me, Common)
  /\ Takes(k, [Idle EXCEPT !.at = "save", !.user = me])

DeleteUser(k, me, u) ==
  /\ Authorized(me, Admin) /\ Exists(u) /\ session[me] > account[u].role
  /\ Takes(k, [Idle EXCEPT !.at = "deleteonly", !.user = u])

----------------------------------------------------------------------------
(* What it writes                                                           *)

\* The defaults of the columns, whatever role the request names.
NewRow == Row(Common, "enabled")
NewAccount(u) ==
  /\ account[u] = Unborn /\ writes < MaxWrites
  /\ account' = [account EXCEPT ![u] = NewRow] /\ asked' = [asked EXCEPT ![u] = NewRow]
  /\ writes' = writes + 1
  /\ UNCHANGED <<rolledBack, swallowed, handler>>

Register(u) == NewAccount(u) /\ UNCHANGED session
CreateUser(me, u) == Authorized(me, Admin) /\ NewAccount(u) /\ UNCHANGED session

\* An identity that is not known yet gets an account and its session.
SignIn(u) == OpenSession(u) \/ (NewAccount(u) /\ session' = [session EXCEPT ![u] = NewRow.role])
WeChatAuth(u) == SignIn(u)

\* In a session it is GitHubBind.
GitHubOAuth(u) == session[u] = Nobody /\ SignIn(u)

\* Those at work on a copy of the row of u hold an old one when "changed".
Outdate(k, u, changed, local) ==
  handler' = [j \in Handlers |->
                IF j = k THEN local
                ELSE [handler[j] EXCEPT !.old = @ \/ (changed /\ handler[j].copied
                                                     /\ handler[j].user = u)]]

\* Mutant of Written: the fields that are zero are written too.
WrittenWhole(row, h, only) == Row(h.role, h.status)

\* The row "row" with the fields that request h writes or, with "only", those of
\* them that are in "only".
Written(row, h, only) ==
  Row(IF h.role = Nobody \/ "role" \notin only THEN row.role ELSE h.role,
      IF h.status = "same" \/ "status" \notin only THEN row.status ELSE h.status)

\* Mutant of Save: the row is written whether it is there or not.
SaveUpsert(k) ==
  LET h == handler[k]  u == handler[k].user
  IN /\ h.at = "save"
     /\ account' = [account EXCEPT ![u] = Written(@, h, {"role", "status"})]
     /\ asked' = [asked EXCEPT ![u] = IF @ = Gone THEN @ ELSE Written(@, h, h.asks)]
     /\ rolledBack' = [rolledBack EXCEPT ![u] = @ \/ (Exists(u) /\ h.old)]
     /\ Outdate(k, u, account'[u] # account[u], Idle)
     /\ writes' = writes + 1
     /\ UNCHANGED <<session, swallowed>>

\* User.Update is an UPDATE by id of the fields that are not zero.
Save(k) ==
  LET h == handler[k]  u == handler[k].user
  IN /\ h.at = "save"
     /\ account' = [account EXCEPT ![u] = IF Exists(u) THEN Written(@, h, {"role", "status"}) ELSE @]
     /\ asked' = [asked EXCEPT ![u] = IF @ = Gone THEN @ ELSE Written(@, h, h.asks)]
     /\ rolledBack' = [rolledBack EXCEPT ![u] = @ \/ (Exists(u) /\ h.old)]
     /\ Outdate(k, u, account'[u] # account[u], Idle)
     /\ writes' = writes + 1
     /\ UNCHANGED <<session, swallowed>>

\* User.Delete; ManageUser goes on to save, and DeleteUser says yes to an error.
DeleteRow(k) ==
  LET h == handler[k]
  IN /\ h.at \in {"delete", "deleteonly"}
     /\ Outdate(k, h.user, TRUE, IF h.at = "delete" THEN [h EXCEPT !.at = "save"] ELSE Idle)
     /\ asked' = [asked EXCEPT ![h.user] = Gone]
     /\ \/ account' = [account EXCEPT ![h.user] = Gone] /\ UNCHANGED swallowed
        \/ h.at = "deleteonly" /\ swallowed' = TRUE /\ UNCHANGED account
     /\ writes' = writes + 1
     /\ UNCHANGED <<session, rolledBack>>

DeleteSelf(u) ==
  /\ Authorized(u, Common) /\ Exists(u) /\ writes < MaxWrites
  /\ account' = [account EXCEPT ![u] = Gone] /\ asked' = [asked EXCEPT ![u] = Gone]
  /\ writes' = writes + 1
  /\ UNCHANGED <<session, rolledBack, swallowed, handler>>

\* A statement that fails: the caller is told, except by DeleteUser.
Refuse(k) ==
  /\ handler[k].at \in {"save", "delete"}
  /\ handler' = [handler EXCEPT ![k] = Idle]
  /\ UNCHANGED <<account, session, asked, rolledBack, swallowed, writes>>

AccountsNext ==
  \/ \E u \in Users : Login(u) \/ Logout(u) \/ Register(u) \/ WeChatAuth(u) \/ GitHubOAuth(u)
                     \/ DeleteSelf(u)
  \/ \E me, u \in Users : CreateUser(me, u)
  \/ \E k \in Handlers, me \in Users :
       \/ UpdateSelf(k, me) \/ GenerateToken(k, me) \/ EmailBind(k, me)
       \/ WeChatBind(k, me) \/ GitHubBind(k, me)
       \/ \E u \in Users : ManageUser(k, me, u) \/ UpdateUser(k, me, u) \/ DeleteUser(k, me, u)
  \/ \E k \in Handlers : Save(k) \/ DeleteRow(k) \/ Refuse(k)

AccountsSpec == AccountsInit /\ [][AccountsNext]_accountsVars

----------------------------------------------------------------------------
(* Properties                                                               *)

\* Every variable keeps to its range.
AccountsTypeOK ==
  /\ account \in [Users -> Accounts] /\ asked \in [Users -> Accounts]
  /\ session \in [Users -> {Nobody, Common, Admin, Super}]
  /\ rolledBack \in [Users -> BOOLEAN] /\ swallowed \in BOOLEAN
  /\ handler \in [Handlers -> Handling]
  /\ writes \in Nat

\* controller/user.go:600: role and status of an account are those that acknowledged
\* requests have asked for, as long as no request has written the row back from an
\* old copy; requests that write their own fields only may overlap as they like.
\* Even then an account that was deleted does not come back, and the founder stays
\* an enabled root as long as it does not delete itself.  Only a deletion that
\* failed unseen may break this.
LastWordKept ==
  ~swallowed =>
    /\ \A u \in Users : ~rolledBack[u] \/ asked[u] = Gone => account[u] = asked[u]
    /\ asked[Founder] # Gone => account[Founder] = RootRow
=============================================================================
