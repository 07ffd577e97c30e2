------------------------------ MODULE MCRelay ------------------------------
(***************************************************************************)
(* Instances of Relay for TLC.  Routes are numbered; route 3 is the lower  *)
(* tier and shares provider "q" with route 2.  "alias" is a name the       *)
(* catalogue resolves to "canon", each with routes of its own.             *)
(***************************************************************************)
EXTENDS Relay

MCProviders == {"p", "q"}

\* One request over three routes in two tiers.
OneRequest      == {"r1"}
ThreeRoutes     == 1 .. 3
ThreeProviderOf == <<"p", "q", "q">>
ThreePriorityOf == <<10, 10, -1>>
ThreeModels     == {"alias", "canon"}
ThreeCanonical  == [m \in ThreeModels |-> "canon"]
ThreeRoutesOf   == [m \in ThreeModels |-> IF m = "canon" THEN {1, 2, 3} ELSE {3}]
ThreeWhitelist  == {"canon"}

\* Two requests over two routes in two tiers.
TwoRequests     == {"r1", "r2"}
TwoRoutes       == 1 .. 2
TwoProviderOf   == <<"p", "q">>
TwoPriorityOf   == <<10, -1>>
TwoModels       == {"canon"}
TwoCanonical    == [m \in TwoModels |-> "canon"]
TwoRoutesOf     == [m \in TwoModels |-> {1, 2}]

-----------------------------------------------------------------------------
(* The larger instance for a request that is alone, the smaller one for two.  *)

Small ==
  /\ guardMode = "enforce"
  /\ \A r \in Requests :
       /\ vmode[r] = "enforce" /\ \A k \in 1 .. Len(logs[r]) : logs[r][k].mode = "enforce"
       /\ requested[r] = "canon"
       /\ LinesRead(r) <= 1 /\ Len(client[r]) <= 2
       /\ \A i \in 1 .. Len(plan[r]) : plan[r][i] # 2

\* The second request comes in only while the first is in the smaller instance, and
\* then neither leaves it: a plan without route 2, one line and the end of a stream are
\* among the steps that Handle allows.  The legacy switch, which nothing reads,
\* moves only then.
TwoOrLarge ==
  IF pc'["r2"] = "idle" THEN legacyGuard' = legacyGuard ELSE Small'

\* The mode is switched, and a cooldown ends, where the next step of a handler reads
\* it: earlier would be no different.
SeenAtOnce ==
  /\ guardMode' # guardMode => \E r \in Requests : pc[r] = "attempt"
  /\ (\E p \in Providers : CooldownExpires(p)) => \E r \in Requests : pc[r] = "plan"

MCSpec ==
  /\ Init /\ requested["r2"] = "canon"
  /\ [][Next /\ TwoOrLarge /\ SeenAtOnce]_vars
  /\ \A r \in Requests : WF_vars(Handle(r))
=============================================================================
