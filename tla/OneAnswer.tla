----------------------------- MODULE OneAnswer -----------------------------
(***************************************************************************)
(* What the relay endpoint promises a caller, with nothing about how it is *)
(* kept: a call that came in is answered, by one source only, and once the *)
(* answer has begun its source never changes.  A source is an upstream     *)
(* route or the gateway itself (an error document).                        *)
(***************************************************************************)
CONSTANTS Calls,      \* the calls a caller may make
          Sources,    \* whatever can write an answer
          NoSource    \* the source of an answer that has not begun

VARIABLES phase,      \* phase[c]: "idle", "waiting", "answering" or "answered"
          source      \* source[c]: who writes the answer of c

avars == <<phase, source>>

AInit ==
  /\ phase  = [c \in Calls |-> "idle"]
  /\ source = [c \in Calls |-> NoSource]

\* A caller makes the call c.
Call(c) ==
  /\ phase[c] = "idle"
  /\ phase' = [phase EXCEPT ![c] = "waiting"]
  /\ UNCHANGED source

\* The source s starts to write the answer of c.
Begin(c, s) ==
  /\ phase[c] = "waiting"
  /\ phase'  = [phase EXCEPT ![c] = "answering"]
  /\ source' = [source EXCEPT ![c] = s]

\* The answer of c is complete.
End(c) ==
  /\ phase[c] = "answering"
  /\ phase' = [phase EXCEPT ![c] = "answered"]
  /\ UNCHANGED source

\* The source s writes the whole answer of c at once.
Reply(c, s) ==
  /\ phase[c] = "waiting"
  /\ phase'  = [phase EXCEPT ![c] = "answered"]
  /\ source' = [source EXCEPT ![c] = s]

Serve(c) == End(c) \/ \E s \in Sources : Begin(c, s) \/ Reply(c, s)

ANext == \E c \in Calls : Call(c) \/ Serve(c)

ASafeSpec == AInit /\ [][ANext]_avars

ASpec == ASafeSpec /\ \A c \in Calls : WF_avars(Serve(c))
=============================================================================
