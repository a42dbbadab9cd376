----------------------------- MODULE CommandGate -----------------------------
(***************************************************************************)
(* What the risk engine promises, without how: the README's "all three     *)
(* surfaces share one risk engine so nothing destructive runs without      *)
(* explicit approval".  A submitted command may need consent; it takes     *)
(* effect at most once, only after the consent it needs, and only while    *)
(* its caller is waiting; a command that took effect is on record before   *)
(* its caller hears of it; every submitted command is settled.             *)
(***************************************************************************)
CONSTANT Call            \* identities of the calls of RiskEngine.execute

VARIABLES
  phase,                 \* [Call -> {"new", "open", "settled"}]
  needs_consent,         \* the calls whose command needs consent
  consent,               \* [Call -> {"none", "yes", "no"}]
  started,               \* the calls whose command has taken effect
  logged                 \* the calls on record in the execution log

gateVars == <<phase, needs_consent, consent, started, logged>>

Init ==
  /\ phase = [c \in Call |-> "new"]
  /\ needs_consent = {}
  /\ consent = [c \in Call |-> "none"]
  /\ started = {}
  /\ logged = {}

Submit(c) ==
  /\ phase[c] = "new"
  /\ phase' = [phase EXCEPT ![c] = "open"]
  /\ \/ needs_consent' = needs_consent \cup {c}
     \/ needs_consent' = needs_consent
  /\ UNCHANGED <<consent, started, logged>>

Consent(c) ==
  /\ phase[c] = "open"
  /\ c \in needs_consent
  /\ consent[c] = "none"
  /\ \E v \in {"yes", "no"} : consent' = [consent EXCEPT ![c] = v]
  /\ UNCHANGED <<phase, needs_consent, started, logged>>

Admitted(c) ==
  /\ phase[c] = "open"
  /\ c \in needs_consent => consent[c] = "yes"

Start(c) ==
  /\ Admitted(c)
  /\ c \notin started \cup logged
  /\ started' = started \cup {c}
  /\ UNCHANGED <<phase, needs_consent, consent, logged>>

Record(c) ==
  /\ Admitted(c)
  /\ c \notin logged
  /\ logged' = logged \cup {c}
  /\ UNCHANGED <<phase, needs_consent, consent, started>>

\* A refusal settles the call in the same step that the caller's "no" (or
\* the missing callback) is known; a command that ran settles once recorded.
Settle(c) ==
  /\ phase[c] = "open"
  /\ c \in started => c \in logged
  /\ phase' = [phase EXCEPT ![c] = "settled"]
  /\ \/ consent' = consent
     \/ c \in needs_consent /\ consent[c] = "none" /\ consent' = [consent EXCEPT ![c] = "no"]
  /\ UNCHANGED <<needs_consent, started, logged>>

Next == \E c \in Call : Submit(c) \/ Consent(c) \/ Start(c) \/ Record(c) \/ Settle(c)

Spec == Init /\ [][Next]_gateVars

\* Every submitted call is settled.
Settles == \A c \in Call : phase[c] = "open" ~> phase[c] = "settled"
==============================================================================
