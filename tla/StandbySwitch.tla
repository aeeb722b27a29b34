----------------------------- MODULE StandbySwitch -----------------------------
(***************************************************************************)
(* What health probing promises of one provider (docs/failover.md, "Health *)
(* probes"), without probers, leases, generations or transactions: the     *)
(* provider is in use, or its standby is, put in place by the program or   *)
(* by the operator.  Probes of the provider are evidence about the         *)
(* configuration they saw; a change of the switch, or an observation of    *)
(* another configuration, starts the evidence afresh.  The program         *)
(* switches over on two failures in a row, or on a failed call, and back   *)
(* on Healthy successes in a row; only the operator undoes the operator.   *)
(***************************************************************************)
EXTENDS Naturals

CONSTANTS
  Healthy,    \* successes in a row that end an automatic failover
  Failed      \* failures in a row that begin one

VARIABLES
  mode,     \* "origin", "auto" or "manual": who put the standby in place
  about,    \* the configuration the evidence is about
  good,     \* successes in a row
  bad       \* failures in a row

switchVars == <<mode, about, good, bad>>

Modes == {"origin", "auto", "manual"}

AtMost(n, limit) == IF n < limit THEN n ELSE limit

SwitchInit == mode = "origin" /\ good = 0 /\ bad = 0

Fresh == good' = 0 /\ bad' = 0

\* The streaks once the configuration about' is seen to answer, or not to.
Answered == AtMost((IF about' = about THEN good ELSE 0) + 1, Healthy)
Silent == AtMost((IF about' = about THEN bad ELSE 0) + 1, Failed)

SeesUp ==
  \/ mode' = mode /\ good' = Answered /\ bad' = 0
  \/ mode = "auto" /\ mode' = "origin" /\ Answered = Healthy /\ Fresh

SeesDown ==
  \/ mode' = mode /\ good' = 0 /\ bad' = Silent
  \/ mode = "origin" /\ mode' = "auto" /\ Silent = Failed /\ Fresh

\* Neither up nor down (throttled, busy): evidence about another configuration goes.
SeesNothing ==
  /\ mode' = mode
  /\ good' = (IF about' = about THEN good ELSE 0)
  /\ bad' = (IF about' = about THEN bad ELSE 0)

CallFailed == mode = "origin" /\ mode' = "auto" /\ Fresh /\ about' = about

OperatorMoves ==
  /\ \/ mode # "manual" /\ mode' = "manual"
     \/ mode # "origin" /\ mode' = "origin"
  /\ Fresh /\ about' = about

SwitchNext == CallFailed \/ OperatorMoves \/ SeesUp \/ SeesDown \/ SeesNothing

SwitchSpec == SwitchInit /\ [][SwitchNext]_switchVars

=============================================================================
