------------------------------- MODULE Failover --------------------------------
(***************************************************************************)
(* Provider failover and the health probes that drive it                   *)
(* (src/failover.py): the switch of each target, the shared probe lease,   *)
(* the record of consecutive results, and the probers, which claim the     *)
(* lease, read the generation and the configuration, wait for the network  *)
(* without any lock, and only then record what they saw.  Every settings   *)
(* transaction is one action; a prober may be overtaken, lose its lease or *)
(* die between any two.                                                    *)
(***************************************************************************)
EXTENDS Naturals, FiniteSets

CONSTANTS
  Targets,          \* the origins: llm:primary, llm:secondary, whisper
  LlmTargets,       \* those whose configuration includes provider_config_revision
  Checks,           \* the prober threads
  TargetOf,         \* the target each of them probes
  Ticks,            \* the background leader's; the others wait for one in flight
  RecoveryProbes,   \* failover_recovery_probes
  MaxEvents,        \* bound on what happens to the system from outside
  NoCheck

ASSUME FailoverAssumption ==
  /\ LlmTargets \subseteq Targets
  /\ Ticks \subseteq Checks
  /\ TargetOf \in [Checks -> Targets]
  /\ RecoveryProbes \in Nat \ {0}
  /\ MaxEvents \in Nat
  /\ NoCheck \notin Checks

VARIABLES
  source,       \* failover_state: "none" while inactive, else who triggered it
  generation,   \* failover_generation
  standby,      \* a failover provider is enabled and configured
  closing,      \* a save disabled the standby, its after-commit cancel is to come
  setting,      \* the target's own settings, as far as they can differ
  revision,     \* provider_config_revision
  owed,         \* invalidate_provider_cache calls that follow a commit
  record,       \* failover_probe:<target>
  lease,        \* failover_probe_lease:<target>
  check,        \* the probers
  health,       \* what the target answers a probe
  events        \* outside events so far

switch == <<source, generation, standby, closing>>
config == <<setting, revision, owed>>
vars == <<source, generation, standby, closing, setting, revision, owed, record,
          lease, check, health, events>>

AutoTriggerFailures == 2
Sources == {"none", "auto", "probe", "manual"}
Answers == {"up", "down", "busy"}
Config(t) == <<setting[t], IF t \in LlmTargets THEN revision ELSE 0>>
Configs == {0, 1} \X Nat

\* enabled_probe_targets: what the leader probes.
Probed == {TargetOf[c] : c \in Ticks}

\* The LLM targets share one failover provider.
Siblings(t) == IF t \in LlmTargets THEN LlmTargets ELSE {t}

\* Mutant: a streak counts on.
Mut_AtMost(n, limit) == n

AtMost(n, limit) == IF n < limit THEN n ELSE limit

\* A prober: seen holds while the record is the one it began with.  crossed, later
\* and overtaken are history: the switch has moved since the probe began, the probes
\* of the same target begun after it, and whether one of those has been recorded.
Idle == [pc |-> "idle", seen |-> TRUE, generation |-> 0, config |-> <<0, 0>>,
         answer |-> "busy", crossed |-> FALSE, later |-> {},
         overtaken |-> FALSE]

NoRecord == [generation |-> 0, config |-> <<0, 0>>, healthy |-> 0, failed |-> 0]
Free == [holder |-> NoCheck, live |-> FALSE]

Holds(c) == lease[TargetOf[c]].holder = c
Began(c) == check[c].pc \in {"probing", "answered"}

Init ==
  /\ source = [t \in Targets |-> "none"]
  /\ generation = [t \in Targets |-> 0]
  /\ standby = [t \in Targets |-> TRUE]
  /\ closing = {}
  /\ setting = [t \in Targets |-> 0]
  /\ revision = 0
  /\ owed = 0
  /\ record = [t \in Targets |-> NoRecord]
  /\ lease = [t \in Targets |-> Free]
  /\ check = [c \in Checks |-> Idle]
  /\ health = [t \in Targets |-> "up"]
  /\ events = 0

Event == events < MaxEvents /\ events' = events + 1

-----------------------------------------------------------------------------
(* The switch *)

\* Whether _apply_transition_in_transaction accepts the move.
MayTrigger(t, s) == standby[t] /\ (source[t] = "none" \/ (source[t] # "manual" /\ s = "manual"))
MayCancel(t, s) == source[t] # "none" /\ (source[t] = "manual" => s = "manual")

\* The source, the generation and the healthy streak of every target in T after it;
\* invalidate_provider_cache is called once for each, after the commit.
Transit(T, s) ==
  /\ source' = [t \in Targets |-> IF t \in T THEN s ELSE source[t]]
  /\ generation' = [t \in Targets |-> IF t \in T THEN generation[t] + 1 ELSE generation[t]]
  /\ owed' = owed + Cardinality(T)

\* The probes that began before a transition of T.
Crossing(T) ==
  [c \in Checks |-> IF Began(c) /\ TargetOf[c] \in T
                    THEN [check[c] EXCEPT !.crossed = TRUE] ELSE check[c]]

Trigger(t, s) ==
  /\ MayTrigger(t, s)
  /\ Transit({t}, s)
  /\ record' = [record EXCEPT ![t].healthy = 0]
  /\ check' = Crossing({t})
  /\ UNCHANGED <<standby, closing, setting, revision, lease, health>>

\* trigger_failover: the operator.
ManualTrigger(t) == Event /\ Trigger(t, "manual")

\* A call that has used up its retries (call_llm, _trigger_whisper_failover).
CallFails(t) == Event /\ Trigger(t, "auto")

\* cancel_failover: the operator.
ManualCancel(t) ==
  /\ Event
  /\ MayCancel(t, "manual")
  /\ Transit({t}, "none")
  /\ check' = Crossing({t})
  /\ UNCHANGED <<standby, closing, setting, revision, record, lease, health>>

-----------------------------------------------------------------------------
(* Settings *)

\* A save of the target's own settings; an LLM one also invalidates.
Edit(t) ==
  /\ Event
  /\ setting' = [setting EXCEPT ![t] = 1 - @]
  /\ owed' = IF t \in LlmTargets THEN owed + 1 ELSE owed
  /\ UNCHANGED <<switch, revision, record, lease, check, health>>

\* The failover provider is switched on, or off; off, the failovers that use it are
\* cancelled once the settings have been committed.  The LLM one invalidates, too.
Enable(t) ==
  /\ Event
  /\ ~standby[t]
  /\ standby' = [u \in Targets |-> u \in Siblings(t) \/ standby[u]]
  /\ owed' = IF t \in LlmTargets THEN owed + 1 ELSE owed
  /\ UNCHANGED <<source, generation, closing, setting, revision, record, lease, check, health>>

Disable(t) ==
  /\ Event
  /\ standby[t]
  /\ standby' = [u \in Targets |-> u \notin Siblings(t) /\ standby[u]]
  /\ closing' = closing \cup Siblings(t)
  /\ owed' = IF t \in LlmTargets THEN owed + 1 ELSE owed
  /\ UNCHANGED <<source, generation, setting, revision, record, lease, check, health>>

CloseDisabled(t) ==
  /\ t \in closing
  /\ closing' = closing \ {t}
  /\ IF MayCancel(t, "manual")
     THEN Transit({t}, "none") /\ check' = Crossing({t})
     ELSE UNCHANGED <<source, generation, owed, check>>
  /\ UNCHANGED <<standby, setting, revision, record, lease, health, events>>

\* _bump_provider_config_revision, called after some commit; a process that dies in
\* between, or a write that fails, leaves it out.
Bump ==
  /\ owed > 0
  /\ owed' = owed - 1
  /\ revision' = revision + 1
  /\ UNCHANGED <<switch, setting, record, lease, check, health, events>>

BumpLost ==
  /\ Event
  /\ owed > 0
  /\ owed' = owed - 1
  /\ UNCHANGED <<switch, setting, revision, record, lease, check, health>>

-----------------------------------------------------------------------------
(* The probers *)

\* ensure_fresh_probes: a check that waits reads the record it wants replaced.
Begin(c) ==
  /\ c \notin Ticks
  /\ check[c].pc = "idle"
  /\ check' = [check EXCEPT ![c].pc = "asking"]
  /\ UNCHANGED <<switch, config, record, lease, health, events>>

\* It is served by a result that comes in, or runs out of time.
GiveUp(c) ==
  /\ check[c].pc = "asking"
  /\ check' = [check EXCEPT ![c] = Idle]
  /\ UNCHANGED <<switch, config, record, lease, health, events>>

\* Mutant: a lease is free only once it is given back.
Mut_MayClaim(c) ==
  /\ lease[TargetOf[c]].holder = NoCheck
  /\ IF c \in Ticks THEN check[c].pc = "idle" ELSE check[c].pc = "asking" /\ check[c].seen

\* _claim_probe_lease: nobody holds an unexpired lease and, for a check that waits,
\* the record is still the one it wants replaced.
MayClaim(c) ==
  /\ ~lease[TargetOf[c]].live
  /\ IF c \in Ticks THEN check[c].pc = "idle" ELSE check[c].pc = "asking" /\ check[c].seen

\* The claim, and _capture_probe_context: the generation and the configuration that
\* the probe is about.  (A move between the two is seen like one before the claim.)
Claim(c) ==
  LET t == TargetOf[c] IN
  /\ MayClaim(c)
  /\ lease' = [lease EXCEPT ![t] = [holder |-> c, live |-> TRUE]]
  /\ check' = [d \in Checks |->
       CASE d = c -> [check[c] EXCEPT !.pc = "probing", !.generation = generation[t],
                                      !.config = Config(t)]
         [] d # c /\ Began(d) /\ TargetOf[d] = t -> [check[d] EXCEPT !.later = @ \cup {c}]
         [] OTHER -> check[d]]
  /\ UNCHANGED <<switch, config, record, health, events>>

\* probe_target returns.
Answer(c) ==
  /\ check[c].pc = "probing"
  /\ check' = [check EXCEPT ![c].pc = "answered", ![c].answer = health[TargetOf[c]]]
  /\ UNCHANGED <<switch, config, record, lease, health, events>>

\* Nobody waits for c's result any more, and its place in the order is forgotten.
Gone(c, checks) ==
  [d \in Checks |-> IF d = c THEN Idle ELSE [checks[d] EXCEPT !.later = @ \ {c}]]

Released(c) ==
  LET t == TargetOf[c] IN IF Holds(c) THEN [lease EXCEPT ![t] = Free] ELSE lease

\* _probe_context_is_current.
Current(c) ==
  /\ check[c].generation = generation[TargetOf[c]]
  /\ check[c].config = Config(TargetOf[c])

\* Mutant: a prober that has lost its lease still records.
Mut_Accepted(c) == Current(c)

\* The token is still the lease's, and the context is current.
Accepted(c) == Holds(c) /\ Current(c)

\* Mutant: the streaks run on across generations and configurations.
Mut_SameContext(c) == TRUE

\* same_context: the record is about the same generation and configuration.
SameContext(c) ==
  LET r == record[TargetOf[c]] IN
  r.generation = check[c].generation /\ r.config = check[c].config

\* Mutant: the failed streak is not carried on.
Mut_Judged(c) ==
  [generation |-> check[c].generation, config |-> check[c].config,
   healthy |-> IF check[c].answer = "up"
               THEN AtMost((IF SameContext(c) THEN record[TargetOf[c]].healthy ELSE 0) + 1,
                           RecoveryProbes)
               ELSE 0,
   failed |-> IF check[c].answer = "down" THEN 1 ELSE 0]

\* The record with the result of c.  The streaks are compared with thresholds only,
\* and counted up to them.
Judged(c) ==
  LET r == record[TargetOf[c]]
      healthy == IF SameContext(c) THEN r.healthy ELSE 0
      failed == IF SameContext(c) THEN r.failed ELSE 0
  IN [generation |-> check[c].generation, config |-> check[c].config,
      healthy |-> CASE check[c].answer = "up" -> AtMost(healthy + 1, RecoveryProbes)
                    [] check[c].answer = "down" -> 0
                    [] OTHER -> healthy,
      failed |-> CASE check[c].answer = "up" -> 0
                   [] check[c].answer = "down" -> AtMost(failed + 1, AutoTriggerFailures)
                   [] OTHER -> failed]

Trips(c) ==
  /\ check[c].answer = "down"
  /\ Judged(c).failed >= AutoTriggerFailures
  /\ source[TargetOf[c]] = "none"
  /\ MayTrigger(TargetOf[c], "probe")

Recovers(c) ==
  /\ check[c].answer = "up"
  /\ Judged(c).healthy >= RecoveryProbes
  /\ MayCancel(TargetOf[c], "auto")

\* The others once c's result is in the record.
Overtaking(c) ==
  [d \in Checks |->
     CASE TargetOf[d] # TargetOf[c] -> check[d]
       [] d \in check[c].later -> check[d]
       [] Began(d) /\ c \in check[d].later -> [check[d] EXCEPT !.overtaken = TRUE]
       [] check[d].pc # "idle" -> [check[d] EXCEPT !.seen = FALSE]
       [] OTHER -> check[d]]

\* _record_probe, when the token is still the lease's and the context is current.
Record(c) ==
  LET t == TargetOf[c] IN
  /\ check[c].pc = "answered"
  /\ Accepted(c)
  /\ record' = [record EXCEPT ![t] = Judged(c)]
  /\ lease' = Released(c)
  /\ IF Trips(c) \/ Recovers(c)
     THEN /\ Transit({t}, IF Trips(c) THEN "probe" ELSE "none")
          /\ check' = Gone(c, [d \in Checks |->
               IF Began(d) /\ TargetOf[d] = t
               THEN [Overtaking(c)[d] EXCEPT !.crossed = TRUE] ELSE Overtaking(c)[d]])
     ELSE check' = Gone(c, Overtaking(c)) /\ UNCHANGED <<source, generation, owed>>
  /\ UNCHANGED <<standby, closing, setting, revision, health, events>>

\* _record_probe otherwise: the result is dropped, and the lease given back if it is
\* still held.
Drop(c) ==
  /\ check[c].pc = "answered"
  /\ ~Accepted(c)
  /\ lease' = Released(c)
  /\ check' = Gone(c, check)
  /\ UNCHANGED <<switch, config, record, health, events>>

\* An exception, a local decode handed to the background worker, or a result that a
\* run's own local transcription has outdated.
Abandon(c) ==
  /\ Event
  /\ Began(c)
  /\ lease' = Released(c)
  /\ check' = Gone(c, check)
  /\ UNCHANGED <<switch, config, record, health>>

Dies(c) ==
  /\ Event
  /\ check[c].pc # "idle"
  /\ check' = Gone(c, check)
  /\ UNCHANGED <<switch, config, record, lease, health>>

\* Thirty seconds pass without a renewal: the holder is gone, or is held up.
Working(c) == c # NoCheck /\ Began(c)

Expire(t) ==
  /\ lease[t].live
  /\ ~Working(lease[t].holder)
  /\ lease' = [lease EXCEPT ![t].live = FALSE]
  /\ UNCHANGED <<switch, config, record, check, health, events>>

Stall(t) ==
  /\ Event
  /\ lease[t].live
  /\ Working(lease[t].holder)
  /\ lease' = [lease EXCEPT ![t].live = FALSE]
  /\ UNCHANGED <<switch, config, record, check, health>>

\* _renew_probe_lease asks for the token, not for the time left.
Renew(c) ==
  /\ Working(c)
  /\ Holds(c)
  /\ ~lease[TargetOf[c]].live
  /\ lease' = [lease EXCEPT ![TargetOf[c]].live = TRUE]
  /\ UNCHANGED <<switch, config, record, check, health, events>>

-----------------------------------------------------------------------------
(* The providers *)

HealthChanges(t) ==
  /\ Event
  /\ \E h \in Answers \ {health[t]} : health' = [health EXCEPT ![t] = h]
  /\ UNCHANGED <<switch, config, record, lease, check>>

-----------------------------------------------------------------------------

CheckStep(c) ==
  Begin(c) \/ GiveUp(c) \/ Claim(c) \/ Answer(c) \/ Record(c) \/ Drop(c)

OutsideStep(t) ==
  \/ ManualTrigger(t) \/ CallFails(t) \/ ManualCancel(t)
  \/ Edit(t) \/ Enable(t) \/ Disable(t)
  \/ Stall(t) \/ HealthChanges(t)

Next ==
  \/ \E c \in Checks : CheckStep(c) \/ Abandon(c) \/ Dies(c) \/ Renew(c)
  \/ \E t \in Targets : OutsideStep(t) \/ CloseDisabled(t) \/ Expire(t)
  \/ Bump \/ BumpLost

Spec == Init /\ [][Next]_vars

\* The leader's ticks come again and again, a thread goes on until it has finished,
\* leases run out, and what follows a commit is done.
Fairness ==
  /\ \A c \in Ticks : WF_vars(Claim(c))
  /\ \A c \in Checks : WF_vars(GiveUp(c) \/ Answer(c) \/ Record(c) \/ Drop(c))
  /\ \A t \in Targets : WF_vars(Expire(t)) /\ WF_vars(CloseDisabled(t))
  /\ WF_vars(Bump)

FairSpec == Spec /\ Fairness

-----------------------------------------------------------------------------
(* Properties *)

Probers ==
  [pc : {"idle", "asking", "probing", "answered"}, seen : BOOLEAN, generation : Nat,
   config : Configs, answer : Answers, crossed : BOOLEAN, later : SUBSET Checks,
   overtaken : BOOLEAN]

Records ==
  [generation : Nat, config : Configs, healthy : 0..RecoveryProbes,
   failed : 0..AutoTriggerFailures]

FailoverTypeOK ==
  /\ source \in [Targets -> Sources]
  /\ generation \in [Targets -> Nat]
  /\ standby \in [Targets -> BOOLEAN]
  /\ closing \subseteq Targets
  /\ setting \in [Targets -> {0, 1}]
  /\ revision \in Nat
  /\ owed \in Nat
  /\ record \in [Targets -> Records]
  /\ lease \in [Targets -> [holder : Checks \cup {NoCheck}, live : BOOLEAN]]
  /\ check \in [Checks -> Probers]
  /\ health \in [Targets -> Answers]
  /\ events \in 0..MaxEvents

\* A result reaches the record only if the switch has not moved since its probe began,
\* the configuration it saw is the present one, and no probe begun after it has been
\* recorded before it, whoever lost which lease meanwhile.
EvidenceIsFresh ==
  [][\A c \in Checks :
       Record(c) => /\ ~check[c].crossed
                    /\ ~check[c].overtaken
                    /\ check[c].config = Config(TargetOf[c])]_vars

\* For every target, probers, lease, generations and revisions together do no more
\* than the switch promises: evidence begins afresh with each move, two failures in a
\* row begin a failover, RecoveryProbes successes in a row end one the program began,
\* and what the operator began only the operator ends.
Switch(t) == INSTANCE StandbySwitch WITH
  Healthy <- RecoveryProbes, Failed <- AutoTriggerFailures,
  mode <- CASE source[t] = "none" -> "origin" [] source[t] = "manual" -> "manual"
            [] OTHER -> "auto",
  about <- record[t].config,
  good <- IF record[t].generation = generation[t] THEN record[t].healthy ELSE 0,
  bad <- IF record[t].generation = generation[t] THEN record[t].failed ELSE 0

ImplementsSwitch ==
  /\ \A t \in Targets : Switch(t)!SwitchInit
  /\ [][\A t \in Targets : Switch(t)!SwitchNext \/ UNCHANGED Switch(t)!switchVars]_vars

\* Once things are left alone, a failover the program began ends if the provider is
\* well again, whatever probes, leases or bumps were lost on the way.
RecoversInTheEnd ==
  \A t \in Probed :
    source[t] \in {"auto", "probe"} /\ health[t] = "up" ~>
      source[t] \notin {"auto", "probe"} \/ health[t] # "up"

\* And a provider that stays down is failed over, if there is a standby.
TripsInTheEnd ==
  \A t \in Probed :
    source[t] = "none" /\ health[t] = "down" /\ standby[t] ~>
      source[t] # "none" \/ health[t] # "down" \/ ~standby[t]

=============================================================================
