---------------------------- MODULE Failover_proofs ----------------------------
(***************************************************************************)
(* Proofs about Failover, for every set of targets and probers and every   *)
(* number of recovery probes: type correctness, that evidence is fresh,    *)
(* and that every step is a step of StandbySwitch for every target, or     *)
(* none.  FailoverInv is the inductive invariant: a probe that the switch  *)
(* has overtaken is of an older generation, one that a later probe has     *)
(* overtaken no longer holds the lease (ProberInv), and no record is about *)
(* a generation still to come.                                             *)
(***************************************************************************)
EXTENDS Failover, FiniteSetTheorems, TLAPS

\* What is known of a probe in flight.
ProberInv(c) ==
  /\ ~Began(c) => ~check[c].crossed /\ ~check[c].overtaken /\ check[c].later = {}
  /\ Began(c) => check[c].generation <= generation[TargetOf[c]]
  /\ Began(c) /\ check[c].crossed => check[c].generation < generation[TargetOf[c]]
  /\ Began(c) /\ (check[c].later # {} \/ check[c].overtaken) => ~Holds(c)

\* The inductive invariant.
FailoverInv ==
  /\ FailoverTypeOK
  /\ \A c \in Checks : ProberInv(c)
  /\ \A t \in Targets : record[t].generation <= generation[t]

\* It holds at the start.
LEMMA FailoverInit == Init => FailoverInv
BY FailoverAssumption DEF Init, FailoverInv, FailoverTypeOK, ProberInv, Began, Holds, Idle,
   NoRecord, Free, Configs, Sources, Answers, FailoverAssumption, AutoTriggerFailures,
   Probers, Records

\* A transition moves the source and the generation of its target, and no other.
LEMMA TransitType ==
  ASSUME FailoverTypeOK, NEW t \in Targets, NEW s \in Sources, Transit({t}, s)
  PROVE  /\ source' \in [Targets -> Sources] /\ generation' \in [Targets -> Nat] /\ owed' \in Nat
         /\ source'[t] = s /\ generation'[t] = generation[t] + 1
         /\ \A u \in Targets \ {t} : source'[u] = source[u] /\ generation'[u] = generation[u]
<1>1. Cardinality({t}) = 1
  BY FS_Singleton
<1>2. owed' \in Nat
  BY <1>1 DEF FailoverTypeOK, Transit
<1>3. source' \in [Targets -> Sources] /\ generation' \in [Targets -> Nat]
  BY DEF FailoverTypeOK, Transit
<1>4. source'[t] = s /\ generation'[t] = generation[t] + 1
  BY DEF Transit
<1>5. \A u \in Targets \ {t} : source'[u] = source[u] /\ generation'[u] = generation[u]
  BY DEF Transit
<1> QED BY <1>2, <1>3, <1>4, <1>5

\* Forgetting a prober leaves probers probers.
LEMMA GoneType ==
  ASSUME NEW c \in Checks, NEW ck \in [Checks -> Probers]
  PROVE  Gone(c, ck) \in [Checks -> Probers]
<1>1. Idle \in Probers
  BY DEF Idle, Probers, Configs, Answers
<1>2. \A d \in Checks : [ck[d] EXCEPT !.later = @ \ {c}] \in Probers
  BY DEF Probers
<1> QED
  BY <1>1, <1>2 DEF Gone

\* So does telling the others that its result is in the record,
LEMMA OvertakingType ==
  ASSUME NEW c \in Checks, FailoverTypeOK
  PROVE  Overtaking(c) \in [Checks -> Probers]
<1>1. ASSUME NEW d \in Checks
      PROVE  check[d] \in Probers /\ [check[d] EXCEPT !.overtaken = TRUE] \in Probers
             /\ [check[d] EXCEPT !.seen = FALSE] \in Probers
  <2>1. check[d] \in Probers
    BY DEF FailoverTypeOK
  <2> QED BY <2>1 DEF Probers
<1> QED
  BY <1>1 DEF Overtaking

\* and telling them that the switch has moved.
LEMMA CrossingType ==
  ASSUME FailoverTypeOK, NEW T
  PROVE  Crossing(T) \in [Checks -> Probers]
<1>1. ASSUME NEW d \in Checks
      PROVE  check[d] \in Probers /\ [check[d] EXCEPT !.crossed = TRUE] \in Probers
  <2>1. check[d] \in Probers
    BY DEF FailoverTypeOK
  <2> QED BY <2>1 DEF Probers
<1> QED BY <1>1 DEF Crossing

\* What _record_probe writes is a record.
LEMMA JudgedType ==
  ASSUME FailoverTypeOK, NEW c \in Checks
  PROVE  Judged(c) \in Records
<1>1. check[c] \in Probers /\ record[TargetOf[c]] \in Records
  BY FailoverAssumption DEF FailoverTypeOK, FailoverAssumption
<1> QED BY <1>1, FailoverAssumption DEF Records, Probers, Judged, AtMost, AutoTriggerFailures,
       FailoverAssumption, Answers

\* What a probe is about is a configuration.
LEMMA ConfigType ==
  ASSUME FailoverTypeOK, NEW t \in Targets
  PROVE  Config(t) \in Configs
BY DEF FailoverTypeOK, Config, Configs

\* Every step keeps the types.
LEMMA TypeStep ==
  ASSUME FailoverTypeOK, [Next]_vars
  PROVE  FailoverTypeOK'
<1> USE DEF switch, config
<1>0. /\ FailoverTypeOK
      /\ TargetOf \in [Checks -> Targets] /\ MaxEvents \in Nat
  BY FailoverAssumption DEF FailoverAssumption
<1>e. Event => events' \in 0..MaxEvents
  BY <1>0 DEF FailoverTypeOK, Event
<1>t. ASSUME NEW t \in Targets, NEW s \in Sources, Transit({t}, s)
      PROVE  source' \in [Targets -> Sources] /\ generation' \in [Targets -> Nat] /\ owed' \in Nat
  BY <1>0, <1>t, TransitType
<1>r. \A c \in Checks :
        Released(c) \in [Targets -> [holder : Checks \cup {NoCheck}, live : BOOLEAN]]
  BY <1>0 DEF Released, Free, FailoverTypeOK
<1>1. ASSUME NEW t \in Targets, NEW s \in {"auto", "manual"}, Event, Trigger(t, s)
      PROVE  FailoverTypeOK'
  <2>1. record' \in [Targets -> Records]
    <3>1. [record[t] EXCEPT !.healthy = 0] \in Records
      <4>1. record[t] \in Records
        BY DEF FailoverTypeOK
      <4> QED BY <4>1, FailoverAssumption DEF Records, FailoverAssumption
    <3> QED BY <3>1, <1>1 DEF FailoverTypeOK, Trigger
  <2>2. check' \in [Checks -> Probers]
    BY <1>1, CrossingType DEF Trigger
  <2>3. s \in Sources BY DEF Sources
  <2> QED BY <1>0, <1>e, <1>t, <1>1, <2>1, <2>2, <2>3 DEF Trigger, FailoverTypeOK
<1>2. ASSUME NEW t \in Targets, ManualCancel(t) \/ CloseDisabled(t) PROVE FailoverTypeOK'
  <2>1. "none" \in Sources BY DEF Sources
  <2>2. CASE ManualCancel(t)
    BY <1>0, <1>e, <1>t, <2>1, <2>2, CrossingType DEF ManualCancel, FailoverTypeOK
  <2>3. CASE CloseDisabled(t)
    <3>1. /\ source' \in [Targets -> Sources] /\ generation' \in [Targets -> Nat] /\ owed' \in Nat
          /\ check' \in [Checks -> Probers]
      <4>1. CASE MayCancel(t, "manual")
        BY <1>0, <1>t, <2>1, <2>3, <4>1, CrossingType DEF CloseDisabled
      <4>2. CASE ~MayCancel(t, "manual")
        BY <1>0, <2>3, <4>2 DEF CloseDisabled, FailoverTypeOK
      <4> QED BY <4>1, <4>2
    <3> QED BY <1>0, <2>3, <3>1 DEF CloseDisabled, FailoverTypeOK
  <2> QED BY <1>2, <2>2, <2>3
<1>3. ASSUME NEW t \in Targets, Edit(t) \/ Enable(t) \/ Disable(t) \/ HealthChanges(t)
      PROVE  FailoverTypeOK'
  <2>1. CASE Edit(t)
    <3>1. setting' \in [Targets -> {0, 1}]
      BY <1>0, <2>1 DEF Edit, FailoverTypeOK
    <3> QED BY <1>0, <1>e, <2>1, <3>1 DEF Edit, FailoverTypeOK
  <2>2. CASE Enable(t)
    BY <1>0, <1>e, <2>2 DEF Enable, FailoverTypeOK
  <2>3. CASE Disable(t)
    BY <1>0, <1>e, <2>3, FailoverAssumption
       DEF Disable, FailoverTypeOK, Siblings, FailoverAssumption
  <2>4. CASE HealthChanges(t)
    BY <1>0, <1>e, <2>4 DEF HealthChanges, FailoverTypeOK
  <2> QED BY <1>3, <2>1, <2>2, <2>3, <2>4
<1>4. ASSUME NEW t \in Targets, Stall(t) \/ Expire(t) PROVE FailoverTypeOK'
  <2>1. lease' \in [Targets -> [holder : Checks \cup {NoCheck}, live : BOOLEAN]]
    <3> DEFINE L == [holder : Checks \cup {NoCheck}, live : BOOLEAN]
    <3>1. lease[t] \in L
      BY <1>0 DEF FailoverTypeOK
    <3>2. [lease[t] EXCEPT !.live = FALSE] \in L
      BY <3>1
    <3>3. lease' = [lease EXCEPT ![t] = [lease[t] EXCEPT !.live = FALSE]]
      BY <1>4 DEF Stall, Expire
    <3> HIDE DEF L
    <3>4. lease' \in [Targets -> L]
      BY <1>0, <3>2, <3>3 DEF FailoverTypeOK, L
    <3> QED BY <3>4 DEF L
  <2> QED BY <1>0, <1>e, <1>4, <2>1 DEF Stall, Expire, FailoverTypeOK
<1>5. CASE Bump \/ BumpLost
  BY <1>0, <1>e, <1>5 DEF Bump, BumpLost, FailoverTypeOK
<1>6. ASSUME NEW c \in Checks, Record(c) PROVE FailoverTypeOK'
  <2> DEFINE t == TargetOf[c]
             after == [d \in Checks |-> IF Began(d) /\ TargetOf[d] = t
                         THEN [Overtaking(c)[d] EXCEPT !.crossed = TRUE] ELSE Overtaking(c)[d]]
  <2>0. t \in Targets BY <1>0
  <2>1. record' \in [Targets -> Records]
    BY <1>0, <1>6, JudgedType DEF Record, FailoverTypeOK
  <2>2. after \in [Checks -> Probers]
    <3>1. ASSUME NEW o \in Probers PROVE [o EXCEPT !.crossed = TRUE] \in Probers
      BY DEF Probers
    <3> QED BY <3>1, OvertakingType
  <2>3. check' = Gone(c, after) \/ check' = Gone(c, Overtaking(c))
    BY <1>6 DEF Record
  <2>4. check' \in [Checks -> Probers]
    BY <2>2, <2>3, OvertakingType, GoneType
  <2>5. source' \in [Targets -> Sources] /\ generation' \in [Targets -> Nat] /\ owed' \in Nat
    <3>1. CASE Trips(c) \/ Recovers(c)
      <4>1. PICK s \in {"probe", "none"} : Transit({t}, s)
        BY <1>6, <3>1 DEF Record
      <4>2. s \in Sources BY DEF Sources
      <4> QED BY <1>t, <2>0, <4>1, <4>2
    <3>2. CASE ~(Trips(c) \/ Recovers(c))
      BY <1>0, <1>6, <3>2 DEF Record, FailoverTypeOK
    <3> QED BY <3>1, <3>2
  <2> QED BY <1>0, <1>r, <1>6, <2>1, <2>4, <2>5 DEF Record, FailoverTypeOK
<1>7. ASSUME NEW c \in Checks, Drop(c) \/ Abandon(c) \/ Dies(c) PROVE FailoverTypeOK'
  <2>1. check' \in [Checks -> Probers]
    BY <1>0, <1>7, GoneType DEF Drop, Abandon, Dies, FailoverTypeOK
  <2> QED BY <1>0, <1>e, <1>r, <1>7, <2>1 DEF Drop, Abandon, Dies, FailoverTypeOK
<1>8. ASSUME NEW c \in Checks, Begin(c) \/ GiveUp(c) \/ Answer(c) PROVE FailoverTypeOK'
  <2>1. check[c] \in Probers /\ Idle \in Probers /\ health[TargetOf[c]] \in Answers
    BY <1>0 DEF FailoverTypeOK, Idle, Probers, Configs, Answers
  <2>2. \A h \in Answers : [[check[c] EXCEPT !.pc = "answered"] EXCEPT !.answer = h] \in Probers
    BY <2>1 DEF Probers
  <2>3. [check[c] EXCEPT !.pc = "asking"] \in Probers
    BY <2>1 DEF Probers
  <2>4. check' \in [Checks -> Probers]
    BY <1>0, <1>8, <2>1, <2>2, <2>3 DEF Begin, GiveUp, Answer, FailoverTypeOK
  <2> QED BY <1>0, <1>8, <2>4 DEF Begin, GiveUp, Answer, FailoverTypeOK
<1>9. ASSUME NEW c \in Checks, Claim(c) PROVE FailoverTypeOK'
  <2>1. Config(TargetOf[c]) \in Configs /\ generation[TargetOf[c]] \in Nat
    BY <1>0, ConfigType DEF FailoverTypeOK
  <2>2. ASSUME NEW d \in Checks PROVE check'[d] \in Probers
    <3>1. check[d] \in Probers
      BY <1>0 DEF FailoverTypeOK
    <3> QED BY <1>9, <2>1, <3>1 DEF Claim, Probers
  <2>3. check' \in [Checks -> Probers]
    BY <1>9, <2>2 DEF Claim
  <2> QED BY <1>0, <1>9, <2>3 DEF Claim, FailoverTypeOK
<1>10. ASSUME NEW c \in Checks, Renew(c) PROVE FailoverTypeOK'
  BY <1>0, <1>10 DEF Renew, FailoverTypeOK
<1>11. CASE UNCHANGED vars
  BY <1>0, <1>11 DEF vars, FailoverTypeOK
<1> QED
  BY <1>1, <1>2, <1>3, <1>4, <1>5, <1>6, <1>7, <1>8, <1>9, <1>10, <1>11
     DEF Next, CheckStep, OutsideStep, ManualTrigger, CallFails
-----------------------------------------------------------------------------

\* Every step keeps what is known of a probe in flight.
LEMMA ProberInvStep ==
  ASSUME FailoverInv, [Next]_vars, NEW d \in Checks
  PROVE  ProberInv(d)'
<1> USE DEF switch, config
<1> DEFINE u == TargetOf[d]
<1>0. /\ FailoverTypeOK /\ ProberInv(d)
      /\ TargetOf \in [Checks -> Targets] /\ u \in Targets
      /\ check[d] \in Probers /\ generation[u] \in Nat /\ check[d].generation \in Nat
      /\ NoCheck \notin Checks
  BY FailoverAssumption DEF FailoverInv, FailoverTypeOK, FailoverAssumption, Probers
\* Nothing it rests on is touched.
<1>1. ASSUME check'[d] = check[d], generation'[u] = generation[u],
             lease'[u].holder = lease[u].holder
      PROVE  ProberInv(d)'
  BY <1>0, <1>1 DEF ProberInv, Began, Holds
\* The switch of a target moves.
<1>2. ASSUME NEW t \in Targets, NEW s \in Sources, Transit({t}, s), check' = Crossing({t}),
             lease' = lease
      PROVE  ProberInv(d)'
  <2>1. /\ generation'[t] = generation[t] + 1
        /\ t # u => generation'[u] = generation[u]
    BY <1>0, <1>2, TransitType
  <2>2. check'[d] = IF Began(d) /\ u = t THEN [check[d] EXCEPT !.crossed = TRUE] ELSE check[d]
    BY <1>2 DEF Crossing
  <2>3. CASE u = t
    <3>1. CASE Began(d)
      <4>1. check'[d] = [check[d] EXCEPT !.crossed = TRUE] /\ generation'[u] = generation[u] + 1
        BY <2>1, <2>2, <2>3, <3>1
      <4> QED BY <1>0, <1>2, <3>1, <4>1 DEF ProberInv, Began, Holds, Probers
    <3>2. CASE ~Began(d)
      <4>1. check'[d] = check[d]
        BY <2>2, <3>2
      <4> QED BY <1>0, <3>2, <4>1 DEF ProberInv, Began
    <3> QED BY <3>1, <3>2
  <2>4. CASE u # t
    BY <1>0, <1>2, <2>1, <2>2, <2>4 DEF ProberInv, Began, Holds
  <2> QED BY <2>3, <2>4
<1>3. ASSUME NEW t \in Targets,
             ManualTrigger(t) \/ CallFails(t) \/ ManualCancel(t) \/ CloseDisabled(t)
      PROVE  ProberInv(d)'
  <2>0. {"auto", "manual", "none"} \subseteq Sources
    BY DEF Sources
  <2>1. CASE ManualTrigger(t) \/ CallFails(t) \/ ManualCancel(t)
    BY <1>2, <2>0, <2>1 DEF ManualTrigger, CallFails, ManualCancel, Trigger
  <2>2. CASE CloseDisabled(t)
    BY <1>1, <1>2, <2>0, <2>2 DEF CloseDisabled
  <2> QED BY <1>3, <2>1, <2>2
<1>4. ASSUME NEW t \in Targets,
             Edit(t) \/ Enable(t) \/ Disable(t) \/ HealthChanges(t) \/ Stall(t) \/ Expire(t)
      PROVE  ProberInv(d)'
  <2>1. check' = check /\ generation' = generation
    BY <1>4 DEF Edit, Enable, Disable, HealthChanges, Stall, Expire
  <2>2. lease' = lease \/ lease' = [lease EXCEPT ![t].live = FALSE]
    BY <1>4 DEF Edit, Enable, Disable, HealthChanges, Stall, Expire
  <2>3. lease'[u].holder = lease[u].holder
    BY <1>0, <2>2 DEF FailoverTypeOK
  <2> QED BY <1>1, <2>1, <2>3
<1>5. CASE Bump \/ BumpLost \/ UNCHANGED vars
  BY <1>1, <1>5 DEF Bump, BumpLost, vars
<1>6. ASSUME NEW c \in Checks, Renew(c) PROVE ProberInv(d)'
  <2>1. lease'[u].holder = lease[u].holder
    BY <1>0, <1>6 DEF Renew, FailoverTypeOK
  <2> QED BY <1>1, <1>6, <2>1 DEF Renew
<1>7. ASSUME NEW c \in Checks, Begin(c) \/ GiveUp(c) \/ Answer(c) PROVE ProberInv(d)'
  <2>1. lease' = lease /\ generation' = generation
    BY <1>7 DEF Begin, GiveUp, Answer
  <2>2. CASE c # d
    BY <1>0, <1>1, <1>7, <2>1, <2>2 DEF Begin, GiveUp, Answer, FailoverTypeOK
  <2>3. CASE c = d
    <3>1. CASE Begin(c)
      BY <1>0, <2>1, <2>3, <3>1 DEF Begin, ProberInv, Began, Holds, FailoverTypeOK, Probers
    <3>2. CASE GiveUp(c)
      BY <1>0, <2>1, <2>3, <3>2 DEF GiveUp, ProberInv, Began, Holds, FailoverTypeOK, Probers, Idle
    <3>3. CASE Answer(c)
      BY <1>0, <2>1, <2>3, <3>3 DEF Answer, ProberInv, Began, Holds, FailoverTypeOK, Probers
    <3> QED BY <1>7, <3>1, <3>2, <3>3
  <2> QED BY <2>2, <2>3
<1>8. ASSUME NEW c \in Checks, Claim(c) PROVE ProberInv(d)'
  <2> DEFINE t == TargetOf[c]
  <2>0. /\ t \in Targets /\ generation' = generation
        /\ lease' = [lease EXCEPT ![t] = [holder |-> c, live |-> TRUE]]
        /\ check[c] \in Probers /\ ~Began(c) /\ ProberInv(c)
    BY <1>0, <1>8 DEF Claim, MayClaim, Began, FailoverTypeOK, FailoverInv
  <2>1. CASE c = d
    <3>1. check'[d] = [check[d] EXCEPT !.pc = "probing", !.generation = generation[u],
                                          !.config = Config(u)]
      BY <1>8, <2>1 DEF Claim
    <3> QED BY <1>0, <2>0, <2>1, <3>1 DEF ProberInv, Began, Holds, Probers
  <2>2. CASE c # d /\ u = t
    <3>1. lease'[u].holder = c
      BY <1>0, <2>0, <2>2 DEF FailoverTypeOK
    <3>2. check'[d] = IF Began(d) THEN [check[d] EXCEPT !.later = @ \cup {c}] ELSE check[d]
      BY <1>8, <2>2 DEF Claim
    <3> QED BY <1>0, <2>0, <2>2, <3>1, <3>2 DEF ProberInv, Began, Holds, Probers
  <2>3. CASE c # d /\ u # t
    <3>1. check'[d] = check[d]
      BY <1>8, <2>3 DEF Claim
    <3>2. lease'[u] = lease[u]
      BY <1>0, <2>0, <2>3 DEF FailoverTypeOK
    <3> QED BY <1>1, <2>0, <3>1, <3>2
  <2> QED BY <2>1, <2>2, <2>3
\* A probe is over: its lease is given back, or not.
<1>r. ASSUME NEW c \in Checks, c # d PROVE Released(c)[u].holder \in {lease[u].holder, NoCheck}
  BY <1>0 DEF Released, Free, FailoverTypeOK
<1>9. ASSUME NEW c \in Checks, Drop(c) \/ Abandon(c) \/ Dies(c) PROVE ProberInv(d)'
  <2>1. generation' = generation /\ check' = Gone(c, check)
    BY <1>9 DEF Drop, Abandon, Dies
  <2>2. lease' = Released(c) \/ lease' = lease
    BY <1>9 DEF Drop, Abandon, Dies
  <2>3. CASE c = d
    <3>1. check'[d] = Idle
      BY <2>1, <2>3 DEF Gone
    <3> QED BY <3>1 DEF ProberInv, Began, Idle
  <2>4. CASE c # d
    <3>1. check'[d] = [check[d] EXCEPT !.later = @ \ {c}]
      BY <2>1, <2>4 DEF Gone
    <3>2. lease'[u].holder \in {lease[u].holder, NoCheck}
      BY <1>r, <2>2, <2>4
    <3> QED BY <1>0, <2>1, <3>1, <3>2 DEF ProberInv, Began, Holds, Probers
  <2> QED BY <2>3, <2>4
<1>10. ASSUME NEW c \in Checks, Record(c) PROVE ProberInv(d)'
  <2> DEFINE t == TargetOf[c]
             after == [e \in Checks |-> IF Began(e) /\ TargetOf[e] = t
                         THEN [Overtaking(c)[e] EXCEPT !.crossed = TRUE] ELSE Overtaking(c)[e]]
  <2>0. t \in Targets /\ lease' = Released(c)
    BY <1>0, <1>10 DEF Record
  <2>1. CASE c = d
    <3>1. check'[d] = Idle
      BY <1>10, <2>1 DEF Record, Gone
    <3> QED BY <3>1 DEF ProberInv, Began, Idle
  <2>2. CASE c # d
    <3> DEFINE o == Overtaking(c)[d]
    <3>1. lease'[u].holder \in {lease[u].holder, NoCheck}
      BY <1>r, <2>0, <2>2
    <3>2. /\ o \in Probers /\ o.pc = check[d].pc /\ o.crossed = check[d].crossed
          /\ o.generation = check[d].generation /\ o.later = check[d].later
          /\ o.overtaken => check[d].overtaken \/ (Began(d) /\ check[d].later # {})
      BY <1>0 DEF Overtaking, Probers, Began
    <3>3. CASE Trips(c) \/ Recovers(c)
      <4>1. PICK s \in {"probe", "none"} : Transit({t}, s)
        BY <1>10, <3>3 DEF Record
      <4>2. s \in Sources
        BY DEF Sources
      <4>3. generation'[t] = generation[t] + 1 /\ (u # t => generation'[u] = generation[u])
        BY <1>0, <2>0, <4>1, <4>2, TransitType
      <4>4. check'[d] = [after[d] EXCEPT !.later = @ \ {c}]
        BY <1>10, <2>2, <3>3 DEF Record, Gone
      <4>5. CASE u = t
        BY <1>0, <3>1, <3>2, <4>3, <4>4, <4>5 DEF ProberInv, Began, Holds, Probers
      <4>6. CASE u # t
        BY <1>0, <3>1, <3>2, <4>3, <4>4, <4>6 DEF ProberInv, Began, Holds, Probers
      <4> QED BY <4>5, <4>6
    <3>4. CASE ~(Trips(c) \/ Recovers(c))
      <4>1. generation' = generation /\ check'[d] = [o EXCEPT !.later = @ \ {c}]
        BY <1>10, <2>2, <3>4 DEF Record, Gone
      <4> QED BY <1>0, <3>1, <3>2, <4>1 DEF ProberInv, Began, Holds, Probers
    <3> QED BY <3>3, <3>4
  <2> QED BY <2>1, <2>2
<1> QED
  BY <1>3, <1>4, <1>5, <1>6, <1>7, <1>8, <1>9, <1>10 DEF Next, CheckStep, OutsideStep

\* What a step does to the switch and the record of one target.
LEMMA SwitchStep ==
  ASSUME FailoverInv, [Next]_vars, NEW t \in Targets
  PROVE  \/ source'[t] = source[t] /\ generation'[t] = generation[t] /\ record'[t] = record[t]
         \/ /\ generation'[t] = generation[t] + 1
            /\ record'[t].generation = record[t].generation
            /\ record'[t].config = record[t].config
            /\ \/ source[t] = "none" /\ source'[t] = "auto"
               \/ source[t] # "manual" /\ source'[t] = "manual"
               \/ source[t] # "none" /\ source'[t] = "none"
         \/ \E c \in Checks : Record(c) /\ TargetOf[c] = t
<1> USE DEF switch, config
<1> DEFINE Same == /\ source'[t] = source[t] /\ generation'[t] = generation[t]
                   /\ record'[t] = record[t]
           Moved == /\ generation'[t] = generation[t] + 1
                    /\ record'[t].generation = record[t].generation
                    /\ record'[t].config = record[t].config
                    /\ \/ source[t] = "none" /\ source'[t] = "auto"
                       \/ source[t] # "manual" /\ source'[t] = "manual"
                       \/ source[t] # "none" /\ source'[t] = "none"
<1>0. FailoverTypeOK /\ record[t] \in Records /\ TargetOf \in [Checks -> Targets]
      /\ {"auto", "manual", "probe", "none"} \subseteq Sources
  BY FailoverAssumption DEF FailoverInv, FailoverTypeOK, FailoverAssumption, Sources
<1>1. ASSUME NEW k \in Targets, NEW s \in {"auto", "manual"}, Trigger(k, s) PROVE Same \/ Moved
  <2>1. /\ source'[k] = s /\ generation'[k] = generation[k] + 1
        /\ k # t => source'[t] = source[t] /\ generation'[t] = generation[t]
    BY <1>0, <1>1, TransitType DEF Trigger
  <2>2. CASE k = t
    <3>1. record'[t] = [record[t] EXCEPT !.healthy = 0]
      BY <1>0, <1>1, <2>2 DEF Trigger, FailoverTypeOK
    <3> QED BY <1>0, <1>1, <2>1, <2>2, <3>1 DEF Trigger, MayTrigger, Records
  <2>3. CASE k # t
    BY <1>0, <1>1, <2>1, <2>3 DEF Trigger, FailoverTypeOK
  <2> QED BY <2>2, <2>3
<1>2. ASSUME NEW k \in Targets, ManualCancel(k) \/ CloseDisabled(k) PROVE Same \/ Moved
  <2>1. record' = record
    BY <1>2 DEF ManualCancel, CloseDisabled
  <2>2. \/ source' = source /\ generation' = generation
        \/ MayCancel(k, "manual") /\ Transit({k}, "none")
    BY <1>2 DEF ManualCancel, CloseDisabled
  <2>3. ASSUME Transit({k}, "none"), MayCancel(k, "manual") PROVE Same \/ Moved
    <3>1. /\ source'[k] = "none" /\ generation'[k] = generation[k] + 1
          /\ k # t => source'[t] = source[t] /\ generation'[t] = generation[t]
      BY <1>0, <2>3, TransitType
    <3> QED BY <2>1, <2>3, <3>1 DEF MayCancel
  <2> QED BY <2>1, <2>2, <2>3
<1>3. ASSUME NEW k \in Targets,
             Edit(k) \/ Enable(k) \/ Disable(k) \/ HealthChanges(k) \/ Stall(k) \/ Expire(k)
      PROVE  Same
  BY <1>3 DEF Edit, Enable, Disable, HealthChanges, Stall, Expire
<1>4. ASSUME NEW c \in Checks,
             \/ Begin(c) \/ GiveUp(c) \/ Claim(c) \/ Answer(c) \/ Drop(c)
             \/ Abandon(c) \/ Dies(c) \/ Renew(c)
      PROVE  Same
  BY <1>4 DEF Begin, GiveUp, Claim, Answer, Drop, Abandon, Dies, Renew
<1>5. ASSUME NEW c \in Checks, Record(c), TargetOf[c] # t PROVE Same
  <2>1. record'[t] = record[t]
    BY <1>0, <1>5 DEF Record, FailoverTypeOK
  <2>2. CASE Trips(c) \/ Recovers(c)
    <3>1. PICK s \in {"probe", "none"} : Transit({TargetOf[c]}, s)
      BY <1>5, <2>2 DEF Record
    <3> QED BY <1>0, <1>5, <2>1, <3>1, TransitType
  <2>3. CASE ~(Trips(c) \/ Recovers(c))
    BY <1>5, <2>1, <2>3 DEF Record
  <2> QED BY <2>2, <2>3
<1>6. CASE Bump \/ BumpLost \/ UNCHANGED vars
  BY <1>6 DEF Bump, BumpLost, vars
<1> QED
  BY <1>1, <1>2, <1>3, <1>4, <1>5, <1>6 DEF Next, CheckStep, OutsideStep, ManualTrigger, CallFails
\* The record of a target is about its present generation or an earlier one.
LEMMA RecordStep ==
  ASSUME FailoverInv, [Next]_vars, NEW t \in Targets
  PROVE  record'[t].generation <= generation'[t]
<1>0. /\ FailoverTypeOK /\ record[t] \in Records /\ generation[t] \in Nat
      /\ record[t].generation <= generation[t] /\ record[t].generation \in Nat
  BY DEF FailoverInv, FailoverTypeOK, Records
<1>1. ASSUME NEW c \in Checks, Record(c), TargetOf[c] = t
      PROVE  /\ record'[t].generation = generation[t]
             /\ generation'[t] \in {generation[t], generation[t] + 1}
  <2>1. record'[t] = Judged(c) /\ check[c].generation = generation[t]
    BY <1>0, <1>1 DEF Record, Accepted, Current, FailoverTypeOK
  <2>2. generation'[t] \in {generation[t], generation[t] + 1}
    <3>1. CASE Trips(c) \/ Recovers(c)
      <4>1. PICK s \in {"probe", "none"} : Transit({t}, s)
        BY <1>1, <3>1 DEF Record
      <4>2. s \in Sources
        BY DEF Sources
      <4> QED BY <1>0, <4>1, <4>2, TransitType
    <3>2. CASE ~(Trips(c) \/ Recovers(c))
      BY <1>1, <3>2 DEF Record
    <3> QED BY <3>1, <3>2
  <2> QED BY <2>1, <2>2 DEF Judged
<1> QED BY <1>0, <1>1, SwitchStep

\* The invariant is inductive.
THEOREM FailoverInvariant == Spec => []FailoverInv
<1>1. FailoverInv /\ [Next]_vars => FailoverInv'
  <2> SUFFICES ASSUME FailoverInv, [Next]_vars PROVE FailoverInv'
    OBVIOUS
  <2>1. FailoverTypeOK'
    BY TypeStep DEF FailoverInv
  <2>2. \A c \in Checks : ProberInv(c)'
    BY ProberInvStep
  <2>3. \A t \in Targets : record'[t].generation <= generation'[t]
    BY RecordStep
  <2> QED BY <2>1, <2>2, <2>3 DEF FailoverInv
<1> QED BY <1>1, FailoverInit, PTL DEF Spec

\* Type correctness of the switch, the probe leases, the records and the probers.
THEOREM FailoverTypeCorrect == Spec => []FailoverTypeOK
BY FailoverInvariant, PTL DEF FailoverInv

\* _record_probe takes no result from before a transition, about another configuration,
\* or older than what is recorded, whatever happens to the prober and its lease.
THEOREM EvidenceIsAlwaysFresh == Spec => EvidenceIsFresh
<1>1. FailoverInv =>
        [\A c \in Checks : Record(c) => /\ ~check[c].crossed
                                        /\ ~check[c].overtaken
                                        /\ check[c].config = Config(TargetOf[c])]_vars
  <2> SUFFICES ASSUME FailoverInv, NEW c \in Checks, Record(c)
               PROVE  /\ ~check[c].crossed /\ ~check[c].overtaken
                      /\ check[c].config = Config(TargetOf[c])
    OBVIOUS
  <2>1. Began(c) /\ Holds(c) /\ Current(c)
    BY DEF Record, Began, Accepted
  <2>2. check[c] \in Probers /\ TargetOf[c] \in Targets /\ generation[TargetOf[c]] \in Nat
    BY FailoverAssumption DEF FailoverInv, FailoverTypeOK, FailoverAssumption
  <2> QED BY <2>1, <2>2 DEF FailoverInv, ProberInv, Current, Probers
<1> QED BY <1>1, FailoverInvariant, PTL DEF EvidenceIsFresh

\* Every step is one of the abstract switch of a target, or leaves it alone.
LEMMA RefinementStep ==
  ASSUME FailoverInv, [Next]_vars, NEW t \in Targets
  PROVE  Switch(t)!SwitchNext \/ UNCHANGED Switch(t)!switchVars
<1> USE DEF Switch!switchVars, Switch!SwitchNext
<1>0. /\ FailoverTypeOK /\ record[t] \in Records /\ generation[t] \in Nat
      /\ record[t].generation <= generation[t] /\ record[t].generation \in Nat
      /\ source[t] \in Sources
  BY DEF FailoverInv, FailoverTypeOK, Records
<1>1. CASE source'[t] = source[t] /\ generation'[t] = generation[t] /\ record'[t] = record[t]
  BY <1>1
\* The switch moves: the record is of an older generation.
<1>2. CASE /\ generation'[t] = generation[t] + 1
           /\ record'[t].generation = record[t].generation
           /\ record'[t].config = record[t].config
           /\ \/ source[t] = "none" /\ source'[t] = "auto"
              \/ source[t] # "manual" /\ source'[t] = "manual"
              \/ source[t] # "none" /\ source'[t] = "none"
  <2>1. record'[t].generation # generation'[t]
    BY <1>0, <1>2
  <2>2. CASE source[t] = "none" /\ source'[t] = "auto"
    BY <1>2, <2>1, <2>2 DEF Switch!CallFailed, Switch!Fresh
  <2>3. CASE source[t] # "manual" /\ source'[t] = "manual"
    BY <1>2, <2>1, <2>3 DEF Switch!OperatorMoves, Switch!Fresh
  <2>4. CASE source[t] # "none" /\ source'[t] = "none"
    BY <1>2, <2>1, <2>4 DEF Switch!OperatorMoves, Switch!Fresh
  <2> QED BY <1>2, <2>2, <2>3, <2>4
\* A result is recorded: its generation is the present one.
<1>3. ASSUME NEW c \in Checks, Record(c), TargetOf[c] = t
      PROVE  Switch(t)!SwitchNext
  <2> DEFINE same == record[t].config = record'[t].config
             good == IF record[t].generation = generation[t] THEN record[t].healthy ELSE 0
             bad == IF record[t].generation = generation[t] THEN record[t].failed ELSE 0
             answered == AtMost((IF same THEN good ELSE 0) + 1, RecoveryProbes)
             silent == AtMost((IF same THEN bad ELSE 0) + 1, AutoTriggerFailures)
  <2>1. /\ record'[t] = Judged(c) /\ check[c].generation = generation[t]
        /\ check[c].answer \in Answers
    BY <1>0, <1>3 DEF Record, Accepted, Current, FailoverTypeOK, Probers
  <2>2. /\ record'[t].generation = generation[t]
        /\ record'[t].healthy = CASE check[c].answer = "up" -> answered
                                   [] check[c].answer = "down" -> 0
                                   [] OTHER -> IF same THEN good ELSE 0
        /\ record'[t].failed = CASE check[c].answer = "up" -> 0
                                  [] check[c].answer = "down" -> silent
                                  [] OTHER -> IF same THEN bad ELSE 0
    BY <1>3, <2>1 DEF Judged, SameContext
  <2>3. /\ Switch(t)!Answered = answered
        /\ Switch(t)!Silent = silent
    BY DEF Switch!Answered, Switch!Silent, Switch!AtMost, AtMost
  <2>4. CASE ~(Trips(c) \/ Recovers(c))
    <3>1. source' = source /\ generation' = generation
      BY <1>3, <2>4 DEF Record
    <3>2. CASE check[c].answer = "up"
      BY <2>2, <2>3, <3>1, <3>2 DEF Switch!SeesUp
    <3>3. CASE check[c].answer = "down"
      BY <2>2, <2>3, <3>1, <3>3 DEF Switch!SeesDown
    <3>4. CASE check[c].answer = "busy"
      BY <2>2, <3>1, <3>4 DEF Switch!SeesNothing
    <3> QED BY <2>1, <3>2, <3>3, <3>4 DEF Answers
  <2>5. CASE Trips(c)
    <3>1. Transit({t}, "probe") /\ "probe" \in Sources
      BY <1>3, <2>5 DEF Record, Sources
    <3>2. source'[t] = "probe" /\ generation'[t] = generation[t] + 1
      BY <1>0, <3>1, TransitType
    <3>3. generation'[t] # record'[t].generation
      BY <1>0, <2>2, <3>2
    <3>4. silent = AutoTriggerFailures /\ source[t] = "none"
      BY <1>0, <1>3, <2>1, <2>2, <2>5 DEF Trips, AtMost, AutoTriggerFailures, Records
    <3> QED BY <2>3, <3>2, <3>3, <3>4 DEF Switch!SeesDown, Switch!Fresh
  <2>6. CASE ~Trips(c) /\ Recovers(c)
    <3>1. Transit({t}, "none") /\ "none" \in Sources
      BY <1>3, <2>6 DEF Record, Sources
    <3>2. source'[t] = "none" /\ generation'[t] = generation[t] + 1
      BY <1>0, <3>1, TransitType
    <3>3. generation'[t] # record'[t].generation
      BY <1>0, <2>2, <3>2
    <3>4. answered = RecoveryProbes /\ source[t] # "none" /\ source[t] # "manual"
      BY <1>0, <1>3, <2>1, <2>2, <2>6, FailoverAssumption
         DEF Recovers, MayCancel, AtMost, Records, FailoverAssumption
    <3> QED BY <2>3, <3>2, <3>3, <3>4 DEF Switch!SeesUp, Switch!Fresh
  <2> QED BY <2>4, <2>5, <2>6
<1> QED BY <1>1, <1>2, <1>3, SwitchStep

\* Probing through leases, generations and records implements the switch.
THEOREM FailoverImplementsSwitch == Spec => ImplementsSwitch
<1>1. Init => \A t \in Targets : Switch(t)!SwitchInit
  BY DEF Init, Switch!SwitchInit, NoRecord
<1>2. FailoverInv /\ [Next]_vars =>
        [\A t \in Targets : Switch(t)!SwitchNext \/ UNCHANGED Switch(t)!switchVars]_vars
  BY RefinementStep
<1> QED BY <1>1, <1>2, FailoverInvariant, PTL DEF Spec, ImplementsSwitch
==============================================================================
