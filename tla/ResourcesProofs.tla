------------------------- MODULE ResourcesProofs -------------------------
(***************************************************************************)
(* Theorems about Resources, for any number of agents, runs and faults.    *)
(* The invariant is built in layers, each proved with the ones before it:  *)
(* Typed fixes the shapes; RunInv is about the processes alone, which      *)
(* workers a run has, how much is left of the plan of the one being        *)
(* started, and what the workers of a run that is over still do; CleanInv  *)
(* and VerifyInv say what cmd/cleanup and cmd/verify still have to delete; *)
(* ProvidedInv says that what a worker was given is on the server, and     *)
(* SettingsInv that a clean start found it as it was asked for.            *)
(***************************************************************************)
EXTENDS Resources, TLAPS

Clients == {"client", "subClient", "probeClient", "schemaClient", "native"}
Steps == Roles \cup Clients \cup {"launch"}

-----------------------------------------------------------------------------
AllPrefixes == {Prefix[a] : a \in Agents} \cup {<<"verify">>}
NameSet == [prefix : AllPrefixes, kind : WorkerTypes \cup {"rt", "interop"}, role : Roles]
VerifyNames == {x \in NameSet : x.prefix = <<"verify">>}

EngineRecord ==
    [state : {"idle", "starting", "up", "stopping", "stopped", "error"}, run : Nat,
     cfg : Nat \ {0}, queue : Seq(WorkerTypes), kind : WorkerTypes \cup {"none"},
     plan : Seq(Steps), cancelled : BOOLEAN]

Worker == [agent : Agents, run : Nat \ {0}, kind : WorkerTypes, handles : SUBSET Clients,
           receiving : SUBSET NameSet, stopped : BOOLEAN]

Cleaner == [stage : 0 .. 4, todo : SUBSET NameSet, missed : BOOLEAN]

Verifier == [todo : Seq(VerifyNames), registered : Seq(VerifyNames), missed : BOOLEAN]

Typed ==
    /\ scenario \in Scenarios
    /\ DOMAIN present \subseteq NameSet /\ \A x \in DOMAIN present : present[x] \in Nat \ {0}
    /\ engine \in [Agents -> EngineRecord]
    /\ workers \subseteq Worker
    /\ cleaner \in [Agents -> Cleaner]
    /\ verifier \in Verifier
    /\ faults \in 0 .. MaxFaults
    /\ clean \in [Agents -> BOOLEAN] /\ fresh \in [Agents -> BOOLEAN] /\ hurt \in [Agents -> BOOLEAN]
    /\ DOMAIN over = Agents
    /\ \A a \in Agents : over[a] \in [1 .. MaxRuns[a] -> {"no", "error", "early", "shutdown"}]

(* What is left of the plan of the worker being started is the end of its Start. *)
PlanRest(a) ==
    LET all == Plan(engine[a].kind)
        rest == engine[a].plan
    IN  /\ engine[a].kind \in WorkerTypes
        /\ Len(rest) <= Len(all)
        /\ \A i \in 1 .. Len(rest) : rest[i] = all[Len(all) - Len(rest) + i]
        /\ \E w \in workers : w.agent = a /\ w.run = engine[a].run /\ w.kind = engine[a].kind

AgentInv(a) ==
    /\ engine[a].run <= MaxRuns[a]
    /\ Active(a) => engine[a].run > 0
    /\ engine[a].state # "starting" => engine[a].plan = <<>> /\ engine[a].queue = <<>>
    /\ engine[a].state = "idle" => \A w \in workers : w.agent # a
    /\ cleaner[a].stage > 0 \/ clean[a] => engine[a].state = "idle"
    /\ cleaner[a].stage = 0 => cleaner[a].todo = {}
    /\ \A x \in cleaner[a].todo :
          x.role \in Stages[cleaner[a].stage] /\ HasPrefix(x.prefix, Prefix[a])
    /\ \A r \in 1 .. MaxRuns[a] :
          r > engine[a].run \/ (r = engine[a].run /\ Active(a)) => over[a][r] = "no"
    /\ IsInjective(engine[a].queue)
    /\ engine[a].plan # <<>> => PlanRest(a)

OwnNames(w) == {Name(w.agent, w.kind, r) : r \in ReceivesFrom(w.kind)}

WorkerInv(w) ==
    LET e == engine[w.agent]
        end == over[w.agent][w.run]
    IN  /\ w.run <= e.run
        /\ w.handles \subseteq Closes(w.kind)
        /\ w.receiving \subseteq OwnNames(w)
        /\ w.stopped => /\ w.handles = {} /\ w.receiving = {}
                        /\ w.run < e.run \/ e.state \in {"stopping", "stopped"}
        /\ end = "shutdown" => w.stopped
        /\ end = "early" => w.receiving = {}
        /\ w.run < e.run \/ ~Active(w.agent) => end # "no"
        /\ w.run = e.run /\ e.cancelled => w.receiving = {}
        /\ w.run = e.run => \A i \in 1 .. Len(e.queue) : e.queue[i] # w.kind

Distinct ==
    \A v, w \in workers : v.agent = w.agent /\ v.run = w.run /\ v.kind = w.kind => v = w

RunInv ==
    /\ \A a \in Agents : AgentInv(a)
    /\ \A w \in workers : WorkerInv(w)
    /\ Distinct

-----------------------------------------------------------------------------
(* The bounds on runs and faults are numbers. *)
LEMMA Bounds == MaxFaults \in Nat /\ \A a \in Agents : MaxRuns[a] \in Nat
BY ResourcesAssumption, Zenon


(* A sequence without its first element. *)
LEMMA TailOf ==
    ASSUME NEW S, NEW p \in Seq(S), p # <<>>
    PROVE  /\ Len(p) \in Nat \ {0} /\ Len(Tail(p)) = Len(p) - 1
           /\ \A i \in 1 .. Len(p) - 1 : Tail(p)[i] = p[i + 1]
OBVIOUS

-----------------------------------------------------------------------------
(* The plans.                                                              *)

(***************************************************************************)
(* The calls of one Start: it opens only clients that its StopConsumers    *)
(* closes, ensures a topic before the subscriptions on it and a schema     *)
(* before the topic bound to it, and takes no snapshot.                    *)
(***************************************************************************)
WellPlanned(k) ==
    /\ Plan(k) \in Seq(Steps) /\ Len(Plan(k)) > 0
    /\ \A i \in 1 .. Len(Plan(k)) :
          /\ Plan(k)[i] # "snap"
          /\ Plan(k)[i] \in Clients => Plan(k)[i] \in Closes(k)
          /\ Plan(k)[i] \in SubRoles => \E j \in 1 .. i - 1 : Plan(k)[j] = TopicOf(Plan(k)[i])
          /\ k = "schema_enforce" /\ Plan(k)[i] = "topic" => \E j \in 1 .. i - 1 : Plan(k)[j] = "schema"

LEMMA StepNames ==
    /\ "topic" \in Steps /\ "dlt" \in Steps /\ "sub" \in Steps /\ "s00" \in Steps
    /\ "s01" \in Steps /\ "dlt_sub" \in Steps /\ "schema" \in Steps
    /\ "client" \in Steps /\ "subClient" \in Steps /\ "probeClient" \in Steps
    /\ "schemaClient" \in Steps /\ "native" \in Steps /\ "launch" \in Steps
BY Zenon DEF Steps, Roles, TopicRoles, SubRoles, Clients

(* Every worker type is started by a well-planned Start (src/burnin/worker). *)
LEMMA PlansOrdered == \A k \in WorkerTypes : WellPlanned(k)
<1> SUFFICES ASSUME NEW k \in WorkerTypes PROVE WellPlanned(k)
  BY Zenon
<1>1. CASE k \in {"publish_pull_round_trip", "nack_redelivery", "filtering", "ordering_keys"}
  <2>1. Plan(k) = <<"client", "topic", "sub", "launch">>
    BY <1>1, Zenon DEF Plan, publish_pull_Start, nack_redelivery_Start, filtering_Start, ordering_keys_Start
  <2>2. Closes(k) = {"client"}
    BY <1>1, Zenon DEF Closes, publish_pull_StopConsumers, nack_redelivery_StopConsumers,
        filtering_StopConsumers, ordering_keys_StopConsumers
  <2>3. Plan(k) \in Seq(Steps)
    <3>1. <<"client", "topic", "sub", "launch">> \in Seq(Steps)
      BY StepNames
    <3> QED BY <2>1, <3>1, Zenon
  <2>4. /\ Len(Plan(k)) = 4
        /\ Plan(k)[1] = "client" /\ Plan(k)[2] = "topic" /\ Plan(k)[3] = "sub"
        /\ Plan(k)[4] = "launch"
    BY <2>1
  <2>5. \A i \in 1 .. 4 : i = 1 \/ i = 2 \/ i = 3 \/ i = 4
    OBVIOUS
  <2> QED BY <1>1, <2>2, <2>3, <2>4, <2>5 DEF WellPlanned, Clients, SubRoles, TopicOf
<1>2. CASE k \in {"streaming_pull", "inflight_cap"}
  <2>1. Plan(k) = <<"client", "topic", "sub", "subClient", "launch">>
    BY <1>2, Zenon DEF Plan, streaming_pull_Start, inflight_cap_Start
  <2>2. Closes(k) = {"subClient", "client"}
    BY <1>2, Zenon DEF Closes, streaming_pull_StopConsumers, inflight_cap_StopConsumers
  <2>3. Plan(k) \in Seq(Steps)
    <3>1. <<"client", "topic", "sub", "subClient", "launch">> \in Seq(Steps)
      BY StepNames
    <3> QED BY <2>1, <3>1, Zenon
  <2>4. /\ Len(Plan(k)) = 5
        /\ Plan(k)[1] = "client" /\ Plan(k)[2] = "topic" /\ Plan(k)[3] = "sub"
        /\ Plan(k)[4] = "subClient" /\ Plan(k)[5] = "launch"
    BY <2>1
  <2>5. \A i \in 1 .. 5 : i = 1 \/ i = 2 \/ i = 3 \/ i = 4 \/ i = 5
    OBVIOUS
  <2> QED BY <1>2, <2>2, <2>3, <2>4, <2>5 DEF WellPlanned, Clients, SubRoles, TopicOf
<1>3. CASE k \in {"exactly_once"}
  <2>1. Plan(k) = <<"client", "topic", "sub", "probeClient", "launch">>
    BY <1>3, Zenon DEF Plan, exactly_once_Start
  <2>2. Closes(k) = {"probeClient", "client"}
    BY <1>3, Zenon DEF Closes, exactly_once_StopConsumers
  <2>3. Plan(k) \in Seq(Steps)
    <3>1. <<"client", "topic", "sub", "probeClient", "launch">> \in Seq(Steps)
      BY StepNames
    <3> QED BY <2>1, <3>1, Zenon
  <2>4. /\ Len(Plan(k)) = 5
        /\ Plan(k)[1] = "client" /\ Plan(k)[2] = "topic" /\ Plan(k)[3] = "sub"
        /\ Plan(k)[4] = "probeClient" /\ Plan(k)[5] = "launch"
    BY <2>1
  <2>5. \A i \in 1 .. 5 : i = 1 \/ i = 2 \/ i = 3 \/ i = 4 \/ i = 5
    OBVIOUS
  <2> QED BY <1>3, <2>2, <2>3, <2>4, <2>5 DEF WellPlanned, Clients, SubRoles, TopicOf
<1>4. CASE k \in {"schema_enforce"}
  <2>1. Plan(k) = <<"schemaClient", "schema", "client", "topic", "sub", "launch">>
    BY <1>4, Zenon DEF Plan, schema_enforce_Start
  <2>2. Closes(k) = {"schemaClient", "client"}
    BY <1>4, Zenon DEF Closes, schema_enforce_StopConsumers
  <2>3. Plan(k) \in Seq(Steps)
    <3>1. <<"schemaClient", "schema", "client", "topic", "sub", "launch">> \in Seq(Steps)
      BY StepNames
    <3> QED BY <2>1, <3>1, Zenon
  <2>4. /\ Len(Plan(k)) = 6
        /\ Plan(k)[1] = "schemaClient" /\ Plan(k)[2] = "schema" /\ Plan(k)[3] = "client"
        /\ Plan(k)[4] = "topic" /\ Plan(k)[5] = "sub" /\ Plan(k)[6] = "launch"
    BY <2>1
  <2>5. \A i \in 1 .. 6 : i = 1 \/ i = 2 \/ i = 3 \/ i = 4 \/ i = 5 \/ i = 6
    OBVIOUS
  <2> QED BY <1>4, <2>2, <2>3, <2>4, <2>5 DEF WellPlanned, Clients, SubRoles, TopicOf
<1>5. CASE k \in {"fan_out"}
  <2>1. Plan(k) = <<"client", "topic", "s00", "s01", "launch">>
    BY <1>5, Zenon DEF Plan, fan_out_Start
  <2>2. Closes(k) = {"client"}
    BY <1>5, Zenon DEF Closes, fan_out_StopConsumers
  <2>3. Plan(k) \in Seq(Steps)
    <3>1. <<"client", "topic", "s00", "s01", "launch">> \in Seq(Steps)
      BY StepNames
    <3> QED BY <2>1, <3>1, Zenon
  <2>4. /\ Len(Plan(k)) = 5
        /\ Plan(k)[1] = "client" /\ Plan(k)[2] = "topic" /\ Plan(k)[3] = "s00"
        /\ Plan(k)[4] = "s01" /\ Plan(k)[5] = "launch"
    BY <2>1
  <2>5. \A i \in 1 .. 5 : i = 1 \/ i = 2 \/ i = 3 \/ i = 4 \/ i = 5
    OBVIOUS
  <2> QED BY <1>5, <2>2, <2>3, <2>4, <2>5 DEF WellPlanned, Clients, SubRoles, TopicOf
<1>6. CASE k \in {"seek_snapshot"}
  <2>1. Plan(k) = <<"client", "topic", "sub", "subClient">>
    BY <1>6, Zenon DEF Plan, seek_snapshot_Start
  <2>2. Closes(k) = {"subClient", "client"}
    BY <1>6, Zenon DEF Closes, seek_snapshot_StopConsumers
  <2>3. Plan(k) \in Seq(Steps)
    <3>1. <<"client", "topic", "sub", "subClient">> \in Seq(Steps)
      BY StepNames
    <3> QED BY <2>1, <3>1, Zenon
  <2>4. /\ Len(Plan(k)) = 4
        /\ Plan(k)[1] = "client" /\ Plan(k)[2] = "topic" /\ Plan(k)[3] = "sub"
        /\ Plan(k)[4] = "subClient"
    BY <2>1
  <2>5. \A i \in 1 .. 4 : i = 1 \/ i = 2 \/ i = 3 \/ i = 4
    OBVIOUS
  <2> QED BY <1>6, <2>2, <2>3, <2>4, <2>5 DEF WellPlanned, Clients, SubRoles, TopicOf
<1>7. CASE k \in {"dead_letter"}
  <2>1. Plan(k) = <<"client", "topic", "dlt", "sub", "dlt_sub", "subClient", "launch">>
    BY <1>7, Zenon DEF Plan, dead_letter_Start
  <2>2. Closes(k) = {"subClient", "client"}
    BY <1>7, Zenon DEF Closes, dead_letter_StopConsumers
  <2>3. Plan(k) \in Seq(Steps)
    <3>1. <<"client", "topic", "dlt", "sub", "dlt_sub", "subClient", "launch">> \in Seq(Steps)
      BY StepNames
    <3> QED BY <2>1, <3>1, Zenon
  <2>4. /\ Len(Plan(k)) = 7
        /\ Plan(k)[1] = "client" /\ Plan(k)[2] = "topic" /\ Plan(k)[3] = "dlt"
        /\ Plan(k)[4] = "sub" /\ Plan(k)[5] = "dlt_sub" /\ Plan(k)[6] = "subClient"
        /\ Plan(k)[7] = "launch"
    BY <2>1
  <2>5. \A i \in 1 .. 7 : i = 1 \/ i = 2 \/ i = 3 \/ i = 4 \/ i = 5 \/ i = 6 \/ i = 7
    OBVIOUS
  <2> QED BY <1>7, <2>2, <2>3, <2>4, <2>5 DEF WellPlanned, Clients, SubRoles, TopicOf
<1>8. CASE k \in {"cross_protocol_interop"}
  <2>1. Plan(k) = <<"client", "topic", "native", "launch">>
    BY <1>8, Zenon DEF Plan, interop_Start
  <2>2. Closes(k) = {"native", "client"}
    BY <1>8, Zenon DEF Closes, interop_StopConsumers
  <2>3. Plan(k) \in Seq(Steps)
    <3>1. <<"client", "topic", "native", "launch">> \in Seq(Steps)
      BY StepNames
    <3> QED BY <2>1, <3>1, Zenon
  <2>4. /\ Len(Plan(k)) = 4
        /\ Plan(k)[1] = "client" /\ Plan(k)[2] = "topic" /\ Plan(k)[3] = "native"
        /\ Plan(k)[4] = "launch"
    BY <2>1
  <2>5. \A i \in 1 .. 4 : i = 1 \/ i = 2 \/ i = 3 \/ i = 4
    OBVIOUS
  <2> QED BY <1>8, <2>2, <2>3, <2>4, <2>5 DEF WellPlanned, Clients, SubRoles, TopicOf
<1> QED BY <1>1, <1>2, <1>3, <1>4, <1>5, <1>6, <1>7, <1>8, Zenon DEF WorkerTypes

(* A worker receives from what its Start has ensured. *)
LEMMA ReceivesProvided ==
    ASSUME NEW k \in WorkerTypes, NEW r \in ReceivesFrom(k)
    PROVE  r \in Roles /\ \E i \in 1 .. Len(Plan(k)) : Plan(k)[i] = r
<1>1. CASE k = "cross_protocol_interop"
  <2>1. r = "topic"
    BY <1>1, Zenon DEF ReceivesFrom
  <2>2. Plan(k) = <<"client", "topic", "native", "launch">>
    BY <1>1, Zenon DEF Plan, interop_Start
  <2>3. Len(Plan(k)) = 4 /\ Plan(k)[2] = "topic"
    BY <2>2
  <2> QED BY <2>1, <2>3 DEF Roles, TopicRoles
<1>2. CASE k # "cross_protocol_interop"
  <2>1. r \in SubRoles /\ \E i \in DOMAIN Plan(k) : Plan(k)[i] = r
    BY <1>2, Zenon DEF ReceivesFrom
  <2>2. Plan(k) \in Seq(Steps)
    BY PlansOrdered, Zenon DEF WellPlanned
  <2> QED BY <2>1, <2>2 DEF Roles
<1> QED BY <1>1, <1>2, Zenon

-----------------------------------------------------------------------------
(* The processes.                                                          *)

Alike(v, w) == v.agent = w.agent /\ v.run = w.run /\ v.kind = w.kind

(* No worker is lost in a step. *)
NoneLost == \A w \in workers : \E v \in workers' : Alike(v, w)

(* The run of an agent has a number within the bound. *)
LEMMA RunNumber ==
    ASSUME Typed, RunInv, NEW a \in Agents
    PROVE  /\ AgentInv(a) /\ engine[a] \in EngineRecord /\ engine[a].run \in Nat
           /\ engine[a].plan # <<>> => engine[a].state = "starting" /\ Active(a)
           /\ Active(a) \/ engine[a].run > 0 => engine[a].run \in 1 .. MaxRuns[a]
<1>1. AgentInv(a)
  BY Zenon DEF RunInv
<1>2. engine[a] \in EngineRecord
  BY Zenon DEF Typed
<1>3. engine[a].run \in Nat
  BY <1>2, Zenon DEF EngineRecord
<1>4. engine[a].plan # <<>> => engine[a].state = "starting" /\ Active(a)
  BY <1>1, Zenon DEF AgentInv, Active
<1>5. engine[a].run <= MaxRuns[a] /\ (Active(a) => engine[a].run > 0)
  BY <1>1, Zenon DEF AgentInv
<1> QED BY <1>1, <1>2, <1>3, <1>4, <1>5, Bounds

(* A worker of an earlier run. *)
LEMMA EarlierRun ==
    ASSUME Typed, RunInv, NEW w \in workers, w.run # engine[w.agent].run
    PROVE  /\ w.run \in 1 .. MaxRuns[w.agent] /\ w.run < engine[w.agent].run
           /\ over[w.agent][w.run] # "no"
<1>1. w.agent \in Agents /\ w.run \in Nat \ {0}
  BY Zenon DEF Typed, Worker
<1>2. engine[w.agent].run \in Nat /\ (engine[w.agent].run > 0 => engine[w.agent].run \in 1 .. MaxRuns[w.agent])
  BY <1>1, RunNumber, Zenon
<1>3. WorkerInv(w)
  BY Zenon DEF RunInv
<1>4. w.run <= engine[w.agent].run
  BY <1>3, Zenon DEF WorkerInv
<1>5. w.run < engine[w.agent].run => over[w.agent][w.run] # "no"
  BY <1>3, Zenon DEF WorkerInv
<1> QED BY <1>1, <1>2, <1>4, <1>5, Bounds

LEMMA IdleTyped == Idle \in EngineRecord
<1>1. <<>> \in Seq(WorkerTypes) /\ <<>> \in Seq(Steps)
  OBVIOUS
<1> QED BY <1>1 DEF Idle, EngineRecord

LEMMA BegunTyped ==
    ASSUME NEW e \in EngineRecord, NEW n \in Nat, NEW c \in Nat \ {0}, NEW q \in Seq(WorkerTypes)
    PROVE  [e EXCEPT !.state = "starting", !.run = n, !.cfg = c, !.queue = q] \in EngineRecord
BY Zenon DEF EngineRecord

(* Nothing holds yet that the invariant speaks of. *)
LEMMA InitRun == Init => Typed /\ RunInv
<1> SUFFICES ASSUME Init PROVE Typed /\ RunInv
  BY Zenon
<1>1. <<>> \in Seq(VerifyNames)
  OBVIOUS
<1>2. Idle \in EngineRecord
  BY IdleTyped, Zenon
<1>3. NoCleanup \in Cleaner
  BY DEF NoCleanup, Cleaner
<1>4. VerifyPlan \in Seq(VerifyNames)
  <2> DEFINE checks == scenario.checks
  <2>1. checks \in Seq({"rt", "interop"})
    BY ResourcesAssumption, Zenon DEF Init
  <2>2. Len(checks) \in Nat
    BY <2>1
  <2>3. ASSUME NEW i \in 1 .. 2 * Len(checks)
        PROVE  VerifyPlan[i] \in VerifyNames
    <3>1. (i + 1) \div 2 \in 1 .. Len(checks)
      BY <2>2
    <3>2. checks[(i + 1) \div 2] \in {"rt", "interop"}
      BY <2>1, <3>1
    <3>3. "topic" \in Roles /\ "sub" \in Roles /\ <<"verify">> \in AllPrefixes
      BY Zenon DEF Roles, TopicRoles, SubRoles, AllPrefixes
    <3> QED BY <3>2, <3>3, Zenon DEF VerifyPlan, VerifyNames, NameSet
  <2> HIDE DEF checks
  <2>4. 2 * Len(checks) \in Nat
    BY <2>2
  <2>5. VerifyPlan = [i \in 1 .. 2 * Len(checks) |-> VerifyPlan[i]]
    BY Zenon DEF VerifyPlan, checks
  <2> QED BY <2>3, <2>4, <2>5
<1>5. Typed
  <2>1. DOMAIN present = {}
    BY DEF Init
  <2>2. engine \in [Agents -> EngineRecord] /\ cleaner \in [Agents -> Cleaner]
    BY <1>2, <1>3, Zenon DEF Init
  <2>3. verifier \in Verifier
    BY <1>1, <1>4, Zenon DEF Init, Verifier
  <2>4. /\ clean \in [Agents -> BOOLEAN] /\ fresh \in [Agents -> BOOLEAN]
        /\ hurt \in [Agents -> BOOLEAN]
    BY Zenon DEF Init
  <2>5. DOMAIN over = Agents /\ \A a \in Agents : over[a] = [r \in 1 .. MaxRuns[a] |-> "no"]
    BY Zenon DEF Init
  <2>6. \A a \in Agents : over[a] \in [1 .. MaxRuns[a] -> {"no", "error", "early", "shutdown"}]
    BY <2>5
  <2>7. faults \in 0 .. MaxFaults /\ scenario \in Scenarios /\ workers = {}
    BY ResourcesAssumption DEF Init
  <2> QED BY <2>1, <2>2, <2>3, <2>4, <2>5, <2>6, <2>7, Zenon DEF Typed
<1>6. ASSUME NEW a \in Agents PROVE AgentInv(a)
  <2>1. engine[a] = Idle /\ cleaner[a] = NoCleanup /\ ~clean[a]
    BY Zenon DEF Init
  <2>2. \A r \in 1 .. MaxRuns[a] : over[a][r] = "no"
    BY Zenon DEF Init
  <2>3. workers = {}
    BY Zenon DEF Init
  <2>4. IsInjective(<<>>)
    BY DEF IsInjective
  <2>5. MaxRuns[a] \in Nat
    BY Bounds, Zenon
  <2> QED BY <2>1, <2>2, <2>3, <2>4, <2>5 DEF AgentInv, Idle, NoCleanup, Active
<1>7. workers = {}
  BY Zenon DEF Init
<1> QED BY <1>5, <1>6, <1>7, Zenon DEF RunInv, Distinct

(* What an action does not touch. *)
LEMMA AgentKept ==
    ASSUME Typed, NEW b \in Agents, AgentInv(b),
           engine'[b] = engine[b], over'[b] = over[b], cleaner'[b] = cleaner[b],
           clean'[b] => clean[b],
           \A v \in workers' : v.agent = b => \E w \in workers : w.agent = b,
           \A w \in workers : w.agent = b => \E v \in workers' : Alike(v, w)
    PROVE  AgentInv(b)'
<1>1. Active(b)' <=> Active(b)
  BY Zenon DEF Active
<1>2. (engine[b].plan # <<>> => PlanRest(b))'
  <2> SUFFICES ASSUME engine'[b].plan # <<>> PROVE PlanRest(b)'
    BY Zenon
  <2>1. PlanRest(b)
    BY Zenon DEF AgentInv
  <2>2. PICK w \in workers : w.agent = b /\ w.run = engine[b].run /\ w.kind = engine[b].kind
    BY <2>1, Zenon DEF PlanRest
  <2>3. \E v \in workers' : v.agent = b /\ v.run = engine'[b].run /\ v.kind = engine'[b].kind
    BY <2>2 DEF Alike
  <2>4. /\ engine'[b].kind \in WorkerTypes
        /\ Len(engine'[b].plan) <= Len(Plan(engine'[b].kind))
        /\ \A i \in 1 .. Len(engine'[b].plan) :
              engine'[b].plan[i] = Plan(engine'[b].kind)[Len(Plan(engine'[b].kind)) - Len(engine'[b].plan) + i]
    <3>1. /\ engine[b].kind \in WorkerTypes
          /\ Len(engine[b].plan) <= Len(Plan(engine[b].kind))
          /\ \A i \in 1 .. Len(engine[b].plan) :
                engine[b].plan[i] = Plan(engine[b].kind)[Len(Plan(engine[b].kind)) - Len(engine[b].plan) + i]
      BY <2>1, Zenon DEF PlanRest
    <3> QED BY <3>1, Zenon
  <2> QED BY <2>3, <2>4, Zenon DEF PlanRest
<1>3. (engine[b].state = "idle" => \A w \in workers : w.agent # b)'
  BY Zenon DEF AgentInv
<1> QED BY <1>1, <1>2, <1>3, Zenon DEF AgentInv

LEMMA WorkerKept ==
    ASSUME Typed, NEW w \in workers, WorkerInv(w),
           engine'[w.agent] = engine[w.agent], over'[w.agent] = over[w.agent]
    PROVE  WorkerInv(w)'
<1>1. Active(w.agent)' <=> Active(w.agent)
  BY Zenon DEF Active
<1>2. OwnNames(w)' = OwnNames(w)
  BY Zenon DEF OwnNames
<1> QED BY <1>1, <1>2, Zenon DEF WorkerInv

(* Agents and connector: the part of Typed that an action on engine and workers can disturb. *)
LEMMA TypedKept ==
    ASSUME Typed, engine' \in [Agents -> EngineRecord], workers' \subseteq Worker,
           cleaner' = cleaner, verifier' = verifier, faults' = faults, scenario' = scenario,
           present' = present, clean' = clean, fresh' = fresh, hurt' = hurt, over' = over
    PROVE  Typed'
BY Zenon DEF Typed

(* StartRun: an earlier run that is over keeps its workers. *)
LEMMA StartRunRun ==
    ASSUME Typed, RunInv, NEW a \in Agents, NEW c \in scenario.configs[a], StartRun(a, c),
           UNCHANGED scenario
    PROVE  Typed' /\ RunInv'
<1>a. c.settings \in Nat \ {0} /\ c.kinds \in Seq(WorkerTypes) /\ IsInjective(c.kinds)
  BY ResourcesAssumption, Zenon DEF Typed
<1>b. AgentInv(a) /\ ~Active(a) /\ engine[a].run < MaxRuns[a] /\ engine[a].run \in Nat
  BY Zenon DEF RunInv, StartRun, Typed, EngineRecord
<1>c. /\ engine'[a].state = "starting" /\ engine'[a].run = engine[a].run + 1
      /\ engine'[a].cfg = c.settings /\ engine'[a].queue = c.kinds /\ engine'[a].kind = "none"
      /\ engine'[a].plan = <<>> /\ engine'[a].cancelled = FALSE
  BY Zenon DEF StartRun, Typed, Idle
<1>d. \A b \in Agents : b # a => engine'[b] = engine[b] /\ clean'[b] = clean[b]
  BY Zenon DEF StartRun, Typed
<1>e. engine' \in [Agents -> EngineRecord]
  <2> DEFINE s == [Idle EXCEPT !.state = "starting", !.run = engine[a].run + 1, !.cfg = c.settings,
                               !.queue = c.kinds]
  <2>3. s \in EngineRecord
    <3>1. engine[a].run + 1 \in Nat
      BY <1>b
    <3> QED BY <1>a, <3>1, IdleTyped, BegunTyped, Zenon
  <2>4. engine' = [engine EXCEPT ![a] = s]
    BY Zenon DEF StartRun
  <2> QED BY <2>3, <2>4, Zenon DEF Typed
<1>f. /\ present' = present /\ workers' = workers /\ cleaner' = cleaner /\ verifier' = verifier
      /\ faults' = faults /\ over' = over /\ cleaner[a].stage = 0
  BY Zenon DEF StartRun
<1>g. clean'[a] = FALSE /\ clean' \in [Agents -> BOOLEAN] /\ fresh' \in [Agents -> BOOLEAN] /\ hurt' \in [Agents -> BOOLEAN]
  BY Zenon DEF StartRun, Typed
<1>1. Typed'
  BY <1>e, <1>f, <1>g, Zenon DEF Typed
<1>2. ASSUME NEW b \in Agents, b # a PROVE AgentInv(b)'
  BY <1>2, <1>d, <1>f, AgentKept, Zenon DEF RunInv, Alike
<1>3. AgentInv(a)'
  <2>1. engine'[a].run <= MaxRuns[a]
    BY <1>b, <1>c, Bounds
  <2>2. \A r \in 1 .. MaxRuns[a] : r > engine'[a].run \/ r = engine'[a].run => over'[a][r] = "no"
    BY <1>b, <1>c, <1>f DEF AgentInv
  <2>3. \A x \in cleaner'[a].todo : FALSE
    BY <1>b, <1>f, Zenon DEF AgentInv
  <2> QED BY <1>a, <1>b, <1>c, <1>f, <1>g, <2>1, <2>2, <2>3 DEF AgentInv
<1>4. ASSUME NEW w \in workers' PROVE WorkerInv(w)'
  <2>1. w \in workers /\ WorkerInv(w) /\ w.run \in Nat
    BY <1>f, Zenon DEF RunInv, Typed, Worker
  <2>2. CASE w.agent # a
    BY <2>1, <2>2, <1>d, <1>f, WorkerKept, Zenon DEF Typed, Worker
  <2>3. CASE w.agent = a
    <3>1. w.run < engine'[a].run
      BY <2>1, <2>3, <1>b, <1>c DEF WorkerInv
    <3>2. OwnNames(w)' = OwnNames(w)
      BY Zenon DEF OwnNames
    <3>3. over'[a][w.run] = over[a][w.run] /\ over[a][w.run] # "no"
      BY <1>b, <1>f, <2>1, <2>3, Zenon DEF WorkerInv
    <3>4. engine'[a].run \in Nat /\ ~(w.run = engine'[a].run)
      BY <1>b, <1>c, <2>1, <3>1
    <3> QED BY <2>1, <2>3, <3>1, <3>2, <3>3, <3>4 DEF WorkerInv
  <2> QED BY <2>2, <2>3, Zenon
<1>5. Distinct'
  BY <1>f, Zenon DEF RunInv, Distinct
<1> QED BY <1>1, <1>2, <1>3, <1>4, <1>5, Zenon DEF RunInv

(* StartConsumers: the worker is the only one of its type in the run. *)
LEMMA StartConsumersRun ==
    ASSUME Typed, RunInv, NEW a \in Agents, StartConsumers(a), UNCHANGED scenario
    PROVE  Typed' /\ RunInv'
<1> DEFINE k == Head(engine[a].queue)
           n == [agent |-> a, run |-> engine[a].run, kind |-> k,
                 handles |-> {}, receiving |-> {}, stopped |-> FALSE]
<1>a. AgentInv(a) /\ engine[a] \in EngineRecord
  BY Zenon DEF RunInv, Typed
<1>b. /\ engine[a].state = "starting" /\ engine[a].queue # <<>> /\ engine[a].queue \in Seq(WorkerTypes)
      /\ engine[a].run \in Nat \ {0} /\ Active(a)
  BY <1>a DEF StartConsumers, EngineRecord, AgentInv, Active
<1>c. k \in WorkerTypes /\ Tail(engine[a].queue) \in Seq(WorkerTypes) /\ Plan(k) \in Seq(Steps)
  BY <1>b, PlansOrdered DEF WellPlanned
<1>d. /\ engine'[a].state = "starting" /\ engine'[a].run = engine[a].run
      /\ engine'[a].queue = Tail(engine[a].queue) /\ engine'[a].kind = k
      /\ engine'[a].plan = Plan(k) /\ engine'[a].cancelled = engine[a].cancelled
  BY <1>a, <1>b, Zenon DEF StartConsumers, Typed, EngineRecord
<1>e. \A b \in Agents : b # a => engine'[b] = engine[b]
  BY Zenon DEF StartConsumers, Typed
<1>f. engine' \in [Agents -> EngineRecord]
  BY <1>a, <1>c, Zenon DEF StartConsumers, Typed, EngineRecord
<1>g. /\ workers' = workers \cup {n} /\ present' = present /\ cleaner' = cleaner
      /\ verifier' = verifier /\ faults' = faults /\ clean' = clean /\ fresh' = fresh
      /\ hurt' = hurt /\ over' = over
  BY Zenon DEF StartConsumers, history
<1>h. n \in Worker
  BY <1>b, <1>c, Zenon DEF Worker
<1>i. /\ n.agent = a /\ n.run = engine[a].run /\ n.kind = k /\ n.handles = {} /\ n.receiving = {}
      /\ ~n.stopped
  BY Zenon
<1> HIDE DEF k, n
<1>j. /\ \A i \in 1 .. Len(Tail(engine[a].queue)) : Tail(engine[a].queue)[i] # k
      /\ IsInjective(Tail(engine[a].queue))
  <2> DEFINE q == engine[a].queue
  <2>1. q \in Seq(WorkerTypes) /\ q # <<>> /\ \A i, j \in 1 .. Len(q) : q[i] = q[j] => i = j
    BY <1>a, <1>b DEF AgentInv, IsInjective
  <2>2. k = q[1]
    BY <1>b DEF k
  <2> HIDE DEF q
  <2>3. Len(Tail(q)) = Len(q) - 1 /\ Len(q) \in Nat \ {0} /\ DOMAIN Tail(q) = 1 .. Len(q) - 1
    BY <2>1
  <2>4. \A i \in 1 .. Len(q) - 1 : Tail(q)[i] = q[i + 1]
    BY <2>1
  <2>5. \A i \in 1 .. Len(Tail(q)) : Tail(q)[i] # k
    BY <2>1, <2>2, <2>3, <2>4
  <2>6. IsInjective(Tail(q))
    BY <2>1, <2>3, <2>4 DEF IsInjective
  <2> QED BY <2>5, <2>6, Zenon DEF q
<1>k. \A w \in workers : w.agent = a /\ w.run = engine[a].run => w.kind # k
  <2>1. engine[a].queue[1] = k /\ 1 \in 1 .. Len(engine[a].queue)
    BY <1>b DEF k
  <2> QED BY <2>1 DEF RunInv, WorkerInv
<1>1. Typed'
  <2>1. workers' \subseteq Worker
    BY <1>g, <1>h, Zenon DEF Typed
  <2> QED BY <1>f, <1>g, <2>1, TypedKept, Zenon
<1>2. ASSUME NEW b \in Agents, b # a PROVE AgentInv(b)'
  BY <1>2, <1>e, <1>g, <1>i, AgentKept, Zenon DEF RunInv, Alike
<1>3. AgentInv(a)'
  <2>1. (engine[a].plan # <<>> => PlanRest(a))'
    BY <1>c, <1>d, <1>g, <1>i DEF PlanRest
  <2>2. Active(a)'
    BY <1>d, Zenon DEF Active
  <2> QED BY <1>a, <1>b, <1>d, <1>g, <1>j, <2>1, <2>2, Zenon DEF AgentInv
<1>4. ASSUME NEW w \in workers' PROVE WorkerInv(w)'
  <2>1. CASE w = n
    <3>1. over'[a][engine[a].run] = "no"
      BY <1>a, <1>b, <1>g, Bounds DEF AgentInv
    <3>2. Active(a)'
      BY <1>d, Zenon DEF Active
    <3>3. n.run <= engine'[a].run /\ ~(n.run < engine'[a].run)
      BY <1>b, <1>d, <1>i
    <3>4. \A i \in 1 .. Len(engine'[a].queue) : engine'[a].queue[i] # n.kind
      BY <1>d, <1>i, <1>j, Zenon
    <3> QED BY <2>1, <3>1, <3>2, <3>3, <3>4, <1>i, Zenon DEF WorkerInv
  <2>2. CASE w \in workers /\ w.agent # a
    BY <2>2, <1>e, <1>g, WorkerKept, Zenon DEF RunInv, Typed, Worker
  <2>3. CASE w \in workers /\ w.agent = a
    <3>1. WorkerInv(w)
      BY <2>3, Zenon DEF RunInv
    <3>2. OwnNames(w)' = OwnNames(w)
      BY Zenon DEF OwnNames
    <3>3. Active(a)'
      BY <1>d DEF Active
    <3>4. w.run = engine[a].run => \A i \in 1 .. Len(engine'[a].queue) : engine'[a].queue[i] # w.kind
      <4> SUFFICES ASSUME w.run = engine[a].run PROVE \A i \in 1 .. Len(engine'[a].queue) : engine'[a].queue[i] # w.kind
        BY Zenon
      <4>1. \A i \in 1 .. Len(engine[a].queue) : engine[a].queue[i] # w.kind
        BY <2>3, <3>1, Zenon DEF WorkerInv
      <4> QED BY <4>1, <1>b, <1>d
    <3> QED BY <1>b, <1>d, <1>g, <2>3, <3>1, <3>2, <3>3, <3>4, Zenon DEF WorkerInv
  <2> QED BY <1>g, <2>1, <2>2, <2>3, Zenon
<1>5. Distinct'
  BY <1>g, <1>i, <1>k DEF RunInv, Distinct
<1> QED BY <1>1, <1>2, <1>3, <1>4, <1>5, Zenon DEF RunInv

(* Proceed and setError, on the engine of agent a. *)
LEMMA ProceedEffect ==
    ASSUME Typed, NEW a \in Agents, engine[a].plan # <<>>, Proceed(a)
    PROVE  /\ engine' \in [Agents -> EngineRecord]
           /\ \A b \in Agents : b # a => engine'[b] = engine[b]
           /\ engine'[a].state = engine[a].state /\ engine'[a].run = engine[a].run
           /\ engine'[a].cfg = engine[a].cfg /\ engine'[a].queue = engine[a].queue
           /\ engine'[a].kind = engine[a].kind /\ engine'[a].cancelled = engine[a].cancelled
           /\ engine'[a].plan = Tail(engine[a].plan)
<1>1. engine[a] \in EngineRecord
  BY Zenon DEF Typed
<1>2. Tail(engine[a].plan) \in Seq(Steps)
  BY <1>1 DEF EngineRecord
<1>3. engine' \in [Agents -> EngineRecord]
  BY <1>1, <1>2, Zenon DEF Proceed, Typed, EngineRecord
<1> QED BY <1>1, <1>3, Zenon DEF Proceed, Typed, EngineRecord

LEMMA SetErrorEffect ==
    ASSUME Typed, RunInv, NEW a \in Agents, SetError(a), engine[a].run > 0
    PROVE  /\ engine' \in [Agents -> EngineRecord]
           /\ \A b \in Agents : b # a => engine'[b] = engine[b] /\ over'[b] = over[b]
           /\ engine'[a].state = "error" /\ engine'[a].run = engine[a].run
           /\ engine'[a].cfg = engine[a].cfg /\ engine'[a].queue = <<>>
           /\ engine'[a].plan = <<>> /\ engine'[a].cancelled = engine[a].cancelled
           /\ DOMAIN over' = Agents
           /\ over'[a] \in [1 .. MaxRuns[a] -> {"no", "error", "early", "shutdown"}]
           /\ over'[a][engine[a].run] = "error"
           /\ \A r \in 1 .. MaxRuns[a] : r # engine[a].run => over'[a][r] = over[a][r]
<1>1. engine[a] \in EngineRecord /\ engine[a].run \in 1 .. MaxRuns[a]
  BY RunNumber, Zenon
<1>2. <<>> \in Seq(WorkerTypes) /\ <<>> \in Seq(Steps)
  OBVIOUS
<1>3. engine' \in [Agents -> EngineRecord]
  BY <1>1, <1>2, Zenon DEF SetError, Typed, EngineRecord
<1>4. over[a] \in [1 .. MaxRuns[a] -> {"no", "error", "early", "shutdown"}] /\ DOMAIN over = Agents
  BY Zenon DEF Typed
<1>5. over' = [over EXCEPT ![a] = [over[a] EXCEPT ![engine[a].run] = "error"]]
  BY Zenon DEF SetError
<1>6. /\ DOMAIN over' = Agents /\ \A b \in Agents : b # a => over'[b] = over[b]
      /\ over'[a] = [over[a] EXCEPT ![engine[a].run] = "error"]
  BY <1>4, <1>5, Zenon
<1>7. /\ \A b \in Agents : b # a => engine'[b] = engine[b]
      /\ engine'[a].state = "error" /\ engine'[a].run = engine[a].run
      /\ engine'[a].cfg = engine[a].cfg /\ engine'[a].queue = <<>>
      /\ engine'[a].plan = <<>> /\ engine'[a].cancelled = engine[a].cancelled
  BY <1>1, Zenon DEF SetError, Typed, EngineRecord
<1> QED BY <1>1, <1>3, <1>4, <1>6, <1>7, Zenon

(* The worker v of the next state that w becomes when a step of the plan of a is done. *)
Advanced(v, w, a) ==
    /\ Alike(v, w) /\ v.stopped = w.stopped
    /\ v.handles = w.handles \/ (v.handles \subseteq Closes(w.kind) /\ ~w.stopped)
    /\ \/ v.receiving = w.receiving
       \/ /\ w.agent = a /\ w.run = engine[a].run /\ ~w.stopped
          /\ v.receiving \subseteq OwnNames(w)
          /\ engine[a].cancelled => v.receiving = {}

AllAdvanced(a) == NoneLost /\ \A v \in workers' : \E w \in workers : Advanced(v, w, a)

(* A step of the plan is done. *)
LEMMA ProceedRun ==
    ASSUME Typed, RunInv, NEW a \in Agents, engine[a].plan # <<>>, Proceed(a), AllAdvanced(a),
           over' = over, cleaner' = cleaner, clean' = clean, Distinct'
    PROVE  RunInv'
<1>a. AgentInv(a) /\ engine[a] \in EngineRecord /\ engine[a].plan \in Seq(Steps)
  BY Zenon DEF RunInv, Typed, EngineRecord
<1>b. engine[a].state = "starting" /\ Active(a) /\ PlanRest(a) /\ engine[a].run \in 1 .. MaxRuns[a]
  <2>1. engine[a].state = "starting" /\ Active(a) /\ engine[a].run \in 1 .. MaxRuns[a]
    BY RunNumber, Zenon
  <2> QED BY <1>a, <2>1, Zenon DEF AgentInv
<1>c. /\ \A b \in Agents : b # a => engine'[b] = engine[b]
      /\ engine'[a].state = engine[a].state /\ engine'[a].run = engine[a].run
      /\ engine'[a].queue = engine[a].queue
      /\ engine'[a].kind = engine[a].kind /\ engine'[a].cancelled = engine[a].cancelled
      /\ engine'[a].plan = Tail(engine[a].plan)
  BY ProceedEffect, Zenon
<1>d. \A b \in Agents : Active(b)' <=> Active(b)
  BY <1>c, Zenon DEF Active
<1>1. ASSUME NEW b \in Agents, b # a PROVE AgentInv(b)'
  <2>1. AgentInv(b)
    BY Zenon DEF RunInv
  <2>2. \A v \in workers' : v.agent = b => \E w \in workers : w.agent = b
    BY Zenon DEF AllAdvanced, Advanced, Alike
  <2>3. \A w \in workers : w.agent = b => \E v \in workers' : Alike(v, w)
    BY Zenon DEF AllAdvanced, NoneLost
  <2> QED BY <1>1, <1>c, <2>1, <2>2, <2>3, AgentKept, Zenon
<1>2. AgentInv(a)'
  <2>1. PlanRest(a)'
    <3> DEFINE p == engine[a].plan
               all == Plan(engine[a].kind)
    <3>1. /\ engine[a].kind \in WorkerTypes /\ Len(p) <= Len(all)
          /\ \A i \in 1 .. Len(p) : p[i] = all[Len(all) - Len(p) + i]
      BY <1>b, Zenon DEF PlanRest
    <3>2. all \in Seq(Steps)
      BY <3>1, PlansOrdered, Zenon DEF WellPlanned
    <3>3. Len(all) \in Nat /\ Len(p) \in Nat \ {0} /\ Len(Tail(p)) = Len(p) - 1
          /\ \A i \in 1 .. Len(p) - 1 : Tail(p)[i] = p[i + 1]
      <4>1. p \in Seq(Steps) /\ p # <<>>
        BY <1>a, Zenon
      <4> HIDE DEF p, all
      <4> QED BY <3>2, <4>1, TailOf
    <3>4. /\ Len(Tail(p)) <= Len(all)
          /\ \A i \in 1 .. Len(Tail(p)) : Tail(p)[i] = all[Len(all) - Len(Tail(p)) + i]
      <4> HIDE DEF p, all
      <4>1. ASSUME NEW i \in 1 .. Len(p) - 1 PROVE Tail(p)[i] = all[Len(all) - (Len(p) - 1) + i]
        <5>1. i + 1 \in 1 .. Len(p) /\ Len(all) - Len(p) + (i + 1) = Len(all) - (Len(p) - 1) + i
          BY <3>3
        <5> QED BY <3>1, <3>3, <5>1, Zenon
      <4> QED BY <3>1, <3>3, <4>1
    <3>5. \E v \in workers' : v.agent = a /\ v.run = engine[a].run /\ v.kind = engine[a].kind
      <4>1. PICK w \in workers : w.agent = a /\ w.run = engine[a].run /\ w.kind = engine[a].kind
        BY <1>b, Zenon DEF PlanRest
      <4> QED BY <4>1 DEF AllAdvanced, NoneLost, Alike
    <3> QED BY <1>c, <3>1, <3>4, <3>5, Zenon DEF PlanRest
  <2> QED BY <1>a, <1>b, <1>c, <1>d, <2>1, Zenon DEF AgentInv
<1>3. ASSUME NEW v \in workers' PROVE WorkerInv(v)'
  <2>1. PICK w \in workers : Advanced(v, w, a)
    BY Zenon DEF AllAdvanced
  <2>2. WorkerInv(w) /\ w.agent \in Agents
    BY Zenon DEF RunInv, Typed, Worker
  <2>3. OwnNames(v)' = OwnNames(w)
    <3>1. v.agent = w.agent /\ v.kind = w.kind
      BY <2>1, Zenon DEF Advanced, Alike
    <3> QED BY <3>1, Zenon DEF OwnNames
  <2>4. engine'[w.agent].state = engine[w.agent].state /\ engine'[w.agent].run = engine[w.agent].run
        /\ engine'[w.agent].queue = engine[w.agent].queue
        /\ engine'[w.agent].cancelled = engine[w.agent].cancelled
    BY <1>c, <2>2, Zenon
  <2>5. v.agent = w.agent /\ v.run = w.run /\ v.kind = w.kind /\ (Active(w.agent)' <=> Active(w.agent))
    BY <1>d, <2>1, <2>2, Zenon DEF Advanced, Alike
  <2>6. v.handles \subseteq Closes(w.kind) /\ (w.stopped => v.handles = {})
    BY <2>1, <2>2, Zenon DEF WorkerInv, Advanced
  <2>7. /\ v.receiving \subseteq OwnNames(w) /\ (w.stopped => v.receiving = {})
        /\ over[w.agent][w.run] = "early" => v.receiving = {}
        /\ w.run = engine[w.agent].run /\ engine[w.agent].cancelled => v.receiving = {}
    <3>1. CASE v.receiving = w.receiving
      BY <2>2, <3>1, Zenon DEF WorkerInv
    <3>2. CASE /\ w.agent = a /\ w.run = engine[a].run /\ ~w.stopped
               /\ v.receiving \subseteq OwnNames(w)
               /\ engine[a].cancelled => v.receiving = {}
      <4>1. over[a][w.run] = "no"
        BY <1>a, <1>b, <3>2, Zenon DEF AgentInv
      <4> QED BY <3>2, <4>1, Zenon
    <3> QED BY <2>1, <3>1, <3>2, Zenon DEF Advanced
  <2>a. v.stopped = w.stopped
    BY <2>1, Zenon DEF Advanced
  <2> DEFINE s == engine[w.agent].state
             r == engine[w.agent].run
             q == engine[w.agent].queue
             end == over[w.agent][w.run]
  <2>b. /\ w.run <= r
        /\ w.stopped => w.run < r \/ s \in {"stopping", "stopped"}
        /\ end = "shutdown" => w.stopped
        /\ w.run < r \/ ~Active(w.agent) => end # "no"
        /\ w.run = r => \A i \in 1 .. Len(q) : q[i] # w.kind
    BY <2>2, Zenon DEF WorkerInv
  <2>c. /\ engine'[v.agent].state = s /\ engine'[v.agent].run = r /\ engine'[v.agent].queue = q
        /\ over'[v.agent][v.run] = end
    BY <2>4, <2>5, Zenon
  <2> HIDE DEF s, r, q, end
  <2>8. /\ v.run <= engine'[v.agent].run
        /\ v.stopped => v.run < engine'[v.agent].run \/ engine'[v.agent].state \in {"stopping", "stopped"}
        /\ over'[v.agent][v.run] = "shutdown" => v.stopped
        /\ v.run < engine'[v.agent].run \/ ~Active(v.agent)' => over'[v.agent][v.run] # "no"
        /\ v.run = engine'[v.agent].run =>
              \A i \in 1 .. Len(engine'[v.agent].queue) : engine'[v.agent].queue[i] # v.kind
    BY <2>5, <2>a, <2>b, <2>c, Zenon
  <2> QED BY <2>a, <2>3, <2>4, <2>5, <2>6, <2>7, <2>8, Zenon DEF WorkerInv
<1> QED BY <1>1, <1>2, <1>3, Zenon DEF RunInv

(* One worker is replaced by one alike. *)
LEMMA UpdatedAlike ==
    ASSUME NEW w \in workers, NEW v, Alike(v, w), workers' = Updated(w, v), Distinct
    PROVE  /\ NoneLost
           /\ \A x \in workers' : x = v \/ (x \in workers /\ x # w)
           /\ Distinct'
BY DEF Updated, Alike, Distinct, NoneLost

(* The worker being started. *)
LEMMA CurrentIs ==
    ASSUME Typed, RunInv, NEW a \in Agents, engine[a].plan # <<>>
    PROVE  /\ Current(a) \in workers /\ Current(a).agent = a
           /\ Current(a).run = engine[a].run /\ Current(a).kind = engine[a].kind
           /\ ~Current(a).stopped /\ Current(a) \in Worker
<1>1. \E w \in workers : w.agent = a /\ w.run = engine[a].run /\ w.kind = engine[a].kind
  BY Zenon DEF RunInv, AgentInv, PlanRest
<1>2. /\ Current(a) \in workers /\ Current(a).agent = a
      /\ Current(a).run = engine[a].run /\ Current(a).kind = engine[a].kind
  BY <1>1, Zenon DEF Current
<1>3. engine[a].state = "starting" /\ engine[a].run \in Nat
  BY Zenon DEF RunInv, AgentInv, Typed, EngineRecord
<1>4. ~Current(a).stopped
  BY <1>2, <1>3 DEF RunInv, WorkerInv
<1> QED BY <1>2, <1>4, Zenon DEF Typed

(* The step at the head of what is left is the one of the plan with this number. *)
At(a) == Len(Plan(engine[a].kind)) - Len(engine[a].plan) + 1

LEMMA HeadOfPlan ==
    ASSUME Typed, RunInv, NEW a \in Agents, engine[a].plan # <<>>
    PROVE  /\ engine[a].kind \in WorkerTypes /\ Plan(engine[a].kind) \in Seq(Steps)
           /\ At(a) \in 1 .. Len(Plan(engine[a].kind))
           /\ Head(engine[a].plan) = Plan(engine[a].kind)[At(a)]
           /\ Len(engine[a].plan) \in Nat \ {0}
           /\ Len(Tail(engine[a].plan)) = Len(engine[a].plan) - 1
<1> DEFINE all == Plan(engine[a].kind)
           p == engine[a].plan
<1>1. /\ engine[a].kind \in WorkerTypes /\ Len(p) <= Len(all)
      /\ \A i \in 1 .. Len(p) : p[i] = all[Len(all) - Len(p) + i]
  BY Zenon DEF RunInv, AgentInv, PlanRest
<1>2. all \in Seq(Steps) /\ p \in Seq(Steps) /\ p # <<>>
  BY <1>1, PlansOrdered, Zenon DEF WellPlanned, Typed, EngineRecord
<1> HIDE DEF all, p
<1>3. Len(p) \in Nat \ {0} /\ Len(all) \in Nat /\ Head(p) = p[1] /\ Len(Tail(p)) = Len(p) - 1
  BY <1>2
<1>4. Len(all) - Len(p) + 1 \in 1 .. Len(all)
  BY <1>1, <1>3
<1>5. Head(p) = all[Len(all) - Len(p) + 1]
  BY <1>1, <1>3
<1> QED BY <1>1, <1>2, <1>3, <1>4, <1>5, Zenon DEF all, p, At

(* OpenClient: the client is one that StopConsumers closes. *)
LEMMA OpenClientRun ==
    ASSUME Typed, RunInv, NEW a \in Agents, OpenClient(a), UNCHANGED scenario
    PROVE  Typed' /\ RunInv'
<1> DEFINE step == Head(engine[a].plan)
           w == Current(a)
           v == [w EXCEPT !.handles = @ \cup {step}]
<1>a. engine[a].plan # <<>> /\ step \in Clients /\ Proceed(a) /\ workers' = Updated(w, v)
  BY Zenon DEF OpenClient, Clients
<1>b. /\ present' = present /\ cleaner' = cleaner /\ verifier' = verifier /\ faults' = faults
      /\ clean' = clean /\ fresh' = fresh /\ hurt' = hurt /\ over' = over
  BY Zenon DEF OpenClient, history
<1>c. /\ w \in workers /\ w.agent = a /\ w.run = engine[a].run /\ w.kind = engine[a].kind
      /\ ~w.stopped /\ w \in Worker
  BY <1>a, CurrentIs, Zenon
<1>d. step \in Closes(w.kind)
  <2>1. /\ w.kind \in WorkerTypes /\ At(a) \in 1 .. Len(Plan(w.kind))
        /\ step = Plan(w.kind)[At(a)]
    BY <1>a, <1>c, HeadOfPlan, Zenon
  <2> QED BY <1>a, <2>1, PlansOrdered, Zenon DEF WellPlanned
<1>e. WorkerInv(w) /\ Distinct
  BY <1>c, Zenon DEF RunInv
<1> HIDE DEF w, step
<1>f. /\ v \in Worker /\ Alike(v, w) /\ v.stopped = w.stopped /\ v.receiving = w.receiving
      /\ v.handles = w.handles \cup {step}
  BY <1>a, <1>c, Zenon DEF Worker, Alike
<1>g. v.handles \subseteq Closes(w.kind)
  BY <1>d, <1>e, <1>f, Zenon DEF WorkerInv
<1> HIDE DEF v
<1>h. /\ NoneLost
      /\ \A x \in workers' : x = v \/ (x \in workers /\ x # w)
      /\ Distinct'
  BY <1>a, <1>c, <1>e, <1>f, UpdatedAlike, Zenon
<1>1. Typed'
  <2>1. workers' \subseteq Worker
    BY <1>f, <1>h, Zenon DEF Typed
  <2>2. engine' \in [Agents -> EngineRecord]
    BY <1>a, ProceedEffect, Zenon
  <2> QED BY <1>b, <2>1, <2>2, TypedKept, Zenon
<1>2. AllAdvanced(a)
  <2>1. Advanced(v, w, a)
    BY <1>c, <1>f, <1>g, Zenon DEF Advanced
  <2>2. \A x \in workers : Advanced(x, x, a)
    BY Zenon DEF Advanced, Alike
  <2> QED BY <1>c, <1>h, <2>1, <2>2, Zenon DEF AllAdvanced
<1>3. RunInv'
  BY <1>2, <1>a, <1>b, <1>h, ProceedRun, Zenon
<1> QED BY <1>1, <1>3, Zenon

(* Launch: a cancelled run receives nothing. *)
LEMMA LaunchRun ==
    ASSUME Typed, RunInv, NEW a \in Agents, Launch(a), UNCHANGED scenario
    PROVE  Typed' /\ RunInv'
<1> DEFINE w == Current(a)
           from == {Name(a, w.kind, r) : r \in ReceivesFrom(w.kind)}
           v == [w EXCEPT !.receiving = IF engine[a].cancelled THEN {} ELSE from]
<1>a. engine[a].plan # <<>> /\ Proceed(a) /\ workers' = Updated(w, v)
  BY Zenon DEF Launch
<1>b. /\ present' = present /\ cleaner' = cleaner /\ verifier' = verifier /\ faults' = faults
      /\ clean' = clean /\ fresh' = fresh /\ hurt' = hurt /\ over' = over
  BY Zenon DEF Launch, history
<1>c. /\ w \in workers /\ w.agent = a /\ w.run = engine[a].run /\ w.kind = engine[a].kind
      /\ ~w.stopped /\ w \in Worker
  BY <1>a, CurrentIs, Zenon
<1>d. from = OwnNames(w)
  BY <1>c, Zenon DEF OwnNames
<1>e. from \subseteq NameSet
  <2>1. \A r \in ReceivesFrom(w.kind) : r \in Roles
    BY <1>c, ReceivesProvided, Zenon DEF Worker
  <2>2. w.kind \in WorkerTypes /\ Prefix[a] \in AllPrefixes
    BY <1>c, Zenon DEF Worker, AllPrefixes
  <2> QED BY <2>1, <2>2 DEF Name, NameSet
<1>k. engine[a].cancelled \in BOOLEAN /\ Distinct
  BY Zenon DEF Typed, EngineRecord, RunInv
<1> HIDE DEF w, from
<1>f. /\ v \in Worker /\ Alike(v, w) /\ v.stopped = w.stopped /\ v.handles = w.handles
      /\ v.receiving = IF engine[a].cancelled THEN {} ELSE from
  BY <1>c, <1>e, Zenon DEF Worker, Alike
<1>g. v.receiving \subseteq OwnNames(w) /\ (engine[a].cancelled => v.receiving = {})
  BY <1>d, <1>f, <1>k
<1> HIDE DEF v
<1>h. /\ NoneLost
      /\ \A x \in workers' : x = v \/ (x \in workers /\ x # w)
      /\ Distinct'
  BY <1>a, <1>c, <1>k, <1>f, UpdatedAlike, Zenon
<1>1. Typed'
  <2>1. workers' \subseteq Worker
    BY <1>f, <1>h, Zenon DEF Typed
  <2>2. engine' \in [Agents -> EngineRecord]
    BY <1>a, ProceedEffect, Zenon
  <2> QED BY <1>b, <2>1, <2>2, TypedKept
<1>2. AllAdvanced(a)
  <2>1. Advanced(v, w, a)
    BY <1>c, <1>f, <1>g, Zenon DEF Advanced
  <2>2. \A x \in workers : Advanced(x, x, a)
    BY DEF Advanced, Alike
  <2> QED BY <1>c, <1>h, <2>1, <2>2 DEF AllAdvanced
<1>3. RunInv'
  BY <1>2, <1>a, <1>b, <1>h, ProceedRun, Zenon
<1> QED BY <1>1, <1>3

(* setError: the workers stay as they are. *)
LEMMA SetErrorRun ==
    ASSUME Typed, RunInv, NEW a \in Agents, engine[a].plan # <<>>, SetError(a),
           workers' = workers, cleaner' = cleaner, clean' = clean
    PROVE  RunInv'
<1>a. AgentInv(a) /\ engine[a] \in EngineRecord
  BY Zenon DEF RunInv, Typed
<1>b. engine[a].state = "starting" /\ Active(a) /\ engine[a].run \in 1 .. MaxRuns[a]
  BY RunNumber, Zenon
<1>c. /\ \A b \in Agents : b # a => engine'[b] = engine[b] /\ over'[b] = over[b]
      /\ engine'[a].state = "error" /\ engine'[a].run = engine[a].run
      /\ engine'[a].queue = <<>> /\ engine'[a].plan = <<>>
      /\ over'[a][engine[a].run] = "error"
      /\ \A r \in 1 .. MaxRuns[a] : r # engine[a].run => over'[a][r] = over[a][r]
  BY <1>b, SetErrorEffect
<1>1. ASSUME NEW b \in Agents, b # a PROVE AgentInv(b)'
  BY <1>1, <1>c, AgentKept, Zenon DEF RunInv, Alike
<1>2. AgentInv(a)'
  <2>1. ~Active(a)'
    BY <1>c, Zenon DEF Active
  <2>2. IsInjective(<<>>)
    BY DEF IsInjective
  <2>3. \A r \in 1 .. MaxRuns[a] : r > engine'[a].run => over'[a][r] = "no"
    <3> SUFFICES ASSUME NEW r \in 1 .. MaxRuns[a], r > engine'[a].run PROVE over'[a][r] = "no"
      BY Zenon
    <3>1. r > engine[a].run /\ r # engine[a].run
      BY <1>b, <1>c
    <3> QED BY <1>a, <1>c, <3>1, Zenon DEF AgentInv
  <2> QED BY <1>a, <1>b, <1>c, <2>1, <2>2, <2>3, Zenon DEF AgentInv
<1>3. ASSUME NEW w \in workers' PROVE WorkerInv(w)'
  <2>1. w \in workers /\ WorkerInv(w) /\ w.run \in Nat \ {0} /\ w.agent \in Agents
    BY Zenon DEF RunInv, Typed, Worker
  <2>2. CASE w.agent # a
    BY <2>1, <2>2, <1>c, WorkerKept, Zenon
  <2>3. CASE w.agent = a /\ w.run # engine[a].run
    <3>1. w.run \in 1 .. MaxRuns[a] /\ w.run < engine[a].run
      BY <2>1, <2>3, EarlierRun, Zenon
    <3>2. over'[a][w.run] = over[a][w.run] /\ over[a][w.run] # "no"
      BY <1>c, <2>1, <2>3, <3>1, EarlierRun, Zenon
    <3>3. OwnNames(w)' = OwnNames(w)
      BY Zenon DEF OwnNames
    <3> QED BY <1>c, <2>1, <2>3, <3>1, <3>2, <3>3, Zenon DEF WorkerInv
  <2>4. CASE w.agent = a /\ w.run = engine[a].run
    <3>1. ~w.stopped
      BY <1>b, <2>1, <2>4 DEF WorkerInv
    <3>2. OwnNames(w)' = OwnNames(w)
      BY DEF OwnNames
    <3>3. engine'[a].cancelled = engine[a].cancelled
      BY <1>b, SetErrorEffect
    <3> QED BY <1>c, <2>1, <2>4, <3>1, <3>2, <3>3 DEF WorkerInv
  <2> QED BY <2>2, <2>3, <2>4, Zenon
<1>4. Distinct'
  BY Zenon DEF RunInv, Distinct
<1> QED BY <1>1, <1>2, <1>3, <1>4, Zenon DEF RunInv

(* The connector gains or loses a resource. *)
LEMMA WithEffect ==
    ASSUME NEW id, NEW s, present' = With(id, s)
    PROVE  /\ DOMAIN present' = DOMAIN present \cup {id} /\ present'[id] = s
           /\ \A x \in DOMAIN present : x # id => present'[x] = present[x]
BY Zenon DEF With

LEMMA WithoutEffect ==
    ASSUME NEW ids, present' = Without(ids)
    PROVE  /\ DOMAIN present' = DOMAIN present \ ids
           /\ \A x \in DOMAIN present' : present'[x] = present[x]
BY Zenon DEF Without

PresentTyped == DOMAIN present \subseteq NameSet /\ \A x \in DOMAIN present : present[x] \in Nat \ {0}

LEMMA WithTyped ==
    ASSUME Typed, NEW id \in NameSet, NEW s \in Nat \ {0},
           present' = With(id, s) \/ present' = present
    PROVE  PresentTyped'
<1>1. CASE present' = With(id, s)
  <2>1. /\ DOMAIN present' = DOMAIN present \cup {id} /\ present'[id] = s
        /\ \A x \in DOMAIN present : x # id => present'[x] = present[x]
    BY <1>1, WithEffect, Zenon
  <2>2. ASSUME NEW x \in DOMAIN present' PROVE x \in NameSet /\ present'[x] \in Nat \ {0}
    <3>1. CASE x = id
      BY <2>1, <3>1, Zenon
    <3>2. CASE x # id
      BY <2>1, <3>2, Zenon DEF Typed
    <3> QED BY <3>1, <3>2, Zenon
  <2> QED BY <2>2, Zenon DEF PresentTyped
<1>2. CASE present' = present
  BY <1>2, Zenon DEF Typed, PresentTyped
<1> QED BY <1>1, <1>2, Zenon

LEMMA WithoutTyped ==
    ASSUME Typed, NEW ids, present' = Without(ids) \/ present' = present
    PROVE  PresentTyped'
<1>1. CASE present' = Without(ids)
  BY <1>1, WithoutEffect, Zenon DEF Typed, PresentTyped
<1>2. CASE present' = present
  BY <1>2, Zenon DEF Typed, PresentTyped
<1> QED BY <1>1, <1>2, Zenon

LEMMA NameTyped ==
    ASSUME NEW a \in Agents, NEW k \in WorkerTypes, NEW r \in Roles
    PROVE  Name(a, k, r) \in NameSet
<1>1. Prefix[a] \in AllPrefixes
  BY Zenon DEF AllPrefixes
<1> QED BY <1>1, Zenon DEF Name, NameSet

LEMMA AskedForTyped ==
    ASSUME NEW k, NEW r, NEW c \in Nat \ {0}
    PROVE  AskedFor(k, r, c) \in Nat \ {0}
BY DEF AskedFor

(* A step on the plan of agent a that may create what it names. *)
Creates(a) ==
    LET step == Head(engine[a].plan)
        id == Name(a, engine[a].kind, step)
    IN  step \in Roles /\ present' = With(id, AskedFor(engine[a].kind, step, engine[a].cfg))

LEMMA CreatesTyped ==
    ASSUME Typed, RunInv, NEW a \in Agents, engine[a].plan # <<>>,
           Creates(a) \/ present' = present
    PROVE  PresentTyped'
<1>1. CASE Creates(a)
  <2>1. engine[a].kind \in WorkerTypes /\ engine[a].cfg \in Nat \ {0}
    BY HeadOfPlan, Zenon DEF Typed, EngineRecord
  <2>2. Name(a, engine[a].kind, Head(engine[a].plan)) \in NameSet
    BY <1>1, <2>1, NameTyped, Zenon DEF Creates
  <2>3. AskedFor(engine[a].kind, Head(engine[a].plan), engine[a].cfg) \in Nat \ {0}
    BY <2>1, AskedForTyped, Zenon
  <2> QED BY <1>1, <2>2, <2>3, WithTyped, Zenon DEF Creates
<1>2. CASE present' = present
  BY <1>2, Zenon DEF Typed, PresentTyped
<1> QED BY <1>1, <1>2, Zenon

(* EnsureResource. *)
LEMMA EnsureRun ==
    ASSUME Typed, RunInv, NEW a \in Agents, EnsureResource(a), UNCHANGED scenario
    PROVE  Typed' /\ RunInv'
<1>a. /\ engine[a].plan # <<>> /\ workers' = workers /\ cleaner' = cleaner
      /\ verifier' = verifier /\ faults' = faults /\ clean' = clean /\ fresh' = fresh
      /\ hurt' = hurt
  BY Zenon DEF EnsureResource, history
<1>b. engine[a].run > 0 /\ engine[a].run \in Nat
  BY <1>a, Zenon DEF RunInv, AgentInv, Active, Typed, EngineRecord
<1>1. CASE Proceed(a) /\ over' = over /\ (Creates(a) \/ present' = present)
  <2>1. PresentTyped'
    BY <1>1, <1>a, CreatesTyped, Zenon
  <2>2. engine' \in [Agents -> EngineRecord]
    BY <1>1, <1>a, ProceedEffect, Zenon
  <2>3. Typed'
    BY <1>1, <1>a, <2>1, <2>2, Zenon DEF Typed, PresentTyped
  <2>4. Distinct'
    BY <1>a, Zenon DEF Distinct, RunInv
  <2>5. RunInv'
    <3>1. AllAdvanced(a)
      BY <1>a, Zenon DEF AllAdvanced, Advanced, Alike, NoneLost
    <3> QED BY <1>1, <1>a, <2>4, <3>1, ProceedRun, Zenon
  <2> QED BY <2>3, <2>5
<1>2. CASE SetError(a) /\ present' = present
  <2>1. RunInv'
    BY <1>2, <1>a, SetErrorRun, Zenon
  <2>2. /\ engine' \in [Agents -> EngineRecord] /\ DOMAIN over' = Agents
        /\ \A b \in Agents : b # a => over'[b] = over[b]
        /\ over'[a] \in [1 .. MaxRuns[a] -> {"no", "error", "early", "shutdown"}]
    BY <1>2, <1>b, SetErrorEffect, Zenon
  <2>3. Typed'
    BY <1>2, <1>a, <2>2, Zenon DEF Typed
  <2> QED BY <2>1, <2>3, Zenon
<1>3. \/ Proceed(a) /\ over' = over /\ (Creates(a) \/ present' = present)
      \/ SetError(a) /\ present' = present
  BY Zenon DEF EnsureResource, Ensure, Creates
<1> QED BY <1>1, <1>2, <1>3, Zenon

(* StartFails: with or without the resource that was being created. *)
LEMMA StartFailsRun ==
    ASSUME Typed, RunInv, NEW a \in Agents, StartFails(a), UNCHANGED scenario
    PROVE  Typed' /\ RunInv'
<1>a. /\ engine[a].plan # <<>> /\ workers' = workers /\ cleaner' = cleaner
      /\ verifier' = verifier /\ clean' = clean /\ fresh' = fresh
  BY Zenon DEF StartFails, history
<1>b. engine[a].run > 0 /\ engine[a].run \in Nat
  BY <1>a, Zenon DEF RunInv, AgentInv, Active, Typed, EngineRecord
<1>c. faults' \in 0 .. MaxFaults
  <2>1. faults' = faults \/ (faults < MaxFaults /\ faults' = faults + 1)
    BY Zenon DEF StartFails, Fault
  <2>2. faults \in 0 .. MaxFaults
    BY Zenon DEF Typed
  <2> QED BY <2>1, <2>2, Bounds
<1>d. hurt' \in [Agents -> BOOLEAN]
  BY Zenon DEF StartFails, Typed
<1>e. PresentTyped'
  <2>1. Creates(a) \/ present' = present
    BY Zenon DEF StartFails, Creates
  <2> QED BY <1>a, <2>1, CreatesTyped, Zenon
<1>1. CASE Proceed(a) /\ over' = over
  <2>2. engine' \in [Agents -> EngineRecord]
    BY <1>1, <1>a, ProceedEffect, Zenon
  <2>3. Typed'
    BY <1>1, <1>a, <1>c, <1>d, <1>e, <2>2, Zenon DEF Typed, PresentTyped
  <2>4. Distinct'
    BY <1>a, Zenon DEF Distinct, RunInv
  <2>5. RunInv'
    <3>1. AllAdvanced(a)
      BY <1>a, Zenon DEF AllAdvanced, Advanced, Alike, NoneLost
    <3> QED BY <1>1, <1>a, <2>4, <3>1, ProceedRun, Zenon
  <2> QED BY <2>3, <2>5
<1>2. CASE SetError(a)
  <2>1. RunInv'
    BY <1>2, <1>a, SetErrorRun, Zenon
  <2>2. /\ engine' \in [Agents -> EngineRecord] /\ DOMAIN over' = Agents
        /\ \A b \in Agents : b # a => over'[b] = over[b]
        /\ over'[a] \in [1 .. MaxRuns[a] -> {"no", "error", "early", "shutdown"}]
    BY <1>2, <1>b, SetErrorEffect, Zenon
  <2>3. \A b \in Agents : over'[b] \in [1 .. MaxRuns[b] -> {"no", "error", "early", "shutdown"}]
    BY <2>2, Zenon DEF Typed
  <2>4. Typed'
    BY <1>a, <1>c, <1>d, <1>e, <2>2, <2>3, Zenon DEF Typed, PresentTyped
  <2> QED BY <2>1, <2>4
<1>3. (Proceed(a) /\ over' = over) \/ SetError(a)
  BY Zenon DEF StartFails
<1> QED BY <1>1, <1>2, <1>3, Zenon

(* The workers of the run of a with the receiving loops R(w) of theirs replaced by those of v. *)
Rerouted(v, w, a) ==
    /\ Alike(v, w) /\ v.stopped = w.stopped /\ v.handles = w.handles
    /\ v.receiving = w.receiving \/ (w.agent = a /\ w.run = engine[a].run)

LEMMA EndedEffect ==
    ASSUME Typed, NEW a \in Agents, workers' = Ended(a), Distinct
    PROVE  /\ workers' \subseteq Worker /\ Distinct'
           /\ \A v \in workers' : \E w \in workers :
                 /\ Rerouted(v, w, a)
                 /\ w.agent = a /\ w.run = engine[a].run => v.receiving = {}
           /\ NoneLost
<1> DEFINE F(w) == IF w.agent = a /\ w.run = engine[a].run THEN [w EXCEPT !.receiving = {}] ELSE w
<1>1. workers' = {F(w) : w \in workers}
  BY Zenon DEF Ended
<1>2. ASSUME NEW w \in workers
      PROVE  /\ F(w) \in Worker /\ Rerouted(F(w), w, a)
             /\ w.agent = a /\ w.run = engine[a].run => F(w).receiving = {}
  <2>1. w \in Worker
    BY Zenon DEF Typed
  <2>2. CASE w.agent = a /\ w.run = engine[a].run
    BY <2>1, <2>2, Zenon DEF Worker, Rerouted, Alike
  <2>3. CASE ~(w.agent = a /\ w.run = engine[a].run)
    BY <2>1, <2>3, Zenon DEF Rerouted, Alike
  <2> QED BY <2>2, <2>3, Zenon
<1> HIDE DEF F
<1>3. Distinct'
  <2> SUFFICES ASSUME NEW v1 \in workers', NEW v2 \in workers', Alike(v1, v2) PROVE v1 = v2
    BY Zenon DEF Distinct, Alike
  <2>1. PICK w1 \in workers : v1 = F(w1)
    BY <1>1, Zenon
  <2>2. PICK w2 \in workers : v2 = F(w2)
    BY <1>1, Zenon
  <2>3. Alike(w1, w2)
    BY <1>2, <2>1, <2>2, Zenon DEF Rerouted, Alike
  <2> QED BY <2>1, <2>2, <2>3, Zenon DEF Distinct, Alike
<1> QED BY <1>1, <1>2, <1>3, Zenon DEF Rerouted, NoneLost

LEMMA DrivingEffect ==
    ASSUME Typed, NEW a \in Agents, NEW from \in {ReceivesFrom("seek_snapshot"), {}},
           workers' = Driving(a, from), Distinct
    PROVE  /\ workers' \subseteq Worker /\ Distinct'
           /\ \A v \in workers' : \E w \in workers :
                 /\ Rerouted(v, w, a)
                 /\ v.receiving = w.receiving \/ v.receiving \subseteq OwnNames(w)
                 /\ from = {} => v.receiving \subseteq w.receiving
           /\ NoneLost
<1> DEFINE F(w) == IF w.agent = a /\ w.run = engine[a].run /\ w.kind = "seek_snapshot"
                   THEN [w EXCEPT !.receiving = {Name(a, w.kind, r) : r \in from}] ELSE w
<1>1. workers' = {F(w) : w \in workers}
  BY Zenon DEF Driving
<1>2. ASSUME NEW w \in workers
      PROVE  /\ F(w) \in Worker /\ Rerouted(F(w), w, a)
             /\ F(w).receiving = w.receiving \/ F(w).receiving \subseteq OwnNames(w)
             /\ from = {} => F(w).receiving \subseteq w.receiving
  <2>1. w \in Worker
    BY Zenon DEF Typed
  <2>2. CASE w.agent = a /\ w.run = engine[a].run /\ w.kind = "seek_snapshot"
    <3> DEFINE R == {Name(a, w.kind, r) : r \in from}
    <3>1. R \subseteq OwnNames(w)
      BY <2>2, Zenon DEF OwnNames
    <3>2. \A r \in from : r \in Roles
      BY <2>1, <2>2, ReceivesProvided DEF Worker
    <3>3. R \subseteq NameSet
      BY <2>1, <3>2, NameTyped, Zenon DEF Worker
    <3>4. from = {} => R = {}
      BY Zenon
    <3> HIDE DEF R
    <3>5. F(w) = [w EXCEPT !.receiving = R]
      BY <2>2, Zenon DEF R
    <3> HIDE DEF F
    <3>6. /\ F(w) \in Worker /\ Alike(F(w), w) /\ F(w).stopped = w.stopped
          /\ F(w).handles = w.handles /\ F(w).receiving = R
      BY <2>1, <3>3, <3>5, Zenon DEF Worker, Alike
    <3> QED BY <2>2, <3>1, <3>4, <3>6, Zenon DEF Rerouted
  <2>3. CASE ~(w.agent = a /\ w.run = engine[a].run /\ w.kind = "seek_snapshot")
    BY <2>1, <2>3, Zenon DEF Rerouted, Alike
  <2> QED BY <2>2, <2>3, Zenon
<1> HIDE DEF F
<1>3. Distinct'
  <2> SUFFICES ASSUME NEW v1 \in workers', NEW v2 \in workers', Alike(v1, v2) PROVE v1 = v2
    BY Zenon DEF Distinct, Alike
  <2>1. PICK w1 \in workers : v1 = F(w1)
    BY <1>1, Zenon
  <2>2. PICK w2 \in workers : v2 = F(w2)
    BY <1>1, Zenon
  <2>3. Alike(w1, w2)
    BY <1>2, <2>1, <2>2, Zenon DEF Rerouted, Alike
  <2> QED BY <2>1, <2>2, <2>3, Zenon DEF Distinct, Alike
<1> QED BY <1>1, <1>2, <1>3 DEF Rerouted, NoneLost

(***************************************************************************)
(* A step from one state of the run of a to another, before the run is     *)
(* over, in which only receiving loops of that run change.                 *)
(***************************************************************************)
MovesOn(a) ==
    /\ \A b \in Agents : b # a => engine'[b] = engine[b]
    /\ engine'[a].run = engine[a].run /\ engine'[a].queue = engine[a].queue
    /\ engine'[a].kind = engine[a].kind /\ engine'[a].plan = engine[a].plan
    /\ engine'[a].state \in {"starting", "up", "stopping"}
    /\ engine[a].state = "stopping" => engine'[a].state = "stopping"
    /\ engine'[a].state # "starting" => engine[a].plan = <<>> /\ engine[a].queue = <<>>

Lawful(v, w, a) ==
    /\ Rerouted(v, w, a) /\ v.receiving \subseteq OwnNames(w)
    /\ w.stopped => v.receiving = {}
    /\ w.agent = a /\ w.run = engine[a].run /\ engine'[a].cancelled => v.receiving = {}

AllLawful(a) == NoneLost /\ \A v \in workers' : \E w \in workers : Lawful(v, w, a)

LEMMA StateRun ==
    ASSUME Typed, RunInv, NEW a \in Agents, Active(a), Active(a)', MovesOn(a), AllLawful(a),
           over' = over, cleaner' = cleaner, clean' = clean, Distinct'
    PROVE  RunInv'
<1>a. AgentInv(a) /\ engine[a].run \in 1 .. MaxRuns[a]
  BY RunNumber, Zenon
<1>1. ASSUME NEW b \in Agents, b # a PROVE AgentInv(b)'
  <2>1. \A v \in workers' : v.agent = b => \E w \in workers : w.agent = b
    BY Zenon DEF AllLawful, Lawful, Rerouted, Alike
  <2>2. \A w \in workers : \E v \in workers' : Alike(v, w)
    BY Zenon DEF AllLawful, NoneLost
  <2>3. engine'[b] = engine[b] /\ AgentInv(b)
    BY <1>1, Zenon DEF MovesOn, RunInv
  <2> QED BY <2>1, <2>2, <2>3, AgentKept, Zenon
<1>2. AgentInv(a)'
  <2>1. (engine[a].plan # <<>> => PlanRest(a))'
    <3> SUFFICES ASSUME engine'[a].plan # <<>> PROVE PlanRest(a)'
      BY Zenon
    <3>5. engine'[a].plan = engine[a].plan /\ engine'[a].kind = engine[a].kind
      BY Zenon DEF MovesOn
    <3>1. PlanRest(a)
      BY <1>a, <3>5, Zenon DEF AgentInv
    <3>2. PICK w \in workers : w.agent = a /\ w.run = engine[a].run /\ w.kind = engine[a].kind
      BY <3>1, Zenon DEF PlanRest
    <3>3. PICK v \in workers' : Alike(v, w)
      BY Zenon DEF AllLawful, NoneLost
    <3>4. v.agent = a /\ v.run = engine'[a].run /\ v.kind = engine'[a].kind
      BY <3>2, <3>3, Zenon DEF MovesOn, Alike
    <3> QED BY <3>1, <3>4, <3>5, Zenon DEF PlanRest
  <2>2. engine[a].state # "idle" /\ engine'[a].state # "idle"
    BY Zenon DEF Active
  <2>3. (engine[a].state # "starting" => engine[a].plan = <<>> /\ engine[a].queue = <<>>)'
    BY Zenon DEF MovesOn
  <2>4. engine'[a].run = engine[a].run /\ engine'[a].queue = engine[a].queue
    BY Zenon DEF MovesOn
  <2> QED BY <1>a, <2>1, <2>2, <2>3, <2>4, Zenon DEF AgentInv
<1>3. ASSUME NEW v \in workers' PROVE WorkerInv(v)'
  <2>1. PICK w \in workers : Lawful(v, w, a)
    BY Zenon DEF AllLawful
  <2>2. WorkerInv(w) /\ w.agent \in Agents /\ w.run \in Nat
    BY Zenon DEF RunInv, Typed, Worker
  <2>4. v.agent = w.agent /\ v.run = w.run /\ v.kind = w.kind /\ v.stopped = w.stopped /\ v.handles = w.handles
    BY <2>1, Zenon DEF Lawful, Rerouted, Alike
  <2>3. OwnNames(v)' = OwnNames(w)
    BY <2>4, Zenon DEF OwnNames
  <2>a. /\ v.receiving \subseteq OwnNames(w) /\ (w.stopped => v.receiving = {})
        /\ w.agent = a /\ w.run = engine[a].run /\ engine'[a].cancelled => v.receiving = {}
        /\ v.receiving = w.receiving \/ (w.agent = a /\ w.run = engine[a].run)
    BY <2>1, Zenon DEF Lawful, Rerouted
  <2>5. CASE w.agent # a
    <3>2. engine'[w.agent] = engine[w.agent]
      BY <2>2, <2>5, Zenon DEF MovesOn
    <3>1. v.receiving = w.receiving /\ (Active(w.agent)' <=> Active(w.agent))
      BY <2>5, <2>a, <3>2, Zenon DEF Active
    <3> QED BY <2>2, <2>3, <2>4, <3>1, <3>2, Zenon DEF WorkerInv
  <2>6. CASE w.agent = a /\ w.run # engine[a].run
    <3>1. v.receiving = w.receiving
      BY <2>6, <2>a, Zenon
    <3>2. w.run < engine[a].run /\ over[a][w.run] # "no"
      BY <2>6, EarlierRun, Zenon
    <3>3. engine'[a].run = engine[a].run
      BY Zenon DEF MovesOn
    <3> QED BY <2>2, <2>3, <2>4, <2>6, <3>1, <3>2, <3>3, Zenon DEF WorkerInv
  <2>7. CASE w.agent = a /\ w.run = engine[a].run
    <3>1. over[a][w.run] = "no"
      BY <1>a, <2>7, Zenon DEF AgentInv
    <3>2. w.stopped => engine'[a].state = "stopping"
      <4>1. w.stopped => engine[a].state = "stopping"
        BY <1>a, <2>2, <2>7 DEF WorkerInv, Active
      <4> QED BY <4>1, Zenon DEF MovesOn
    <3>3. engine'[a].run = w.run /\ ~(w.run < w.run) /\ w.run <= w.run
      BY <2>2, <2>7 DEF MovesOn
    <3>4. \A i \in 1 .. Len(engine'[a].queue) : engine'[a].queue[i] # w.kind
      <4>1. \A i \in 1 .. Len(engine[a].queue) : engine[a].queue[i] # w.kind
        BY <2>2, <2>7, Zenon DEF WorkerInv
      <4> QED BY <4>1, Zenon DEF MovesOn
    <3>5. w.handles \subseteq Closes(w.kind) /\ (w.stopped => w.handles = {})
      BY <2>2, Zenon DEF WorkerInv
    <3> QED BY <2>a, <2>3, <2>4, <2>7, <3>1, <3>2, <3>3, <3>4, <3>5, Zenon DEF WorkerInv
  <2> QED BY <2>5, <2>6, <2>7, Zenon
<1> QED BY <1>1, <1>2, <1>3, Zenon DEF RunInv

(* No worker of a run that is not being stopped is stopped. *)
LEMMA NotStopped ==
    ASSUME Typed, RunInv, NEW w \in workers, w.run = engine[w.agent].run,
           engine[w.agent].state \in {"starting", "up"}
    PROVE  ~w.stopped
<1>1. WorkerInv(w) /\ w.run \in Nat
  BY Zenon DEF RunInv, Typed, Worker
<1> QED BY <1>1 DEF WorkerInv

(* StopRun while the workers are started. *)
LEMMA StopRunRun ==
    ASSUME Typed, RunInv, NEW a \in Agents, StopRun(a), UNCHANGED scenario
    PROVE  Typed' /\ RunInv'
<1>a. engine[a] \in EngineRecord /\ engine[a].state = "starting" /\ workers' = Ended(a)
  BY Zenon DEF StopRun, Typed
<1>b. /\ present' = present /\ cleaner' = cleaner /\ verifier' = verifier /\ faults' = faults
      /\ clean' = clean /\ fresh' = fresh /\ over' = over /\ hurt' \in [Agents -> BOOLEAN]
  BY Zenon DEF StopRun, history, Typed
<1>c. /\ \A b \in Agents : b # a => engine'[b] = engine[b]
      /\ engine'[a].run = engine[a].run /\ engine'[a].queue = engine[a].queue
      /\ engine'[a].kind = engine[a].kind /\ engine'[a].plan = engine[a].plan
      /\ engine'[a].state = "starting" /\ engine'[a].cancelled = TRUE
  BY <1>a, Zenon DEF StopRun, Typed, EngineRecord
<1>d. engine' \in [Agents -> EngineRecord]
  BY <1>a, Zenon DEF StopRun, Typed, EngineRecord
<1>e. /\ workers' \subseteq Worker /\ Distinct'
      /\ \A v \in workers' : \E w \in workers :
            Rerouted(v, w, a) /\ (w.agent = a /\ w.run = engine[a].run => v.receiving = {})
      /\ NoneLost
  BY <1>a, EndedEffect, Zenon DEF RunInv
<1>1. Typed'
  BY <1>b, <1>d, <1>e, Zenon DEF Typed
<1>2. ASSUME NEW v \in workers' PROVE \E w \in workers : Lawful(v, w, a)
  <2>1. PICK w \in workers :
            Rerouted(v, w, a) /\ (w.agent = a /\ w.run = engine[a].run => v.receiving = {})
    BY <1>e, Zenon
  <2>2. v.receiving = w.receiving \/ v.receiving = {}
    BY <2>1, Zenon DEF Rerouted
  <2>3. w.receiving \subseteq OwnNames(w) /\ (w.stopped => w.receiving = {})
    BY Zenon DEF RunInv, WorkerInv
  <2> QED BY <2>1, <2>2, <2>3, Zenon DEF Lawful
<1>3. Active(a) /\ Active(a)'
  BY <1>a, <1>c, Zenon DEF Active
<1>4. MovesOn(a) /\ AllLawful(a)
  BY <1>2, <1>a, <1>c, <1>e, Zenon DEF MovesOn, AllLawful
<1>5. RunInv'
  BY <1>3, <1>4, <1>b, <1>e, StateRun, Zenon
<1> QED BY <1>1, <1>5

(* A round driver is started or ended. *)
LEMMA DrivingRun ==
    ASSUME Typed, RunInv, NEW a \in Agents, engine[a].state \in {"starting", "up"},
           NEW from \in {ReceivesFrom("seek_snapshot"), {}}, workers' = Driving(a, from),
           engine[a].plan = <<>>, engine[a].queue = <<>>, ~engine[a].cancelled \/ from = {},
           NEW s \in {"up", "stopping"}, engine' = [engine EXCEPT ![a].state = s],
           UNCHANGED <<present, cleaner, verifier, faults, clean, fresh, hurt, over, scenario>>
    PROVE  Typed' /\ RunInv'
<1>a. engine[a] \in EngineRecord
  BY Zenon DEF Typed
<1>c. /\ \A b \in Agents : b # a => engine'[b] = engine[b]
      /\ engine'[a].run = engine[a].run /\ engine'[a].queue = engine[a].queue
      /\ engine'[a].kind = engine[a].kind /\ engine'[a].plan = engine[a].plan
      /\ engine'[a].state = s /\ engine'[a].cancelled = engine[a].cancelled
  BY <1>a, Zenon DEF Typed, EngineRecord
<1>d. engine' \in [Agents -> EngineRecord]
  BY <1>a, Zenon DEF Typed, EngineRecord
<1>e. /\ workers' \subseteq Worker /\ Distinct'
      /\ \A v \in workers' : \E w \in workers :
                 /\ Rerouted(v, w, a)
                 /\ v.receiving = w.receiving \/ v.receiving \subseteq OwnNames(w)
                 /\ from = {} => v.receiving \subseteq w.receiving
      /\ NoneLost
  BY DrivingEffect, Zenon DEF RunInv
<1>1. Typed'
  BY <1>d, <1>e, TypedKept, Zenon
<1>2. ASSUME NEW v \in workers' PROVE \E w \in workers : Lawful(v, w, a)
  <2>1. PICK w \in workers :
                 /\ Rerouted(v, w, a)
                 /\ v.receiving = w.receiving \/ v.receiving \subseteq OwnNames(w)
                 /\ from = {} => v.receiving \subseteq w.receiving
    BY <1>e, Zenon
  <2>2. WorkerInv(w)
    BY Zenon DEF RunInv
  <2>3. w.receiving \subseteq OwnNames(w) /\ (w.stopped => w.receiving = {})
    BY <2>2, Zenon DEF WorkerInv
  <2>4. w.stopped => v.receiving = {}
    <3>1. CASE v.receiving = w.receiving
      BY <2>3, <3>1, Zenon
    <3>2. CASE w.agent = a /\ w.run = engine[a].run
      BY <3>2, NotStopped, Zenon
    <3> QED BY <2>1, <3>1, <3>2, Zenon DEF Rerouted
  <2>5. w.agent = a /\ w.run = engine[a].run /\ engine'[a].cancelled => v.receiving = {}
    <3> SUFFICES ASSUME w.agent = a, w.run = engine[a].run, engine'[a].cancelled PROVE v.receiving = {}
      BY Zenon
    <3>1. engine[a].cancelled /\ from = {}
      BY <1>c, Zenon
    <3>2. w.receiving = {}
      BY <2>2, <3>1, Zenon DEF WorkerInv
    <3> QED BY <2>1, <3>1, <3>2, Zenon
  <2>6. v.receiving \subseteq OwnNames(w)
    BY <2>1, <2>3, Zenon
  <2> QED BY <2>1, <2>4, <2>5, <2>6, Zenon DEF Lawful
<1>3. Active(a) /\ Active(a)'
  BY <1>c, Zenon DEF Active
<1>4. MovesOn(a) /\ AllLawful(a)
  BY <1>2, <1>c, <1>e, Zenon DEF MovesOn, AllLawful
<1>5. RunInv'
  BY <1>3, <1>4, <1>e, StateRun, Zenon
<1> QED BY <1>1, <1>5, Zenon

(* The run of a is over, by itself: the loops of a cancelled one have ended, the workers of *)
(* the other are stopped.                                                                   *)
LEMMA RunOver ==
    ASSUME Typed, RunInv, NEW a \in Agents, Active(a), engine[a].plan = <<>>, engine[a].queue = <<>>,
           NEW end \in {"early", "shutdown"},
           engine' = [engine EXCEPT ![a].state = "stopped"],
           over' = [over EXCEPT ![a][engine[a].run] = end],
           \A w \in workers : w.agent = a /\ w.run = engine[a].run =>
               w.receiving = {} /\ (end = "shutdown" => w.stopped),
           UNCHANGED <<present, workers, cleaner, verifier, faults, clean, fresh, hurt, scenario>>
    PROVE  Typed' /\ RunInv'
<1>a. AgentInv(a) /\ engine[a] \in EngineRecord
  BY Zenon DEF RunInv, Typed
<1>b. engine[a].run \in 1 .. MaxRuns[a]
  BY RunNumber, Zenon
<1>c. /\ \A b \in Agents : b # a => engine'[b] = engine[b]
      /\ engine'[a].run = engine[a].run /\ engine'[a].queue = <<>>
      /\ engine'[a].plan = <<>> /\ engine'[a].state = "stopped"
      /\ engine' \in [Agents -> EngineRecord] /\ engine'[a].cancelled = engine[a].cancelled
  BY <1>a, Zenon DEF Typed, EngineRecord
<1>d. over[a] \in [1 .. MaxRuns[a] -> {"no", "error", "early", "shutdown"}] /\ DOMAIN over = Agents
  BY Zenon DEF Typed
<1>e. /\ DOMAIN over' = Agents /\ \A b \in Agents : b # a => over'[b] = over[b]
      /\ over'[a] = [over[a] EXCEPT ![engine[a].run] = end]
  BY <1>d, Zenon
<1>f. /\ over'[a] \in [1 .. MaxRuns[a] -> {"no", "error", "early", "shutdown"}]
      /\ over'[a][engine[a].run] = end
      /\ \A r \in 1 .. MaxRuns[a] : r # engine[a].run => over'[a][r] = over[a][r]
  BY <1>b, <1>d, <1>e, Zenon
<1>1. Typed'
  BY <1>c, <1>e, <1>f, Zenon DEF Typed
<1>2. ASSUME NEW b \in Agents, b # a PROVE AgentInv(b)'
  BY <1>2, <1>c, <1>e, AgentKept, Zenon DEF RunInv, Alike
<1>3. AgentInv(a)'
  <2>1. ~Active(a)'
    BY <1>c, Zenon DEF Active
  <2>2. IsInjective(<<>>)
    BY DEF IsInjective
  <2>3. \A r \in 1 .. MaxRuns[a] : r > engine'[a].run => over'[a][r] = "no"
    <3> SUFFICES ASSUME NEW r \in 1 .. MaxRuns[a], r > engine'[a].run PROVE over'[a][r] = "no"
      BY Zenon
    <3>1. r > engine[a].run /\ r # engine[a].run
      BY <1>b, <1>c
    <3> QED BY <1>a, <1>f, <3>1, Zenon DEF AgentInv
  <2>4. cleaner[a].stage > 0 \/ clean[a] => FALSE
    BY <1>a, Zenon DEF AgentInv, Active
  <2> QED BY <1>a, <1>b, <1>c, <2>1, <2>2, <2>3, <2>4, Zenon DEF AgentInv
<1>4. ASSUME NEW w \in workers' PROVE WorkerInv(w)'
  <2>1. w \in workers /\ WorkerInv(w) /\ w.run \in Nat \ {0} /\ w.agent \in Agents
    BY Zenon DEF RunInv, Typed, Worker
  <2>2. CASE w.agent # a
    BY <2>1, <2>2, <1>c, <1>e, WorkerKept, Zenon
  <2>9. OwnNames(w)' = OwnNames(w)
    BY Zenon DEF OwnNames
  <2>3. CASE w.agent = a /\ w.run # engine[a].run
    <3>1. w.run \in 1 .. MaxRuns[a] /\ w.run < engine[a].run
      BY <2>1, <2>3, EarlierRun, Zenon
    <3>2. over'[a][w.run] = over[a][w.run] /\ over[a][w.run] # "no"
      BY <1>f, <2>1, <2>3, <3>1, EarlierRun, Zenon
    <3> QED BY <1>c, <2>1, <2>3, <2>9, <3>1, <3>2 DEF WorkerInv
  <2>4. CASE w.agent = a /\ w.run = engine[a].run
    <3>1. w.receiving = {} /\ (end = "shutdown" => w.stopped)
      BY <2>1, <2>4, Zenon
    <3>2. over'[a][w.run] = end
      BY <1>f, <2>4, Zenon
    <3> QED BY <1>c, <2>1, <2>4, <2>9, <3>1, <3>2 DEF WorkerInv
  <2> QED BY <2>2, <2>3, <2>4, Zenon
<1>5. Distinct'
  BY Zenon DEF RunInv, Distinct
<1> QED BY <1>1, <1>2, <1>3, <1>4, <1>5, Zenon DEF RunInv

(* Ready. *)
LEMMA ReadyRun ==
    ASSUME Typed, RunInv, NEW a \in Agents, Ready(a), UNCHANGED scenario
    PROVE  Typed' /\ RunInv'
<1>a. /\ engine[a].state = "starting" /\ engine[a].plan = <<>> /\ engine[a].queue = <<>>
      /\ UNCHANGED <<present, cleaner, verifier, faults, clean, fresh, hurt, scenario>>
  BY Zenon DEF Ready, history
<1>1. CASE engine[a].cancelled
  <2>1. /\ engine' = [engine EXCEPT ![a].state = "stopped"]
        /\ over' = [over EXCEPT ![a][engine[a].run] = "early"] /\ workers' = workers
    BY <1>1, Zenon DEF Ready
  <2>2. \A w \in workers : w.agent = a /\ w.run = engine[a].run => w.receiving = {}
    BY <1>1, Zenon DEF RunInv, WorkerInv
  <2>3. Active(a)
    BY <1>a, Zenon DEF Active
  <2> QED BY <1>a, <2>1, <2>2, <2>3, RunOver, Zenon
<1>2. CASE ~engine[a].cancelled
  <2>1. /\ engine' = [engine EXCEPT ![a].state = "up"] /\ over' = over
        /\ workers' = Driving(a, ReceivesFrom("seek_snapshot"))
    BY <1>2, Zenon DEF Ready
  <2> QED BY <1>2, <1>a, <2>1, DrivingRun, Zenon
<1> QED BY <1>1, <1>2, Zenon

(* shutdownWorkers. *)
LEMMA ShutdownRun ==
    ASSUME Typed, RunInv, NEW a \in Agents, ShutdownWorkers(a), UNCHANGED scenario
    PROVE  Typed' /\ RunInv'
<1>1. /\ engine[a].state = "up" /\ engine' = [engine EXCEPT ![a].state = "stopping"]
      /\ workers' = Driving(a, {})
      /\ UNCHANGED <<present, cleaner, verifier, faults, clean, fresh, hurt, over, scenario>>
  BY Zenon DEF ShutdownWorkers, history
<1>2. engine[a].plan = <<>> /\ engine[a].queue = <<>>
  BY <1>1, Zenon DEF RunInv, AgentInv
<1> QED BY <1>1, <1>2, DrivingRun, Zenon

LEMMA RunStoppedRun ==
    ASSUME Typed, RunInv, NEW a \in Agents, RunStopped(a), UNCHANGED scenario
    PROVE  Typed' /\ RunInv'
<1>1. /\ engine[a].state = "stopping" /\ engine' = [engine EXCEPT ![a].state = "stopped"]
      /\ over' = [over EXCEPT ![a][engine[a].run] = "shutdown"]
      /\ UNCHANGED <<present, workers, cleaner, verifier, faults, clean, fresh, hurt, scenario>>
  BY Zenon DEF RunStopped, history
<1>2. engine[a].plan = <<>> /\ engine[a].queue = <<>> /\ Active(a)
  BY <1>1, Zenon DEF RunInv, AgentInv, Active
<1>3. \A w \in workers : w.agent = a /\ w.run = engine[a].run => w.stopped /\ w.receiving = {}
  BY Zenon DEF RunStopped, RunInv, WorkerInv
<1> QED BY <1>1, <1>2, <1>3, RunOver, Zenon

-----------------------------------------------------------------------------
(* The ends of a worker and of a process, cmd/cleanup and cmd/verify.      *)

(* StopConsumers of one worker. *)
LEMMA StopConsumersRun ==
    ASSUME Typed, RunInv, NEW w \in workers, StopConsumers(w), UNCHANGED scenario
    PROVE  Typed' /\ RunInv'
<1> DEFINE a == w.agent
           v == [w EXCEPT !.receiving = {}, !.handles = @ \ Closes(w.kind), !.stopped = TRUE]
<1>a. /\ engine[a].state = "stopping" /\ w.run = engine[a].run /\ workers' = Updated(w, v)
      /\ UNCHANGED <<engine, cleaner, verifier, clean, fresh, hurt, over, scenario>>
  BY Zenon DEF StopConsumers, history
<1>b. w \in Worker /\ a \in Agents /\ WorkerInv(w) /\ AgentInv(a) /\ Distinct
  BY Zenon DEF Typed, RunInv, Worker
<1>c. /\ v \in Worker /\ Alike(v, w) /\ v.receiving = {} /\ v.stopped
      /\ v.handles = w.handles \ Closes(w.kind)
  BY <1>b, Zenon DEF Worker, Alike
<1>d. v.handles = {}
  BY <1>b, <1>c, Zenon DEF WorkerInv
<1> HIDE DEF v
<1>e. /\ NoneLost
      /\ \A x \in workers' : x = v \/ (x \in workers /\ x # w)
      /\ Distinct'
  BY <1>a, <1>b, <1>c, UpdatedAlike, Zenon
<1>f. faults' \in 0 .. MaxFaults
  BY Bounds DEF StopConsumers, Fault, Typed
<1>g. PresentTyped'
  <2>1. present' = Without(Deletes(w)) \/ present' = present
    BY Zenon DEF StopConsumers
  <2> QED BY <2>1, WithoutTyped, Zenon
<1>1. Typed'
  BY <1>a, <1>c, <1>e, <1>f, <1>g, Zenon DEF Typed, PresentTyped
<1>2. ASSUME NEW b \in Agents PROVE AgentInv(b)'
  <2>1. \A x \in workers' : x.agent = b => \E u \in workers : u.agent = b
    BY <1>c, <1>e, Zenon DEF Alike
  <2> QED BY <1>a, <1>e, <2>1, AgentKept, Zenon DEF RunInv, NoneLost
<1>3. ASSUME NEW x \in workers' PROVE WorkerInv(x)'
  <2>1. CASE x \in workers
    BY <1>a, <2>1, WorkerKept, Zenon DEF RunInv
  <2>2. CASE x = v
    <3>1. over[a][w.run] = "no"
      BY <1>a, <1>b, Bounds DEF AgentInv, Active, Worker
    <3>2. v.agent = a /\ v.run = w.run /\ v.kind = w.kind
      BY <1>c, Zenon DEF Alike
    <3>3. Active(a)' /\ ~(w.run < engine[a].run) /\ w.run <= engine[a].run
      BY <1>a, <1>b DEF Active, Typed, EngineRecord
    <3>4. \A i \in 1 .. Len(engine[a].queue) : engine[a].queue[i] # w.kind
      BY <1>a, <1>b, Zenon DEF WorkerInv
    <3> QED BY <1>a, <1>c, <1>d, <2>2, <3>1, <3>2, <3>3, <3>4, Zenon DEF WorkerInv
  <2> QED BY <1>e, <2>1, <2>2, Zenon
<1> QED BY <1>1, <1>2, <1>3, <1>e, Zenon DEF RunInv

(* ProcessEnds: nothing of the agent is left but its number of runs. *)
LEMMA ProcessEndsRun ==
    ASSUME Typed, RunInv, NEW a \in Agents, ProcessEnds(a), UNCHANGED scenario
    PROVE  Typed' /\ RunInv'
<1>a. AgentInv(a) /\ engine[a].run \in Nat /\ MaxRuns[a] \in Nat
  BY Bounds, Zenon DEF RunInv, Typed, EngineRecord
<1>b. /\ engine[a].state # "idle"
      /\ workers' = {w \in workers : w.agent # a}
      /\ UNCHANGED <<present, cleaner, verifier, clean, scenario>>
  BY Zenon DEF ProcessEnds
<1>c. /\ \A b \in Agents : b # a => engine'[b] = engine[b] /\ over'[b] = over[b]
      /\ engine'[a] = [Idle EXCEPT !.run = engine[a].run]
      /\ DOMAIN over' = Agents /\ over'[a] = [r \in DOMAIN over[a] |-> "no"]
  BY Zenon DEF ProcessEnds, Typed
<1>d. engine'[a].run = engine[a].run /\ engine'[a].state = "idle" /\ engine'[a].queue = <<>> /\ engine'[a].plan = <<>>
  BY <1>c, Zenon DEF Idle
<1>e. engine' \in [Agents -> EngineRecord]
  <2>1. [Idle EXCEPT !.run = engine[a].run] \in EngineRecord
    BY <1>a, IdleTyped, Zenon DEF EngineRecord
  <2> QED BY <2>1, Zenon DEF ProcessEnds, Typed
<1>f. DOMAIN over[a] = 1 .. MaxRuns[a]
  BY Zenon DEF Typed
<1>g. faults' \in 0 .. MaxFaults
  BY Bounds DEF ProcessEnds, Fault, Typed
<1>h. fresh' \in [Agents -> BOOLEAN] /\ hurt' \in [Agents -> BOOLEAN]
  BY Zenon DEF ProcessEnds, Typed
<1>i. \A r \in 1 .. MaxRuns[a] : over'[a][r] = "no"
  BY <1>c, <1>f, Zenon
<1>j. over'[a] \in [1 .. MaxRuns[a] -> {"no", "error", "early", "shutdown"}]
  BY <1>c, <1>f, Zenon
<1>1. Typed'
  BY <1>b, <1>c, <1>e, <1>g, <1>h, <1>j, Zenon DEF Typed
<1>2. ASSUME NEW b \in Agents, b # a PROVE AgentInv(b)'
  <2>1. \A w \in workers : w.agent = b => w \in workers'
    BY <1>2, <1>b, Zenon
  <2> QED BY <1>2, <1>b, <1>c, <2>1, AgentKept, Zenon DEF RunInv, Alike
<1>3. AgentInv(a)'
  <2>1. ~Active(a)'
    BY <1>d, Zenon DEF Active
  <2>2. IsInjective(<<>>)
    BY DEF IsInjective
  <2> QED BY <1>a, <1>b, <1>d, <1>i, <2>1, <2>2, Zenon DEF AgentInv
<1>4. ASSUME NEW w \in workers' PROVE WorkerInv(w)'
  <2>1. w \in workers /\ w.agent # a /\ w.agent \in Agents
    BY <1>b, Zenon DEF Typed, Worker
  <2> QED BY <1>c, <2>1, WorkerKept, Zenon DEF RunInv
<1>5. Distinct'
  BY <1>b, Zenon DEF RunInv, Distinct
<1> QED BY <1>1, <1>2, <1>3, <1>4, <1>5, Zenon DEF RunInv

(* The tools and the probes leave the processes alone. *)
LEMMA ProcessKept ==
    ASSUME Typed, RunInv, PresentTyped', faults' \in 0 .. MaxFaults, verifier' \in Verifier,
           cleaner' = cleaner, UNCHANGED <<process, history, scenario>>
    PROVE  Typed' /\ RunInv'
<1>1. UNCHANGED <<engine, workers, hurt, over, clean, fresh>>
  BY Zenon DEF process, history
<1>2. Typed'
  BY <1>1, Zenon DEF Typed, PresentTyped
<1>3. ASSUME NEW b \in Agents PROVE AgentInv(b)'
  BY <1>1, AgentKept, Zenon DEF RunInv, Alike
<1>4. ASSUME NEW w \in workers' PROVE WorkerInv(w)'
  BY <1>1, WorkerKept, Zenon DEF RunInv
<1>5. Distinct'
  BY <1>1, Zenon DEF RunInv, Distinct
<1> QED BY <1>2, <1>3, <1>4, <1>5, Zenon DEF RunInv

LEMMA ProbeRun ==
    ASSUME Typed, RunInv, NEW w \in workers, ProvisionProbe(w) \/ SeekRound(w), UNCHANGED scenario
    PROVE  Typed' /\ RunInv'
<1>1. w.agent \in Agents /\ w.kind \in WorkerTypes
  BY Zenon DEF Typed, Worker
<1>2. "probe" \in Roles /\ "probe_sub" \in Roles /\ "snap" \in Roles
  BY Zenon DEF Roles, TopicRoles, SubRoles
<1>3. \A r \in {"probe", "probe_sub", "snap"} : Name(w.agent, w.kind, r) \in NameSet
  BY <1>1, <1>2, NameTyped, Zenon
<1>4. PresentTyped'
  <2>1. CASE ProvisionProbe(w)
    <3>1. PICK role \in {"probe", "probe_sub"} : Ensure(Name(w.agent, w.kind, role), 1)
      BY <2>1, Zenon DEF ProvisionProbe
    <3> QED BY <1>3, <3>1, WithTyped DEF Ensure
  <2>2. CASE SeekRound(w)
    <3> DEFINE id == Name(w.agent, w.kind, "snap")
    <3>1. present' = Without({id}) \/ present' = With(id, 1)
      BY <2>2, Zenon DEF SeekRound
    <3> HIDE DEF id
    <3>2. id \in NameSet
      BY <1>3, Zenon DEF id
    <3> QED BY <3>1, <3>2, WithTyped, WithoutTyped
  <2> QED BY <2>1, <2>2, Zenon
<1>5. UNCHANGED <<process, cleaner, verifier, faults, history>>
  BY Zenon DEF ProvisionProbe, SeekRound
<1>6. faults' \in 0 .. MaxFaults /\ verifier' \in Verifier
  BY <1>5, Zenon DEF Typed
<1> QED BY <1>4, <1>5, <1>6, ProcessKept, Zenon

LEMMA VerifyRun ==
    ASSUME Typed, RunInv, VerifyProvision \/ VerifyCleanup, UNCHANGED scenario
    PROVE  Typed' /\ RunInv'
<1>a. verifier \in Verifier /\ verifier.todo \in Seq(VerifyNames) /\ verifier.registered \in Seq(VerifyNames)
  BY Zenon DEF Typed, Verifier
<1>1. CASE VerifyProvision
  <2> DEFINE id == Head(verifier.todo)
  <2>1. id \in VerifyNames /\ Tail(verifier.todo) \in Seq(VerifyNames) /\ id \in NameSet
    BY <1>1, <1>a DEF VerifyProvision, VerifyNames
  <2>2. LaterChecks(id) \in Seq(VerifyNames)
    BY <1>a DEF LaterChecks
  <2>3. Append(verifier.registered, id) \in Seq(VerifyNames)
    BY <1>a, <2>1
  <2>4. Ensure(id, 1) \/ present' = present
    BY <1>1, Zenon DEF VerifyProvision
  <2>5. \/ verifier' = [verifier EXCEPT !.todo = Tail(@), !.registered = Append(@, id)]
        \/ verifier' = [verifier EXCEPT !.missed = TRUE, !.todo = LaterChecks(id)]
    BY <1>1, Zenon DEF VerifyProvision
  <2>6. UNCHANGED <<process, cleaner, history>>
    BY <1>1, Zenon DEF VerifyProvision
  <2>7. faults' \in 0 .. MaxFaults
    BY <1>1, Bounds DEF VerifyProvision, Fault, Typed
  <2> HIDE DEF id
  <2>8. verifier' \in Verifier
    BY <1>a, <2>1, <2>2, <2>3, <2>5, Zenon DEF Verifier
  <2>9. PresentTyped'
    BY <2>1, <2>4, WithTyped DEF Ensure
  <2> QED BY <2>6, <2>7, <2>8, <2>9, ProcessKept, Zenon
<1>2. CASE VerifyCleanup
  <2> DEFINE id == NextRegistered
  <2>1. Front(verifier.registered) \in Seq(VerifyNames)
    BY <1>2, <1>a DEF VerifyCleanup, Front
  <2>2. present' = Without({id}) \/ present' = present
    BY <1>2, Zenon DEF VerifyCleanup
  <2>3. \/ verifier' = [verifier EXCEPT !.registered = Front(@)]
        \/ verifier' = [verifier EXCEPT !.registered = Front(@), !.missed = TRUE]
    BY <1>2, Zenon DEF VerifyCleanup
  <2>4. verifier' \in Verifier
    BY <1>a, <2>1, <2>3, Zenon DEF Verifier
  <2>5. UNCHANGED <<process, cleaner, history>>
    BY <1>2, Zenon DEF VerifyCleanup
  <2>6. faults' \in 0 .. MaxFaults
    BY <1>2, Bounds DEF VerifyCleanup, Fault, Typed
  <2>7. PresentTyped'
    BY <2>2, WithoutTyped, Zenon
  <2> QED BY <2>4, <2>5, <2>6, <2>7, ProcessKept, Zenon
<1> QED BY <1>1, <1>2, Zenon

LEMMA StagesAre ==
    /\ Len(Stages) = 4
    /\ Stages[1] = SubRoles /\ Stages[2] = {"snap"} /\ Stages[3] = TopicRoles /\ Stages[4] = {"schema"}
BY Zenon DEF Stages

(* A step of cmd/cleanup for agent a. *)
LEMMA CleanerRun ==
    ASSUME Typed, RunInv, NEW a \in Agents, engine[a].state = "idle",
           PresentTyped', faults' \in 0 .. MaxFaults, verifier' = verifier,
           UNCHANGED <<process, fresh, scenario>>,
           NEW c \in Cleaner, cleaner' = [cleaner EXCEPT ![a] = c],
           c.stage = 0 => c.todo = {},
           \A x \in c.todo : x.role \in Stages[c.stage] /\ HasPrefix(x.prefix, Prefix[a]),
           clean' \in [Agents -> BOOLEAN], \A b \in Agents : b # a => clean'[b] = clean[b]
    PROVE  Typed' /\ RunInv'
<1>1. UNCHANGED <<engine, workers, hurt, over>>
  BY Zenon DEF process
<1>2. cleaner' \in [Agents -> Cleaner] /\ cleaner'[a] = c /\ \A b \in Agents : b # a => cleaner'[b] = cleaner[b]
  BY Zenon DEF Typed
<1>3. Typed'
  BY <1>1, <1>2, Zenon DEF Typed, PresentTyped
<1>4. ASSUME NEW b \in Agents, b # a PROVE AgentInv(b)'
  BY <1>1, <1>2, <1>4, AgentKept, Zenon DEF RunInv, Alike
<1>5. AgentInv(a)'
  <2>1. AgentInv(a)
    BY Zenon DEF RunInv
  <2>2. Active(a)' <=> Active(a)
    BY <1>1, Zenon DEF Active
  <2>3. engine[a].plan = <<>>
    BY <2>1, Zenon DEF AgentInv
  <2> QED BY <1>1, <1>2, <2>1, <2>2, <2>3, Zenon DEF AgentInv
<1>6. ASSUME NEW w \in workers' PROVE WorkerInv(w)'
  BY <1>1, WorkerKept, Zenon DEF RunInv
<1>7. Distinct'
  BY <1>1, Zenon DEF RunInv, Distinct
<1> QED BY <1>3, <1>4, <1>5, <1>6, <1>7, Zenon DEF RunInv

(* A stage of the deletion begins. *)
LEMMA CleanupStageEffect ==
    ASSUME Typed, NEW a \in Agents, CleanupStage(a)
    PROVE  LET next == cleaner[a].stage + 1 IN
           /\ next \in 1 .. 4 /\ cleaner[a].todo = {} /\ engine[a].state = "idle"
           /\ \E c \in Cleaner :
                 /\ cleaner' = [cleaner EXCEPT ![a] = c] /\ c.stage = next
                 /\ \/ c.todo = Matching(a, next) /\ c.missed = cleaner[a].missed
                    \/ c.todo = {} /\ c.missed = TRUE
<1> DEFINE next == cleaner[a].stage + 1
<1>1. cleaner[a] \in Cleaner /\ cleaner[a].stage \in 0 .. 4
  BY Zenon DEF Typed, Cleaner
<1>2. /\ next \in 1 .. 4 /\ cleaner[a].todo = {} /\ engine[a].state = "idle"
  BY <1>1, StagesAre DEF CleanupStage
<1>3. \/ cleaner' = [cleaner EXCEPT ![a] = [cleaner[a] EXCEPT !.stage = next, !.todo = Matching(a, next)]]
      \/ cleaner' = [cleaner EXCEPT ![a] = [cleaner[a] EXCEPT !.stage = next, !.missed = TRUE]]
  BY <1>1, Zenon DEF CleanupStage, Typed, Cleaner
<1>4. Matching(a, next) \in SUBSET NameSet /\ next \in 0 .. 4
  BY <1>2 DEF Matching, Typed
<1> HIDE DEF next
<1>5. CASE cleaner' = [cleaner EXCEPT ![a] = [cleaner[a] EXCEPT !.stage = next, !.todo = Matching(a, next)]]
  <2> DEFINE c == [cleaner[a] EXCEPT !.stage = next, !.todo = Matching(a, next)]
  <2>1. c \in Cleaner /\ c.stage = next /\ c.todo = Matching(a, next) /\ c.missed = cleaner[a].missed
    BY <1>1, <1>2, <1>4, Zenon DEF Cleaner
  <2> QED BY <1>2, <1>5, <2>1, Zenon DEF next
<1>6. CASE cleaner' = [cleaner EXCEPT ![a] = [cleaner[a] EXCEPT !.stage = next, !.missed = TRUE]]
  <2> DEFINE c == [cleaner[a] EXCEPT !.stage = next, !.missed = TRUE]
  <2>1. c \in Cleaner /\ c.stage = next /\ c.todo = {} /\ c.missed = TRUE
    BY <1>1, <1>2, <1>4, Zenon DEF Cleaner
  <2> QED BY <1>2, <1>6, <2>1, Zenon DEF next
<1> QED BY <1>3, <1>5, <1>6, Zenon DEF next

LEMMA CleanupStageRun ==
    ASSUME Typed, RunInv, NEW a \in Agents, CleanupStage(a), UNCHANGED scenario
    PROVE  Typed' /\ RunInv'
<1>1. PICK c \in Cleaner :
                 /\ cleaner' = [cleaner EXCEPT ![a] = c] /\ c.stage = cleaner[a].stage + 1
                 /\ \/ c.todo = Matching(a, cleaner[a].stage + 1) /\ c.missed = cleaner[a].missed
                    \/ c.todo = {} /\ c.missed = TRUE
  BY CleanupStageEffect, Zenon
<1>2. engine[a].state = "idle" /\ cleaner[a].stage + 1 \in 1 .. 4
  BY CleanupStageEffect, Zenon
<1>3. \A x \in c.todo : x.role \in Stages[c.stage] /\ HasPrefix(x.prefix, Prefix[a])
  BY <1>1, Zenon DEF Matching
<1>4. UNCHANGED <<present, process, verifier, fresh>>
  BY Zenon DEF CleanupStage
<1>5. faults' \in 0 .. MaxFaults
  BY Bounds DEF CleanupStage, Fault, Typed
<1>6. clean' \in [Agents -> BOOLEAN] /\ \A b \in Agents : b # a => clean'[b] = clean[b]
  BY Zenon DEF CleanupStage, Typed
<1>7. PresentTyped'
  BY <1>4, Zenon DEF Typed, PresentTyped
<1>8. c.stage # 0
  BY <1>1, <1>2
<1> QED BY <1>1, <1>2, <1>3, <1>4, <1>5, <1>6, <1>7, <1>8, CleanerRun, Zenon

(* One resource of the stage is deleted, or it is passed over. *)
LEMMA CleanupDeleteEffect ==
    ASSUME Typed, RunInv, NEW a \in Agents, CleanupDelete(a)
    PROVE  /\ engine[a].state = "idle" /\ cleaner[a].stage > 0
           /\ \E id \in cleaner[a].todo : \E c \in Cleaner :
                 /\ cleaner' = [cleaner EXCEPT ![a] = c]
                 /\ c.stage = cleaner[a].stage /\ c.todo = cleaner[a].todo \ {id}
                 /\ \/ present' = Without({id}) /\ c.missed = cleaner[a].missed
                    \/ present' = present /\ c.missed = (cleaner[a].missed \/ Deletable(id))
<1>1. cleaner[a] \in Cleaner /\ cleaner[a].stage \in 0 .. 4 /\ AgentInv(a) /\ cleaner[a].missed \in BOOLEAN
  BY Zenon DEF Typed, Cleaner, RunInv
<1>2. PICK id \in cleaner[a].todo :
          \/ /\ present' = Without({id})
             /\ cleaner' = [cleaner EXCEPT ![a].todo = @ \ {id}]
          \/ /\ cleaner' = [cleaner EXCEPT ![a].todo = @ \ {id}, ![a].missed = @ \/ Deletable(id)]
             /\ present' = present
  BY Zenon DEF CleanupDelete
<1>3. engine[a].state = "idle" /\ cleaner[a].stage > 0
  BY <1>1, <1>2 DEF AgentInv
<1>a. Deletable(id) \in BOOLEAN
  BY Zenon DEF Deletable
<1>4. CASE present' = Without({id}) /\ cleaner' = [cleaner EXCEPT ![a].todo = @ \ {id}]
  <2> DEFINE c == [cleaner[a] EXCEPT !.todo = @ \ {id}]
  <2>1. /\ c \in Cleaner /\ c.stage = cleaner[a].stage /\ c.todo = cleaner[a].todo \ {id}
        /\ c.missed = cleaner[a].missed /\ cleaner' = [cleaner EXCEPT ![a] = c]
    BY <1>1, <1>4, Zenon DEF Cleaner, Typed
  <2> QED BY <1>3, <1>4, <2>1, Zenon
<1>5. CASE /\ cleaner' = [cleaner EXCEPT ![a].todo = @ \ {id}, ![a].missed = @ \/ Deletable(id)]
           /\ present' = present
  <2> DEFINE m == cleaner[a].missed \/ Deletable(id)
             c == [cleaner[a] EXCEPT !.todo = @ \ {id}, !.missed = m]
  <2>1. m \in BOOLEAN
    BY <1>1, <1>a, Zenon
  <2>2. cleaner' = [cleaner EXCEPT ![a] = c]
    BY <1>1, <1>5, Zenon DEF Typed, Cleaner
  <2> HIDE DEF m
  <2>3. c \in Cleaner /\ c.stage = cleaner[a].stage /\ c.todo = cleaner[a].todo \ {id} /\ c.missed = m
    BY <1>1, <2>1, Zenon DEF Cleaner
  <2> HIDE DEF c
  <2> QED BY <1>3, <1>5, <2>2, <2>3, Zenon DEF m
<1> QED BY <1>2, <1>4, <1>5, Zenon

LEMMA CleanupDeleteRun ==
    ASSUME Typed, RunInv, NEW a \in Agents, CleanupDelete(a), UNCHANGED scenario
    PROVE  Typed' /\ RunInv'
<1>0. \E id \in cleaner[a].todo : \E c \in Cleaner :
        /\ cleaner' = [cleaner EXCEPT ![a] = c]
        /\ c.stage = cleaner[a].stage /\ c.todo = cleaner[a].todo \ {id}
        /\ \/ present' = Without({id}) /\ c.missed = cleaner[a].missed
           \/ present' = present /\ c.missed = (cleaner[a].missed \/ Deletable(id))
  BY CleanupDeleteEffect, Zenon
<1>1. PICK id \in cleaner[a].todo, c \in Cleaner :
                 /\ cleaner' = [cleaner EXCEPT ![a] = c]
                 /\ c.stage = cleaner[a].stage /\ c.todo = cleaner[a].todo \ {id}
                 /\ present' = Without({id}) \/ present' = present
  BY <1>0, Zenon
<1>2. engine[a].state = "idle" /\ cleaner[a].stage > 0
  BY CleanupDeleteEffect, Zenon
<1>3. \A x \in c.todo : x.role \in Stages[c.stage] /\ HasPrefix(x.prefix, Prefix[a])
  BY <1>1, Zenon DEF RunInv, AgentInv
<1>4. UNCHANGED <<process, verifier, clean, fresh>>
  BY Zenon DEF CleanupDelete, history
<1>5. faults' \in 0 .. MaxFaults
  BY Bounds DEF CleanupDelete, Fault, Typed
<1>6. clean' \in [Agents -> BOOLEAN] /\ \A b \in Agents : b # a => clean'[b] = clean[b]
  BY <1>4, Zenon DEF Typed
<1>7. PresentTyped'
  BY <1>1, WithoutTyped, Zenon
<1>8. c.stage # 0
  BY <1>1, <1>2 DEF Typed, Cleaner
<1> QED BY <1>1, <1>2, <1>3, <1>4, <1>5, <1>6, <1>7, <1>8, CleanerRun, Zenon

LEMMA CleanupDoneRun ==
    ASSUME Typed, RunInv, NEW a \in Agents, CleanupDone(a), UNCHANGED scenario
    PROVE  Typed' /\ RunInv'
<1>1. NoCleanup \in Cleaner /\ NoCleanup.stage = 0 /\ NoCleanup.todo = {}
  BY DEF NoCleanup, Cleaner
<1>2. cleaner[a].stage = 4 /\ cleaner' = [cleaner EXCEPT ![a] = NoCleanup] /\ UNCHANGED <<present, process, verifier, faults, fresh>>
  BY StagesAre, Zenon DEF CleanupDone
<1>3. engine[a].state = "idle"
  BY <1>2 DEF RunInv, AgentInv
<1>4. clean' \in [Agents -> BOOLEAN] /\ \A b \in Agents : b # a => clean'[b] = clean[b]
  BY Zenon DEF CleanupDone, Typed
<1>5. PresentTyped' /\ faults' \in 0 .. MaxFaults
  BY <1>2, Zenon DEF Typed, PresentTyped
<1> QED BY <1>1, <1>2, <1>3, <1>4, <1>5, CleanerRun, Zenon

(* RunInv is inductive. *)
LEMMA RunStep ==
    ASSUME Typed, RunInv, [Next]_vars
    PROVE  Typed' /\ RunInv'
<1>1. CASE UNCHANGED vars
  <2>1. /\ UNCHANGED <<process, history, scenario>> /\ cleaner' = cleaner
        /\ present' = present /\ faults' = faults /\ verifier' = verifier
    BY <1>1, Zenon DEF vars, process, history
  <2>2. PresentTyped' /\ faults' \in 0 .. MaxFaults /\ verifier' \in Verifier
    BY <2>1, Zenon DEF Typed, PresentTyped
  <2> QED BY <2>1, <2>2, ProcessKept, Zenon
<1>2. ASSUME NEW a \in Agents, AgentNext(a), UNCHANGED scenario PROVE Typed' /\ RunInv'
  BY <1>2, StartRunRun, StartConsumersRun, StartFailsRun, OpenClientRun, EnsureRun, LaunchRun, ReadyRun,
     StopRunRun, ShutdownRun, RunStoppedRun, ProcessEndsRun, CleanupStageRun, CleanupDeleteRun,
     CleanupDoneRun, Zenon DEF AgentNext
<1>3. ASSUME NEW w \in workers, ProvisionProbe(w) \/ SeekRound(w) \/ StopConsumers(w), UNCHANGED scenario
      PROVE  Typed' /\ RunInv'
  BY <1>3, ProbeRun, StopConsumersRun, Zenon
<1>4. ASSUME VerifyProvision \/ VerifyCleanup, UNCHANGED scenario PROVE Typed' /\ RunInv'
  BY <1>4, VerifyRun, Zenon
<1> QED BY <1>1, <1>2, <1>3, <1>4, Zenon DEF Next

(***************************************************************************)
(* The records of runs and workers stay consistent through every           *)
(* interleaving of starts, setError, stops, cmd/cleanup and cmd/verify: a  *)
(* run has one worker of a kind, a worker holds only clients its           *)
(* StopConsumers closes and receives only from its own subscriptions, and  *)
(* one of a run that is over does only what the way it ended leaves it.    *)
(***************************************************************************)
THEOREM RunsConsistent == Spec => [](Typed /\ RunInv)
BY InitRun, RunStep, PTL DEF Spec

(***************************************************************************)
(* A run that ended through shutdownWorkers has closed every client that   *)
(* its workers opened: a Start opens only what its StopConsumers closes,   *)
(* and shutdownWorkers stops every worker of the run.                      *)
(***************************************************************************)
THEOREM ClientsClosed == Spec => []HandlesClosed
<1>1. RunInv => HandlesClosed
  BY Zenon DEF RunInv, WorkerInv, HandlesClosed
<1> QED BY <1>1, RunsConsistent, PTL

(***************************************************************************)
(* No subscription is received from by two runs of an agent, unless the    *)
(* earlier one ended in setError: every other end leaves no loop.          *)
(***************************************************************************)
THEOREM SoleReceiver == Spec => []OneReceiver
<1>1. Typed /\ RunInv => OneReceiver
  <2> SUFFICES ASSUME Typed, RunInv, NEW v \in workers, NEW w \in workers,
                      v.run < w.run, v.agent = w.agent, v.receiving \cap w.receiving # {}
               PROVE  over[v.agent][v.run] = "error"
    BY Zenon DEF OneReceiver
  <2>1. WorkerInv(v) /\ WorkerInv(w) /\ AgentInv(v.agent)
    BY Zenon DEF RunInv, Typed, Worker
  <2>2. v.run \in Nat \ {0} /\ w.run \in Nat /\ engine[v.agent].run \in Nat /\ MaxRuns[v.agent] \in Nat /\ v.agent \in Agents
    BY Bounds, Zenon DEF Typed, Worker, EngineRecord
  <2>3. w.run <= engine[v.agent].run /\ engine[v.agent].run <= MaxRuns[v.agent]
    BY <2>1, Zenon DEF WorkerInv, AgentInv
  <2>4. v.run < engine[v.agent].run /\ v.run \in 1 .. MaxRuns[v.agent]
    BY <2>2, <2>3
  <2>5. over[v.agent][v.run] \in {"no", "error", "early", "shutdown"}
    BY <2>2, <2>4, Zenon DEF Typed
  <2>6. over[v.agent][v.run] # "no" /\ v.receiving # {}
    BY <2>1, <2>4, Zenon DEF WorkerInv
  <2> QED BY <2>1, <2>5, <2>6, Zenon DEF WorkerInv
<1> QED BY <1>1, RunsConsistent, PTL

-----------------------------------------------------------------------------
(* The connector.                                                          *)

(* No agent uses the names of cmd/verify, which end in a random suffix. *)
VerifyApart == \A a \in Agents : Prefix[a] # <<"verify">>

(* The prefix of no agent extends that of another. *)
PrefixesApart == \A a, b \in Agents : a # b => ~HasPrefix(Prefix[b], Prefix[a])

(* What cmd/cleanup has passed is gone, and what it is at is on its list. *)
CleanAt(a) ==
    /\ clean[a] => \A x \in DOMAIN present : x.prefix # Prefix[a]
    /\ cleaner[a].stage > 0 /\ ~cleaner[a].missed =>
          \A x \in DOMAIN present : x.prefix = Prefix[a] =>
              /\ \A i \in 1 .. 4 : i < cleaner[a].stage => x.role \notin Stages[i]
              /\ x.role \in Stages[cleaner[a].stage] => x \in cleaner[a].todo

CleanInv == \A a \in Agents : CleanAt(a)

(* The steps of the plan of worker w that are done: all, unless it is the one being started. *)
Passed(w, i) ==
    engine[w.agent].plan # <<>> /\ w.kind = engine[w.agent].kind
    => i <= Len(Plan(w.kind)) - Len(engine[w.agent].plan)

(* What the Start of a worker has provisioned is there as long as its run is. *)
Provided(w) ==
    w.run = engine[w.agent].run /\ engine[w.agent].state \in {"starting", "up"} =>
        \A i \in 1 .. Len(Plan(w.kind)) :
            Plan(w.kind)[i] \in Roles /\ Passed(w, i)
            => Name(w.agent, w.kind, Plan(w.kind)[i]) \in DOMAIN present

ProvidedInv == \A w \in workers : Provided(w)

(* After a clean start, all there is of an agent is as its configuration asks. *)
Settled(a) ==
    fresh[a] => \A x \in DOMAIN present :
                   x.prefix = Prefix[a] => present[x] = AskedFor(x.kind, x.role, engine[a].cfg)

SettingsInv == \A a \in Agents : Settled(a)

(* cmd/verify works down its plan: what it has created is registered, and nothing else is there. *)
VerifyInv ==
    LET n == Len(verifier.registered)
    IN  ~verifier.missed =>
            /\ n <= Len(VerifyPlan)
            /\ \A i \in 1 .. n : verifier.registered[i] = VerifyPlan[i]
            /\ verifier.todo # <<>> =>
                  /\ Len(verifier.todo) + n = Len(VerifyPlan)
                  /\ \A i \in 1 .. Len(verifier.todo) : verifier.todo[i] = VerifyPlan[n + i]
            /\ \A x \in DOMAIN present :
                  x.prefix = <<"verify">> => \E i \in 1 .. n : x = VerifyPlan[i]

-----------------------------------------------------------------------------
(* What the steps do to the connector.                                     *)

Grown ==
    \E a \in Agents, k \in WorkerTypes, r \in Roles :
        /\ engine[a].state # "idle" /\ engine'[a].cfg = engine[a].cfg
        /\ fresh' = fresh /\ cleaner' = cleaner /\ clean' = clean
        /\ present' = With(Name(a, k, r), AskedFor(k, r, engine[a].cfg))

VerifyGrown == \E x \in VerifyNames : present' = With(x, 1)

Shrunk == \E ids : present' = Without(ids)

Changed == present' = present \/ Grown \/ Shrunk

LEMMA CreatesGrown ==
    ASSUME Typed, RunInv, NEW a \in Agents, engine[a].plan # <<>>, Creates(a),
           engine'[a].cfg = engine[a].cfg, fresh' = fresh, cleaner' = cleaner, clean' = clean
    PROVE  Grown
<1>1. engine[a].kind \in WorkerTypes /\ engine[a].state # "idle"
  BY HeadOfPlan, Zenon DEF RunInv, AgentInv
<1> QED BY <1>1, Zenon DEF Creates, Grown

LEMMA StartChanges ==
    ASSUME Typed, RunInv, NEW a \in Agents, EnsureResource(a) \/ StartFails(a)
    PROVE  Changed
<1>1. /\ engine[a].plan # <<>> /\ fresh' = fresh /\ cleaner' = cleaner /\ clean' = clean
      /\ Creates(a) \/ present' = present
      /\ Proceed(a) \/ SetError(a)
  BY Zenon DEF EnsureResource, StartFails, history, Creates, Ensure
<1>2. engine'[a].cfg = engine[a].cfg
  BY <1>1, ProceedEffect DEF SetError, Typed, EngineRecord
<1> QED BY <1>1, <1>2, CreatesGrown, Zenon DEF Changed

LEMMA ProbeChanges ==
    ASSUME Typed, RunInv, NEW w \in workers, ProvisionProbe(w) \/ SeekRound(w)
    PROVE  Changed
<1>1. w.agent \in Agents /\ w.kind \in WorkerTypes /\ engine[w.agent].state # "idle"
  BY Zenon DEF Typed, Worker, RunInv, AgentInv
<1>2. "probe" \in Roles /\ "probe_sub" \in Roles /\ "snap" \in Roles
  BY Zenon DEF Roles, TopicRoles, SubRoles
<1>3. \A r \in {"probe", "probe_sub", "snap"} : AskedFor(w.kind, r, engine[w.agent].cfg) = 1
  BY Zenon DEF AskedFor, SubRoles
<1>4. UNCHANGED <<engine, cleaner, clean, fresh>>
  BY Zenon DEF ProvisionProbe, SeekRound, process, history
<1>5. ASSUME NEW r \in {"probe", "probe_sub", "snap"}, present' = With(Name(w.agent, w.kind, r), 1)
      PROVE  Grown
  BY <1>1, <1>2, <1>3, <1>4, <1>5, Zenon DEF Grown
<1>6. CASE ProvisionProbe(w)
  BY <1>5, <1>6, Zenon DEF ProvisionProbe, Ensure, Changed
<1>7. CASE SeekRound(w)
  BY <1>5, <1>7, Zenon DEF SeekRound, Changed, Shrunk
<1> QED BY <1>6, <1>7, Zenon

LEMMA VerifyChanges ==
    ASSUME Typed, VerifyProvision \/ VerifyCleanup
    PROVE  Changed \/ VerifyGrown
<1>1. CASE VerifyProvision
  <2>1. Head(verifier.todo) \in VerifyNames
    BY <1>1 DEF VerifyProvision, Typed, Verifier
  <2>2. Ensure(Head(verifier.todo), 1) \/ present' = present
    BY <1>1, Zenon DEF VerifyProvision
  <2> QED BY <2>1, <2>2, Zenon DEF Ensure, Changed, VerifyGrown
<1>2. CASE VerifyCleanup
  BY <1>2, Zenon DEF VerifyCleanup, Changed, Shrunk
<1> QED BY <1>1, <1>2, Zenon

LEMMA AgentChanges ==
    ASSUME Typed, RunInv, NEW a \in Agents, AgentNext(a)
    PROVE  Changed /\ verifier' = verifier
<1>1. CASE EnsureResource(a) \/ StartFails(a)
  BY <1>1, StartChanges, Zenon DEF EnsureResource, StartFails
<1>2. CASE \/ \E c \in scenario.configs[a] : StartRun(a, c)
           \/ StartConsumers(a) \/ OpenClient(a) \/ Launch(a) \/ Ready(a) \/ StopRun(a)
           \/ ShutdownWorkers(a) \/ RunStopped(a) \/ ProcessEnds(a)
  BY <1>2, Zenon DEF StartRun, StartConsumers, OpenClient, Launch, Ready, StopRun, ShutdownWorkers,
              RunStopped, ProcessEnds, Changed
<1>3. CASE CleanupStage(a) \/ CleanupDone(a)
  BY <1>3, Zenon DEF CleanupStage, CleanupDone, Changed
<1>4. CASE CleanupDelete(a)
  BY <1>4, CleanupDeleteEffect, Zenon DEF Changed, Shrunk, CleanupDelete
<1> QED BY <1>1, <1>2, <1>3, <1>4, Zenon DEF AgentNext

LEMMA WorkerChanges ==
    ASSUME Typed, RunInv, NEW w \in workers, ProvisionProbe(w) \/ SeekRound(w) \/ StopConsumers(w)
    PROVE  Changed /\ verifier' = verifier
<1>1. CASE StopConsumers(w)
  BY <1>1, Zenon DEF StopConsumers, Changed, Shrunk
<1>2. CASE ProvisionProbe(w) \/ SeekRound(w)
  BY <1>2, ProbeChanges, Zenon DEF ProvisionProbe, SeekRound
<1> QED BY <1>1, <1>2, Zenon

LEMMA Changes ==
    ASSUME Typed, RunInv, [Next]_vars
    PROVE  Changed \/ VerifyGrown
<1>1. CASE UNCHANGED vars
  BY <1>1, Zenon DEF vars, Changed
<1> QED BY <1>1, AgentChanges, WorkerChanges, VerifyChanges, Zenon DEF Next

-----------------------------------------------------------------------------
(* cmd/cleanup.                                                            *)

LEMMA NamePrefix == \A a, k, r : Name(a, k, r).prefix = Prefix[a] /\ Name(a, k, r).kind = k /\ Name(a, k, r).role = r
BY Zenon DEF Name

(* A step of others neither creates names of an idle agent nor hides those it has. *)
LEMMA CleanKept ==
    ASSUME Typed, RunInv, VerifyApart, Changed \/ VerifyGrown, NEW b \in Agents, CleanAt(b),
           cleaner'[b] = cleaner[b], clean'[b] => clean[b]
    PROVE  CleanAt(b)'
<1>1. CASE \A x \in DOMAIN present' : x.prefix = Prefix[b] => x \in DOMAIN present
  BY <1>1, Zenon DEF CleanAt
<1>2. CASE Grown
  <2>1. PICK a \in Agents, k \in WorkerTypes, r \in Roles :
          /\ engine[a].state # "idle"
          /\ present' = With(Name(a, k, r), AskedFor(k, r, engine[a].cfg))
    BY <1>2, Zenon DEF Grown
  <2>2. DOMAIN present' = DOMAIN present \cup {Name(a, k, r)}
    BY <2>1, WithEffect, Zenon
  <2>3. CASE a = b
    <3>1. ~(cleaner[b].stage > 0) /\ ~clean[b]
      BY <2>1, <2>3, Zenon DEF RunInv, AgentInv
    <3> QED BY <3>1, Zenon DEF CleanAt
  <2>4. CASE a # b
    <3>1. Name(a, k, r).prefix # Prefix[b]
      BY <2>4, NamePrefix, ResourcesAssumption
    <3> QED BY <1>1, <2>2, <3>1, Zenon
  <2> QED BY <2>3, <2>4, Zenon
<1>3. CASE VerifyGrown
  <2>1. PICK y \in VerifyNames : present' = With(y, 1)
    BY <1>3, Zenon DEF VerifyGrown
  <2>2. DOMAIN present' = DOMAIN present \cup {y} /\ y.prefix # Prefix[b]
    BY <2>1, WithEffect, Zenon DEF VerifyNames, VerifyApart
  <2> QED BY <1>1, <2>2, Zenon
<1>4. CASE Shrunk
  BY <1>1, <1>4, WithoutEffect, Zenon DEF Shrunk
<1>5. CASE present' = present
  BY <1>1, <1>5, Zenon
<1> QED BY <1>2, <1>3, <1>4, <1>5, Zenon DEF Changed

LEMMA PrefixOfItself == \A a \in Agents : HasPrefix(Prefix[a], Prefix[a])
<1> SUFFICES ASSUME NEW a \in Agents PROVE HasPrefix(Prefix[a], Prefix[a])
  BY Zenon
<1>1. Len(Prefix[a]) \in Nat
  BY ResourcesAssumption
<1> QED BY <1>1 DEF HasPrefix

(* A stage lists all that it is there for. *)
LEMMA CleanupStageClean ==
    ASSUME Typed, RunInv, CleanInv, NEW a \in Agents, CleanupStage(a)
    PROVE  CleanAt(a)'
<1> DEFINE s == cleaner[a].stage
<1>1. PICK c \in Cleaner :
                 /\ cleaner' = [cleaner EXCEPT ![a] = c] /\ c.stage = s + 1
                 /\ \/ c.todo = Matching(a, s + 1) /\ c.missed = cleaner[a].missed
                    \/ c.todo = {} /\ c.missed = TRUE
  BY CleanupStageEffect, Zenon
<1>2. cleaner'[a] = c /\ clean'[a] = FALSE /\ present' = present /\ cleaner[a].todo = {} /\ s \in 0 .. 4
  BY <1>1, CleanupStageEffect, Zenon DEF CleanupStage, Typed, Cleaner
<1>3. ASSUME ~c.missed, NEW x \in DOMAIN present, x.prefix = Prefix[a]
      PROVE  /\ \A i \in 1 .. 4 : i < s + 1 => x.role \notin Stages[i]
             /\ x.role \in Stages[s + 1] => x \in c.todo
  <2>1. ~cleaner[a].missed /\ c.todo = Matching(a, s + 1)
    BY <1>1, <1>3, Zenon
  <2>2. x.role \in Stages[s + 1] => x \in Matching(a, s + 1)
    BY <1>3, PrefixOfItself, Zenon DEF Matching
  <2>3. ASSUME NEW i \in 1 .. 4, i < s + 1 PROVE x.role \notin Stages[i]
    <3>1. s > 0 /\ (i < s \/ i = s)
      BY <1>2, <2>3
    <3>2. /\ \A j \in 1 .. 4 : j < s => x.role \notin Stages[j]
          /\ x.role \in Stages[s] => x \in cleaner[a].todo
      BY <1>3, <2>1, <3>1, Zenon DEF CleanInv, CleanAt
    <3> QED BY <1>2, <3>1, <3>2, Zenon
  <2> QED BY <2>1, <2>2, <2>3, Zenon
<1> QED BY <1>1, <1>2, <1>3, Zenon DEF CleanAt

(* When the topics are deleted, what depends on them is gone. *)
LEMMA CleanupDeleteClean ==
    ASSUME Typed, RunInv, CleanInv, NEW a \in Agents, CleanupDelete(a)
    PROVE  CleanAt(a)'
<1> DEFINE s == cleaner[a].stage
<1>1. PICK id \in cleaner[a].todo, c \in Cleaner :
                 /\ cleaner' = [cleaner EXCEPT ![a] = c]
                 /\ c.stage = s /\ c.todo = cleaner[a].todo \ {id}
                 /\ \/ present' = Without({id}) /\ c.missed = cleaner[a].missed
                    \/ present' = present /\ c.missed = (cleaner[a].missed \/ Deletable(id))
  BY CleanupDeleteEffect, Zenon
<1>2. cleaner'[a] = c /\ clean' = clean /\ s \in 1 .. 4 /\ engine[a].state = "idle" /\ CleanAt(a)
  <2>1. cleaner'[a] = c
    BY <1>1, Zenon DEF Typed
  <2>2. s > 0 /\ engine[a].state = "idle" /\ s \in 0 .. 4
    BY CleanupDeleteEffect, Zenon DEF Typed, Cleaner
  <2>3. clean' = clean /\ CleanAt(a)
    BY Zenon DEF CleanupDelete, history, CleanInv
  <2> QED BY <2>1, <2>2, <2>3
<1>3. DOMAIN present' \subseteq DOMAIN present
  BY <1>1, WithoutEffect, Zenon
<1>4. clean[a] => \A x \in DOMAIN present' : x.prefix # Prefix[a]
  BY <1>2, <1>3, Zenon DEF CleanAt
<1>5. ASSUME ~c.missed, NEW x \in DOMAIN present', x.prefix = Prefix[a]
      PROVE  /\ \A i \in 1 .. 4 : i < s => x.role \notin Stages[i]
             /\ x.role \in Stages[s] => x \in c.todo
  <2>1. ~cleaner[a].missed
    BY <1>1, <1>5, Zenon
  <2>2. /\ \A y \in DOMAIN present : y.prefix = Prefix[a] => \A i \in 1 .. 4 : i < s => y.role \notin Stages[i]
        /\ x.role \in Stages[s] => x \in cleaner[a].todo
    BY <1>2, <1>3, <1>5, <2>1 DEF CleanAt
  <2>3. CASE present' = Without({id})
    <3>1. x # id
      <4>1. DOMAIN present' = DOMAIN present \ {id}
        BY <2>3, WithoutEffect, Zenon
      <4> QED BY <4>1, Zenon
    <3> QED BY <1>1, <1>3, <1>5, <2>2, <3>1, Zenon
  <2>4. CASE present' = present /\ ~Deletable(id)
    <3>1. x # id
      <4> SUFFICES ASSUME x = id PROVE FALSE
        BY Zenon
      <4>1. id.role \in TopicRoles /\ id.role \in Stages[s]
        BY <1>1, <2>4, Zenon DEF Deletable, RunInv, AgentInv
      <4>2. s = 3
        BY <1>2, <4>1, StagesAre DEF TopicRoles, SubRoles
      <4>3. PICK y \in DOMAIN present : y.prefix = id.prefix /\ y.role \in SubRoles \cup {"snap"}
        BY <2>4, Zenon DEF Deletable, Dependents
      <4>4. y.role \notin Stages[1] /\ y.role \notin Stages[2]
        BY <1>5, <2>2, <4>2, <4>3
      <4> QED BY <4>3, <4>4, StagesAre, Zenon
    <3> QED BY <1>1, <1>3, <1>5, <2>2, <3>1
  <2> QED BY <1>1, <1>5, <2>3, <2>4, Zenon
<1> QED BY <1>1, <1>2, <1>4, <1>5, Zenon DEF CleanAt

LEMMA CleanupDoneClean ==
    ASSUME Typed, RunInv, CleanInv, NEW a \in Agents, CleanupDone(a)
    PROVE  CleanAt(a)'
<1>1. /\ cleaner[a].stage = 4 /\ cleaner[a].todo = {} /\ cleaner'[a] = NoCleanup
      /\ clean'[a] = ~cleaner[a].missed /\ present' = present
  BY StagesAre, Zenon DEF CleanupDone, Typed
<1>2. ASSUME ~cleaner[a].missed, NEW x \in DOMAIN present PROVE x.prefix # Prefix[a]
  <2>1. x.role \in Roles
    BY Zenon DEF Typed, NameSet
  <2>2. x.prefix = Prefix[a] => /\ x.role \notin Stages[1] /\ x.role \notin Stages[2]
                                /\ x.role \notin Stages[3] /\ x.role \notin Stages[4]
    BY <1>1, <1>2 DEF CleanInv, CleanAt
  <2> QED BY <2>1, <2>2, StagesAre, Zenon DEF Roles
<1>3. ~(cleaner'[a].stage > 0)
  BY <1>1 DEF NoCleanup
<1>4. clean'[a] => \A x \in DOMAIN present' : x.prefix # Prefix[a]
  <2>1. CASE cleaner[a].missed
    BY <1>1, <2>1, Zenon
  <2>2. CASE ~cleaner[a].missed
    BY <1>1, <1>2, <2>2, Zenon
  <2> QED BY <2>1, <2>2, Zenon
<1> QED BY <1>3, <1>4, Zenon DEF CleanAt

LEMMA CleanStep ==
    ASSUME Typed, RunInv, CleanInv, VerifyApart, [Next]_vars
    PROVE  CleanInv'
<1>a. Changed \/ VerifyGrown
  BY Changes, Zenon
<1>b. ASSUME cleaner' = cleaner, \A b \in Agents : clean'[b] => clean[b] PROVE CleanInv'
  BY <1>a, <1>b, CleanKept, Zenon DEF CleanInv
<1>c. ASSUME NEW a \in Agents, CleanAt(a)', \A b \in Agents : b # a => cleaner'[b] = cleaner[b] /\ clean'[b] = clean[b]
      PROVE  CleanInv'
  BY <1>a, <1>c, CleanKept, Zenon DEF CleanInv
<1>1. CASE UNCHANGED vars
  BY <1>1, <1>b, Zenon DEF vars
<1>2. ASSUME NEW a \in Agents, AgentNext(a) PROVE CleanInv'
  <2>1. CASE \E c \in scenario.configs[a] : StartRun(a, c)
    <3>1. cleaner' = cleaner /\ \A b \in Agents : clean'[b] => clean[b]
      BY <2>1, Zenon DEF StartRun, Typed
    <3> QED BY <1>b, <3>1, Zenon
  <2>2. CASE \/ StartConsumers(a) \/ OpenClient(a) \/ Launch(a) \/ Ready(a) \/ StopRun(a)
             \/ ShutdownWorkers(a) \/ RunStopped(a) \/ ProcessEnds(a) \/ EnsureResource(a) \/ StartFails(a)
    <3>1. cleaner' = cleaner /\ clean' = clean
      BY <2>2, Zenon DEF StartConsumers, OpenClient, Launch, Ready, StopRun, ShutdownWorkers, RunStopped,
                  ProcessEnds, EnsureResource, StartFails, history
    <3> QED BY <1>b, <3>1, Zenon
  <2>3. CASE CleanupStage(a)
    <3>1. \A b \in Agents : b # a => cleaner'[b] = cleaner[b] /\ clean'[b] = clean[b]
      BY <2>3, Zenon DEF CleanupStage, Typed
    <3> QED BY <1>c, <2>3, <3>1, CleanupStageClean, Zenon
  <2>4. CASE CleanupDelete(a)
    <3>1. \A b \in Agents : b # a => cleaner'[b] = cleaner[b] /\ clean'[b] = clean[b]
      BY <2>4, Zenon DEF CleanupDelete, history, Typed
    <3> QED BY <1>c, <2>4, <3>1, CleanupDeleteClean
  <2>5. CASE CleanupDone(a)
    <3>1. \A b \in Agents : b # a => cleaner'[b] = cleaner[b] /\ clean'[b] = clean[b]
      BY <2>5, Zenon DEF CleanupDone, Typed
    <3> QED BY <1>c, <2>5, <3>1, CleanupDoneClean
  <2> QED BY <1>2, <2>1, <2>2, <2>3, <2>4, <2>5, Zenon DEF AgentNext
<1>3. ASSUME NEW w \in workers, ProvisionProbe(w) \/ SeekRound(w) \/ StopConsumers(w) PROVE CleanInv'
  BY <1>3, <1>b, Zenon DEF ProvisionProbe, SeekRound, StopConsumers, history
<1>4. ASSUME VerifyProvision \/ VerifyCleanup PROVE CleanInv'
  BY <1>4, <1>b, Zenon DEF VerifyProvision, VerifyCleanup, history
<1> QED BY <1>1, <1>2, <1>3, <1>4, Zenon DEF Next

(***************************************************************************)
(* One cmd/cleanup none of whose calls was lost leaves nothing of the      *)
(* agent, whatever its runs, and the tools and agents beside it, have done *)
(* (the deletion order of cmd/cleanup/main.go).                            *)
(***************************************************************************)
THEOREM CleanupLeavesNothing == VerifyApart => (Spec => []CleanupComplete)
<1> SUFFICES ASSUME VerifyApart PROVE Spec => []CleanupComplete
  BY Zenon
<1>1. Init => CleanInv
  <2>1. Init => DOMAIN present = {}
    BY DEF Init
  <2> QED BY <2>1, Zenon DEF CleanInv, CleanAt
<1>2. Typed /\ RunInv /\ CleanInv /\ [Next]_vars => CleanInv'
  BY CleanStep, Zenon
<1>3. CleanInv => CleanupComplete
  BY Zenon DEF CleanInv, CleanAt, CleanupComplete
<1> QED BY <1>1, <1>2, <1>3, RunsConsistent, PTL DEF Spec

-----------------------------------------------------------------------------
(* cmd/verify.                                                             *)

LEMMA VerifyPlanIs ==
    ASSUME Typed
    PROVE  /\ Len(VerifyPlan) = 2 * Len(scenario.checks) /\ Len(scenario.checks) \in Nat
           /\ \A i \in 1 .. Len(VerifyPlan) :
                 /\ VerifyPlan[i].kind = scenario.checks[(i + 1) \div 2]
                 /\ VerifyPlan[i].role = IF i % 2 = 1 THEN "topic" ELSE "sub"
                 /\ (i + 1) \div 2 \in 1 .. Len(scenario.checks)
           /\ \A i, j \in 1 .. Len(scenario.checks) :
                 scenario.checks[i] = scenario.checks[j] => i = j
<1>1. scenario.checks \in Seq({"rt", "interop"}) /\ IsInjective(scenario.checks)
  BY ResourcesAssumption, Zenon DEF Typed
<1>2. Len(scenario.checks) \in Nat
  BY <1>1
<1>3. \A i, j \in 1 .. Len(scenario.checks) : scenario.checks[i] = scenario.checks[j] => i = j
  BY <1>1 DEF IsInjective
<1>4. Len(VerifyPlan) = 2 * Len(scenario.checks)
  BY <1>2 DEF VerifyPlan
<1>5. ASSUME NEW i \in 1 .. Len(VerifyPlan)
      PROVE  /\ VerifyPlan[i].kind = scenario.checks[(i + 1) \div 2]
             /\ VerifyPlan[i].role = IF i % 2 = 1 THEN "topic" ELSE "sub"
             /\ (i + 1) \div 2 \in 1 .. Len(scenario.checks)
  <2>1. i \in 1 .. 2 * Len(scenario.checks)
    BY <1>4, Zenon
  <2>2. VerifyPlan[i].kind = scenario.checks[(i + 1) \div 2]
    BY <2>1, Zenon DEF VerifyPlan
  <2>3. VerifyPlan[i].role = IF i % 2 = 1 THEN "topic" ELSE "sub"
    BY <2>1, Zenon DEF VerifyPlan
  <2>4. (i + 1) \div 2 \in 1 .. Len(scenario.checks)
    BY <1>2, <2>1
  <2> QED BY <2>2, <2>3, <2>4, Zenon
<1> QED BY <1>2, <1>3, <1>4, <1>5, Zenon

(* Agents create no names of cmd/verify. *)
LEMMA VerifyKept ==
    ASSUME Typed, VerifyApart, VerifyInv, Changed, verifier' = verifier, scenario' = scenario
    PROVE  VerifyInv'
<1>1. \A x \in DOMAIN present' : x.prefix = <<"verify">> => x \in DOMAIN present
  <2>1. CASE Grown
    <3>1. PICK a \in Agents, k \in WorkerTypes, r \in Roles :
            present' = With(Name(a, k, r), AskedFor(k, r, engine[a].cfg))
      BY <2>1, Zenon DEF Grown
    <3>2. DOMAIN present' = DOMAIN present \cup {Name(a, k, r)}
      BY <3>1, WithEffect, Zenon
    <3>3. Name(a, k, r).prefix = Prefix[a] /\ Prefix[a] # <<"verify">>
      BY NamePrefix, Zenon DEF VerifyApart
    <3>4. Name(a, k, r).prefix # <<"verify">>
      BY <3>3, Zenon, Zenon
    <3> QED BY <3>2, <3>4, Zenon
  <2>2. CASE Shrunk
    BY <2>2, WithoutEffect, Zenon DEF Shrunk
  <2>3. CASE present' = present
    BY <2>3, Zenon
  <2> QED BY <2>1, <2>2, <2>3, Zenon DEF Changed
<1>2. VerifyPlan' = VerifyPlan
  BY Zenon DEF VerifyPlan
<1> QED BY <1>1, <1>2, Zenon DEF VerifyInv

LEMMA VerifyProvisionStep ==
    ASSUME Typed, VerifyInv, VerifyProvision, UNCHANGED scenario
    PROVE  VerifyInv'
<1> DEFINE id == Head(verifier.todo)
           n == Len(verifier.registered)
<1>a. verifier \in Verifier /\ verifier.todo \in Seq(VerifyNames) /\ verifier.registered \in Seq(VerifyNames)
  BY Zenon DEF Typed, Verifier
<1>b. VerifyPlan' = VerifyPlan
  BY Zenon DEF VerifyPlan
<1>1. CASE verifier' = [verifier EXCEPT !.missed = TRUE, !.todo = LaterChecks(id)]
  <2>1. verifier'.missed
    BY <1>1, <1>a, Zenon DEF Verifier
  <2> QED BY <2>1, Zenon DEF VerifyInv
<1>2. CASE Ensure(id, 1) /\ verifier' = [verifier EXCEPT !.todo = Tail(@), !.registered = Append(@, id)]
  <2>1. /\ verifier'.missed = verifier.missed /\ verifier'.todo = Tail(verifier.todo)
        /\ verifier'.registered = Append(verifier.registered, id)
    BY <1>2, <1>a, Zenon DEF Verifier
  <2> SUFFICES ASSUME ~verifier.missed
               PROVE  /\ n + 1 <= Len(VerifyPlan)
                      /\ \A i \in 1 .. n + 1 : Append(verifier.registered, id)[i] = VerifyPlan[i]
                      /\ Tail(verifier.todo) # <<>> =>
                            /\ Len(Tail(verifier.todo)) + (n + 1) = Len(VerifyPlan)
                            /\ \A i \in 1 .. Len(Tail(verifier.todo)) :
                                  Tail(verifier.todo)[i] = VerifyPlan[(n + 1) + i]
                      /\ \A x \in DOMAIN present' :
                            x.prefix = <<"verify">> => \E i \in 1 .. n + 1 : x = VerifyPlan[i]
    <3>1. Len(Append(verifier.registered, id)) = n + 1
      BY <1>a
    <3>2. Len(verifier'.registered) = n + 1
      BY <2>1, <3>1, Zenon
    <3> HIDE DEF n, id
    <3> QED BY <1>b, <2>1, <3>2 DEF VerifyInv
  <2>2. verifier.todo # <<>>
    BY Zenon DEF VerifyProvision
  <2>3. /\ n <= Len(VerifyPlan)
        /\ \A i \in 1 .. n : verifier.registered[i] = VerifyPlan[i]
        /\ Len(verifier.todo) + n = Len(VerifyPlan)
        /\ \A i \in 1 .. Len(verifier.todo) : verifier.todo[i] = VerifyPlan[n + i]
        /\ \A x \in DOMAIN present : x.prefix = <<"verify">> => \E i \in 1 .. n : x = VerifyPlan[i]
    BY <2>2, Zenon DEF VerifyInv
  <2>4. /\ n \in Nat /\ Len(verifier.todo) \in Nat \ {0} /\ Len(VerifyPlan) \in Nat
        /\ Len(Tail(verifier.todo)) = Len(verifier.todo) - 1 /\ id = verifier.todo[1]
        /\ \A i \in 1 .. Len(verifier.todo) - 1 : Tail(verifier.todo)[i] = verifier.todo[i + 1]
        /\ Append(verifier.registered, id)[n + 1] = id
        /\ \A i \in 1 .. n : Append(verifier.registered, id)[i] = verifier.registered[i]
    <3>1. Len(VerifyPlan) \in Nat
      BY VerifyPlanIs
    <3> QED BY <1>a, <2>2, <3>1
  <2>5. id = VerifyPlan[n + 1]
    <3> HIDE DEF id, n
    <3>1. 1 \in 1 .. Len(verifier.todo)
      BY <2>4
    <3>2. verifier.todo[1] = VerifyPlan[n + 1]
      BY <2>3, <3>1, Zenon
    <3> QED BY <2>4, <3>2, Zenon
  <2>6. DOMAIN present' \subseteq DOMAIN present \cup {id}
    BY <1>2, WithEffect, Zenon DEF Ensure
  <2> HIDE DEF id, n
  <2>7. n + 1 <= Len(VerifyPlan)
    BY <2>3, <2>4
  <2> DEFINE new == Append(verifier.registered, id)
  <2>a. new[n + 1] = VerifyPlan[n + 1] /\ \A i \in 1 .. n : new[i] = VerifyPlan[i]
    BY <2>3, <2>4, <2>5, Zenon
  <2>8. \A i \in 1 .. n + 1 : Append(verifier.registered, id)[i] = VerifyPlan[i]
    <3> HIDE DEF new
    <3>1. \A i \in 1 .. n + 1 : i \in 1 .. n \/ i = n + 1
      BY <2>4
    <3>2. \A i \in 1 .. n + 1 : new[i] = VerifyPlan[i]
      BY <2>a, <3>1, Zenon
    <3> QED BY <3>2, Zenon DEF new
  <2>9. /\ Len(Tail(verifier.todo)) + (n + 1) = Len(VerifyPlan)
        /\ \A i \in 1 .. Len(Tail(verifier.todo)) : Tail(verifier.todo)[i] = VerifyPlan[(n + 1) + i]
    <3>1. ASSUME NEW i \in 1 .. Len(verifier.todo) - 1
          PROVE  Tail(verifier.todo)[i] = VerifyPlan[(n + 1) + i]
      <4>1. i + 1 \in 1 .. Len(verifier.todo) /\ n + (i + 1) = (n + 1) + i
        BY <2>4
      <4> QED BY <2>3, <2>4, <4>1, Zenon
    <3>2. Len(verifier.todo) + n = Len(VerifyPlan)
      BY <2>3, Zenon
    <3>3. Len(Tail(verifier.todo)) = Len(verifier.todo) - 1 /\ n \in Nat /\ Len(verifier.todo) \in Nat
      BY <2>4, Zenon
    <3>4. Len(Tail(verifier.todo)) + (n + 1) = Len(VerifyPlan)
      <4> DEFINE t == Len(verifier.todo)
                 r == Len(Tail(verifier.todo))
                 l == Len(VerifyPlan)
      <4>1. t + n = l /\ r = t - 1 /\ n \in Nat /\ t \in Nat
        BY <3>2, <3>3, Zenon
      <4> HIDE DEF t, r, l
      <4>2. r + (n + 1) = l
        BY <4>1
      <4> QED BY <4>2, Zenon DEF r, l
    <3> QED BY <3>1, <3>3, <3>4, Zenon
  <2>10. \A x \in DOMAIN present' : x.prefix = <<"verify">> => \E i \in 1 .. n + 1 : x = VerifyPlan[i]
    <3> SUFFICES ASSUME NEW x \in DOMAIN present', x.prefix = <<"verify">>
                 PROVE  \E i \in 1 .. n + 1 : x = VerifyPlan[i]
      BY Zenon
    <3>1. CASE x = id
      <4>1. n + 1 \in 1 .. n + 1
        BY <2>4
      <4> QED BY <2>5, <3>1, <4>1, Zenon
    <3>2. CASE x \in DOMAIN present
      <4>1. PICK i \in 1 .. n : x = VerifyPlan[i]
        BY <2>3, <3>2, Zenon
      <4>2. i \in 1 .. n + 1
        BY <2>4
      <4> QED BY <4>1, <4>2, Zenon
    <3> QED BY <2>6, <3>1, <3>2, Zenon
  <2> QED BY <2>7, <2>8, <2>9, <2>10, Zenon
<1> QED BY <1>1, <1>2, Zenon DEF VerifyProvision

(* A topic that comes last in what is registered has no subscription left. *)
LEMMA VerifyCleanupStep ==
    ASSUME Typed, VerifyInv, VerifyCleanup, UNCHANGED scenario
    PROVE  VerifyInv'
<1> DEFINE id == NextRegistered
           reg == verifier.registered
           n == Len(reg)
<1>a. verifier \in Verifier /\ reg \in Seq(VerifyNames) /\ reg # <<>> /\ verifier.todo = <<>>
  BY Zenon DEF Typed, Verifier, VerifyCleanup
<1>b. VerifyPlan' = VerifyPlan
  BY DEF VerifyPlan
<1>1. CASE verifier' = [verifier EXCEPT !.registered = Front(@), !.missed = TRUE]
  <2>1. verifier'.missed
    BY <1>1, <1>a, Zenon DEF Verifier
  <2> QED BY <2>1 DEF VerifyInv
<1>2. CASE /\ present' = IF Deletable(id) THEN Without({id}) ELSE present
           /\ verifier' = [verifier EXCEPT !.registered = Front(@)]
  <2>1. /\ verifier'.missed = verifier.missed /\ verifier'.todo = <<>>
        /\ verifier'.registered = Front(reg)
    BY <1>2, <1>a, Zenon DEF Verifier
  <2>2. /\ n \in Nat \ {0} /\ Len(Front(reg)) = n - 1 /\ id = reg[n]
        /\ \A i \in 1 .. n - 1 : Front(reg)[i] = reg[i]
    BY <1>a DEF Front, NextRegistered
  <2> SUFFICES ASSUME ~verifier.missed
               PROVE  /\ n - 1 <= Len(VerifyPlan)
                      /\ \A i \in 1 .. n - 1 : Front(reg)[i] = VerifyPlan[i]
                      /\ \A x \in DOMAIN present' :
                            x.prefix = <<"verify">> => \E i \in 1 .. n - 1 : x = VerifyPlan[i]
    BY <1>b, <2>1, <2>2 DEF VerifyInv
  <2>3. /\ n <= Len(VerifyPlan)
        /\ \A i \in 1 .. n : reg[i] = VerifyPlan[i]
        /\ \A x \in DOMAIN present : x.prefix = <<"verify">> => \E i \in 1 .. n : x = VerifyPlan[i]
    BY Zenon DEF VerifyInv
  <2>4. /\ Len(VerifyPlan) = 2 * Len(scenario.checks) /\ Len(scenario.checks) \in Nat
        /\ \A i \in 1 .. Len(VerifyPlan) :
              /\ VerifyPlan[i].kind = scenario.checks[(i + 1) \div 2]
              /\ VerifyPlan[i].role = IF i % 2 = 1 THEN "topic" ELSE "sub"
              /\ (i + 1) \div 2 \in 1 .. Len(scenario.checks)
        /\ \A i, j \in 1 .. Len(scenario.checks) : scenario.checks[i] = scenario.checks[j] => i = j
    BY VerifyPlanIs, Zenon
  <2>5. id = VerifyPlan[n] /\ id.prefix = <<"verify">>
    BY <1>a, <2>2, <2>3 DEF VerifyNames
  <2> HIDE DEF id, n, reg
  <2>6. Deletable(id)
    <3> SUFFICES ASSUME ~Deletable(id) PROVE FALSE
      BY Zenon
    <3>1. id.role \in TopicRoles
      BY Zenon DEF Deletable
    <3>2. PICK y \in DOMAIN present : /\ y.prefix = id.prefix /\ y.kind = id.kind
                                      /\ y.role \in SubRoles \cup {"snap"}
      BY Zenon DEF Deletable, Dependents
    <3>3. PICK j \in 1 .. n : y = VerifyPlan[j]
      BY <2>3, <2>5, <3>2, Zenon
    <3>4. n \in 1 .. Len(VerifyPlan) /\ j \in 1 .. Len(VerifyPlan)
      BY <2>2, <2>3, <2>4, <3>3
    <3>5. id.role # "sub" /\ y.role # "topic"
      BY <3>1, <3>2, Zenon DEF TopicRoles, SubRoles
    <3>6. n % 2 = 1 /\ j % 2 # 1
      BY <2>4, <2>5, <3>3, <3>4, <3>5, Zenon
    <3>7. (n + 1) \div 2 = (j + 1) \div 2
      BY <2>4, <2>5, <3>2, <3>3, <3>4
    <3> QED BY <2>2, <3>3, <3>6, <3>7
  <2>7. DOMAIN present' = DOMAIN present \ {id}
    BY <1>2, <2>6, WithoutEffect, Zenon
  <2>8. \A x \in DOMAIN present' : x.prefix = <<"verify">> => \E i \in 1 .. n - 1 : x = VerifyPlan[i]
    <3> SUFFICES ASSUME NEW x \in DOMAIN present, x # id, x.prefix = <<"verify">>
                 PROVE  \E i \in 1 .. n - 1 : x = VerifyPlan[i]
      BY <2>7, Zenon
    <3>1. PICK i \in 1 .. n : x = VerifyPlan[i]
      BY <2>3, Zenon
    <3>2. i # n
      BY <2>5, <3>1, Zenon
    <3>3. i \in 1 .. n - 1
      BY <2>2, <3>1, <3>2
    <3> QED BY <3>1, <3>3, Zenon
  <2> QED BY <2>2, <2>3, <2>4, <2>8
<1> QED BY <1>1, <1>2, Zenon DEF VerifyCleanup

(***************************************************************************)
(* cmd/verify leaves nothing when none of its calls failed: its teardown   *)
(* goes from the last resource to the first, so a topic goes after its     *)
(* subscription (harness.cleanup).                                         *)
(***************************************************************************)
THEOREM VerifyTearsDown == VerifyApart => (Spec => []VerifyLeavesNothing)
<1> SUFFICES ASSUME VerifyApart PROVE Spec => []VerifyLeavesNothing
  OBVIOUS
<1>1. Init => VerifyInv
  <2> SUFFICES ASSUME Init PROVE VerifyInv
    BY Zenon
  <2>1. /\ verifier.registered = <<>> /\ verifier.todo = VerifyPlan /\ DOMAIN present = {}
    BY DEF Init
  <2>2. Len(VerifyPlan) \in Nat
    BY InitRun, VerifyPlanIs
  <2>3. Len(verifier.registered) = 0
    BY <2>1
  <2> QED BY <2>1, <2>2, <2>3 DEF VerifyInv
<1>2. Typed /\ RunInv /\ VerifyInv /\ [Next]_vars => VerifyInv'
  <2> SUFFICES ASSUME Typed, RunInv, VerifyInv, [Next]_vars PROVE VerifyInv'
    BY Zenon
  <2>1. CASE UNCHANGED vars
    BY <2>1, VerifyKept, Zenon DEF vars, Changed
  <2>2. CASE Next
    BY <2>2, AgentChanges, WorkerChanges, VerifyKept, VerifyProvisionStep, VerifyCleanupStep, Zenon DEF Next
  <2> QED BY <2>1, <2>2, Zenon
<1>3. Typed /\ VerifyInv => VerifyLeavesNothing
  <2> SUFFICES ASSUME VerifyInv, verifier.registered = <<>>, ~verifier.missed,
                      NEW x \in DOMAIN present, x.prefix = <<"verify">>
               PROVE  FALSE
    BY Zenon DEF VerifyLeavesNothing
  <2>1. Len(verifier.registered) = 0
    OBVIOUS
  <2> QED BY <2>1 DEF VerifyInv
<1> QED BY <1>1, <1>2, <1>3, RunsConsistent, PTL DEF Spec

-----------------------------------------------------------------------------
(* What a run has provisioned.                                             *)

(***************************************************************************)
(* The teardown of another run, the tools and the other agents do not take *)
(* away what a starting or running run has, but for the snapshots of its   *)
(* own rounds.                                                             *)
(***************************************************************************)
LEMMA NamesKept ==
    ASSUME Typed, RunInv, VerifyApart, PrefixesApart, Next,
           NEW a \in Agents, engine[a].state \in {"starting", "up"},
           NEW k, NEW r, r # "snap", Name(a, k, r) \in DOMAIN present
    PROVE  Name(a, k, r) \in DOMAIN present'
<1> DEFINE x == Name(a, k, r)
<1>a. x.prefix = Prefix[a] /\ x.role = r
  BY NamePrefix
<1>b. x \in DOMAIN present
  BY Zenon
<1> HIDE DEF x
<1>c. ASSUME NEW ids, x \notin ids, present' = Without(ids) PROVE x \in DOMAIN present'
  BY <1>b, <1>c, WithoutEffect, Zenon
<1>d. ASSUME NEW id, NEW s, present' = With(id, s) PROVE x \in DOMAIN present'
  BY <1>b, <1>d, WithEffect, Zenon
<1>1. ASSUME NEW b \in Agents, AgentNext(b) PROVE x \in DOMAIN present'
  <2>1. CASE CleanupDelete(b)
    <3>1. PICK id \in cleaner[b].todo : present' = Without({id}) \/ present' = present
      BY <2>1, CleanupDeleteEffect, Zenon
    <3>2. engine[b].state = "idle"
      BY <2>1, CleanupDeleteEffect, Zenon
    <3>3. HasPrefix(id.prefix, Prefix[b]) /\ b # a
      BY <3>1, <3>2, Zenon DEF RunInv, AgentInv
    <3>4. id # x
      BY <1>a, <3>3, Zenon DEF PrefixesApart
    <3> QED BY <1>b, <1>c, <3>1, <3>4, Zenon
  <2>2. CASE EnsureResource(b) \/ StartFails(b)
    BY <2>2, <1>b, <1>d, Zenon DEF EnsureResource, StartFails, Ensure
  <2>3. CASE \/ \E c \in scenario.configs[b] : StartRun(b, c)
             \/ StartConsumers(b) \/ OpenClient(b) \/ Launch(b) \/ Ready(b) \/ StopRun(b)
             \/ ShutdownWorkers(b) \/ RunStopped(b) \/ ProcessEnds(b)
             \/ CleanupStage(b) \/ CleanupDone(b)
    <3>1. present' = present
      BY <2>3, Zenon DEF StartRun, StartConsumers, OpenClient, Launch, Ready, StopRun, ShutdownWorkers,
                  RunStopped, ProcessEnds, CleanupStage, CleanupDone
    <3> QED BY <1>b, <3>1, Zenon
  <2> QED BY <1>1, <2>1, <2>2, <2>3, Zenon DEF AgentNext
<1>2. ASSUME NEW w \in workers, StopConsumers(w) PROVE x \in DOMAIN present'
  <2>1. w.agent \in Agents /\ w.agent # a
    BY <1>2, Zenon DEF StopConsumers, Typed, Worker
  <2>2. Prefix[w.agent] # Prefix[a]
    BY <2>1, ResourcesAssumption, Zenon
  <2>3. \A y \in Deletes(w) : y.prefix = Prefix[w.agent]
    BY NamePrefix DEF Deletes
  <2>4. x \notin Deletes(w)
    BY <1>a, <2>2, <2>3, Zenon
  <2>5. present' = Without(Deletes(w)) \/ present' = present
    BY <1>2, Zenon DEF StopConsumers
  <2> QED BY <1>b, <1>c, <2>4, <2>5, Zenon
<1>3. ASSUME NEW w \in workers, ProvisionProbe(w) \/ SeekRound(w) PROVE x \in DOMAIN present'
  <2>1. Name(w.agent, w.kind, "snap") # x
    BY <1>a, NamePrefix
  <2>2. CASE ProvisionProbe(w)
    BY <2>2, <1>b, <1>d, Zenon DEF ProvisionProbe, Ensure
  <2>3. CASE SeekRound(w)
    BY <2>1, <2>3, <1>c, <1>d, Zenon DEF SeekRound
  <2> QED BY <1>3, <2>2, <2>3, Zenon
<1>4. ASSUME VerifyProvision PROVE x \in DOMAIN present'
  BY <1>4, <1>b, <1>d, Zenon DEF VerifyProvision, Ensure
<1>5. ASSUME VerifyCleanup PROVE x \in DOMAIN present'
  <2>1. NextRegistered \in VerifyNames
    BY <1>5 DEF VerifyCleanup, NextRegistered, Typed, Verifier
  <2>2. NextRegistered # x
    BY <1>a, <2>1, Zenon DEF VerifyNames, VerifyApart
  <2>3. present' = Without({NextRegistered}) \/ present' = present
    BY <1>5, Zenon DEF VerifyCleanup
  <2> QED BY <1>b, <1>c, <2>2, <2>3, Zenon
<1>6. x \in DOMAIN present'
  BY <1>1, <1>2, <1>3, <1>4, <1>5, Zenon DEF Next
<1> QED BY <1>6, Zenon DEF x

(* A worker of a run that goes on keeps what it had, and gets what has been ensured. *)
LEMMA ProvidedKept ==
    ASSUME Typed, RunInv, VerifyApart, PrefixesApart, ProvidedInv, Next,
           NEW w \in workers, NEW v, Alike(v, w), w.run = engine[w.agent].run,
           engine[w.agent].state \in {"starting", "up"},
           \A i \in 1 .. Len(Plan(w.kind)) :
               Plan(w.kind)[i] \in Roles /\ Passed(v, i)'
               => Passed(w, i) \/ Name(w.agent, w.kind, Plan(w.kind)[i]) \in DOMAIN present'
    PROVE  Provided(v)'
<1>1. v.agent = w.agent /\ v.run = w.run /\ v.kind = w.kind /\ w.agent \in Agents /\ w.kind \in WorkerTypes
  BY Zenon DEF Alike, Typed, Worker
<1>2. ASSUME NEW i \in 1 .. Len(Plan(w.kind)), Plan(w.kind)[i] \in Roles, Passed(v, i)'
      PROVE  Name(w.agent, w.kind, Plan(w.kind)[i]) \in DOMAIN present'
  <2>1. CASE Passed(w, i)
    <3>1. Name(w.agent, w.kind, Plan(w.kind)[i]) \in DOMAIN present
      BY <1>2, <2>1, Zenon DEF ProvidedInv, Provided
    <3>2. Plan(w.kind)[i] # "snap"
      BY <1>1, PlansOrdered, Zenon DEF WellPlanned
    <3> QED BY <1>1, <3>1, <3>2, NamesKept, Zenon
  <2> QED BY <1>2, <2>1, Zenon
<1> QED BY <1>1, <1>2, Zenon DEF Provided

(* What the step at the head of the plan needs has been ensured before it. *)
LEMMA EnsureTolerated ==
    ASSUME Typed, RunInv, ProvidedInv, NEW a \in Agents, engine[a].plan # <<>>,
           Head(engine[a].plan) \in Roles
    PROVE  Tolerated(Answer(Name(a, engine[a].kind, Head(engine[a].plan))))
<1> DEFINE k == engine[a].kind
           step == Head(engine[a].plan)
           id == Name(a, k, step)
<1>1. /\ k \in WorkerTypes /\ At(a) \in 1 .. Len(Plan(k)) /\ step = Plan(k)[At(a)]
      /\ Len(Plan(k)) \in Nat /\ Len(engine[a].plan) \in Nat
  BY HeadOfPlan
<1>2. PICK w \in workers : w.agent = a /\ w.run = engine[a].run /\ w.kind = k
  BY CurrentIs, Zenon
<1>3. engine[a].state = "starting"
  BY Zenon DEF RunInv, AgentInv
<1>4. ASSUME NEW j \in 1 .. At(a) - 1, Plan(k)[j] \in Roles PROVE Name(a, k, Plan(k)[j]) \in DOMAIN present
  <2> DEFINE n == Len(Plan(k))
             m == Len(engine[a].plan)
  <2>a. At(a) = n - m + 1 /\ n \in Nat /\ m \in Nat /\ At(a) \in 1 .. n
    BY <1>1, Zenon DEF At
  <2>b. n \in Nat /\ m \in Nat /\ n - m + 1 \in 1 .. n /\ j \in 1 .. n - m
    <3> HIDE DEF n, m
    <3> QED BY <2>a
  <2>1. j \in 1 .. n /\ j <= n - m
    <3> HIDE DEF n, m
    <3> QED BY <2>b
  <2>2. Provided(w)
    BY <1>2, Zenon DEF ProvidedInv
  <2> QED BY <1>2, <1>3, <1>4, <2>1, <2>2, Zenon DEF Provided, Passed
<1>5. WellPlanned(k)
  BY <1>1, PlansOrdered, Zenon
<1>a. id.role = step /\ id.kind = k /\ \A r : [id EXCEPT !.role = r] = Name(a, k, r)
  BY DEF Name
<1> HIDE DEF k, step, id
<1>6. ASSUME step \in SubRoles PROVE Name(a, k, TopicOf(step)) \in DOMAIN present
  <2>1. PICK j \in 1 .. At(a) - 1 : Plan(k)[j] = TopicOf(step)
    BY <1>1, <1>5, <1>6, Zenon DEF WellPlanned
  <2>2. TopicOf(step) \in Roles
    BY Zenon DEF TopicOf, Roles, TopicRoles
  <2> QED BY <1>4, <2>1, <2>2, Zenon
<1>7. ASSUME k = "schema_enforce", step = "topic" PROVE Name(a, k, "schema") \in DOMAIN present
  <2>1. PICK j \in 1 .. At(a) - 1 : Plan(k)[j] = "schema"
    BY <1>1, <1>5, <1>7, Zenon DEF WellPlanned
  <2>2. "schema" \in Roles
    BY Zenon DEF Roles
  <2> QED BY <1>4, <2>1, <2>2, Zenon
<1>8. Needs(id) \subseteq DOMAIN present
  BY <1>6, <1>7, <1>a, Zenon DEF Needs
<1>9. Tolerated(Answer(id))
  BY <1>8, Zenon DEF Tolerated, Answer
<1> QED BY <1>9, Zenon DEF id, k, step

(* A step that leaves the plan of the run alone, and does not start a run, keeps it provided. *)
LEMMA ProvidedSteady ==
    ASSUME Typed, RunInv, VerifyApart, PrefixesApart, ProvidedInv, Next,
           NEW w \in workers, NEW v, Alike(v, w),
           engine'[w.agent].plan = engine[w.agent].plan, engine'[w.agent].kind = engine[w.agent].kind,
           engine'[w.agent].run = engine[w.agent].run,
           engine'[w.agent].state \in {"starting", "up"} => engine[w.agent].state \in {"starting", "up"}
    PROVE  Provided(v)'
<1>1. v.agent = w.agent /\ v.run = w.run /\ v.kind = w.kind
  BY Zenon DEF Alike
<1>2. CASE w.run = engine[w.agent].run /\ engine'[w.agent].state \in {"starting", "up"}
  <2>1. \A i : Passed(v, i)' => Passed(w, i)
    BY <1>1, Zenon DEF Passed
  <2> QED BY <1>2, <2>1, ProvidedKept, Zenon
<1>3. CASE ~(w.run = engine[w.agent].run /\ engine'[w.agent].state \in {"starting", "up"})
  BY <1>1, <1>3, Zenon DEF Provided
<1> QED BY <1>2, <1>3, Zenon

(* When the Start goes one step on, the step that is newly done is the one at the head. *)
LEMMA PassedNext ==
    ASSUME Typed, RunInv, NEW a \in Agents, engine[a].plan # <<>>, Proceed(a),
           NEW w \in workers, NEW v, Alike(v, w), w.agent = a,
           NEW i \in 1 .. Len(Plan(w.kind)), Passed(v, i)'
    PROVE  Passed(w, i) \/ (w.kind = engine[a].kind /\ Plan(w.kind)[i] = Head(engine[a].plan))
<1>1. v.agent = a /\ v.kind = w.kind
  BY Zenon DEF Alike
<1>2. engine'[a].kind = engine[a].kind /\ engine'[a].plan = Tail(engine[a].plan)
  BY ProceedEffect, Zenon
<1>3. CASE w.kind # engine[a].kind
  BY <1>3, Zenon DEF Passed
<1>4. CASE w.kind = engine[a].kind
  <2> DEFINE n == Len(Plan(w.kind))
             m == Len(engine[a].plan)
             t == Len(Tail(engine[a].plan))
  <2>1. /\ At(a) \in 1 .. n /\ At(a) = n - m + 1 /\ m \in Nat \ {0} /\ t = m - 1
        /\ Head(engine[a].plan) = Plan(w.kind)[At(a)]
    BY <1>4, HeadOfPlan, Zenon DEF At
  <2>2. n \in Nat
    BY <1>4, HeadOfPlan
  <2>3. engine'[a].plan = <<>> \/ i <= n - t
    BY <1>1, <1>2, <1>4, Zenon DEF Passed
  <2>a. \A q : q = <<>> => Len(q) = 0
    OBVIOUS
  <2>4. engine'[a].plan = <<>> => t = 0
    BY <1>2, <2>a, Zenon, Zenon
  <2>5. i \in 1 .. n
    BY Zenon
  <2>6. i <= n - m \/ i = At(a)
    <3> HIDE DEF n, m, t
    <3> QED BY <2>1, <2>2, <2>3, <2>4, <2>5
  <2>7. CASE i <= n - m
    BY <2>7, Zenon DEF Passed
  <2> QED BY <1>4, <2>1, <2>6, <2>7, Zenon
<1> QED BY <1>3, <1>4, Zenon

(* A Start that goes one step on has ensured the resource of the step, if it has one. *)
LEMMA ProvidedProceed ==
    ASSUME Typed, RunInv, VerifyApart, PrefixesApart, ProvidedInv, Next,
           NEW a \in Agents, engine[a].plan # <<>>, Proceed(a),
           Head(engine[a].plan) \in Roles
               => Name(a, engine[a].kind, Head(engine[a].plan)) \in DOMAIN present',
           NEW w \in workers, NEW v, Alike(v, w)
    PROVE  Provided(v)'
<1>0. w.agent \in Agents
  BY Zenon DEF Typed, Worker
<1>1. CASE w.agent # a
  BY <1>0, <1>1, ProceedEffect, ProvidedSteady, Zenon
<1>2. CASE w.agent = a /\ w.run = engine[a].run
  <2>1. engine[a].state = "starting"
    BY Zenon DEF RunInv, AgentInv
  <2>2. ASSUME NEW i \in 1 .. Len(Plan(w.kind)), Plan(w.kind)[i] \in Roles, Passed(v, i)'
        PROVE  Passed(w, i) \/ Name(w.agent, w.kind, Plan(w.kind)[i]) \in DOMAIN present'
    BY <1>2, <2>2, PassedNext, Zenon
  <2> QED BY <1>2, <2>1, <2>2, ProvidedKept, Zenon
<1>3. CASE w.agent = a /\ w.run # engine[a].run
  BY <1>3, ProceedEffect, Zenon DEF Alike, Provided
<1> QED BY <1>1, <1>2, <1>3, Zenon

(* The worker whose Start is called has nothing yet, the earlier ones of the run have it all. *)
LEMMA ProvidedStartConsumers ==
    ASSUME Typed, RunInv, VerifyApart, PrefixesApart, ProvidedInv, Next,
           NEW a \in Agents, StartConsumers(a)
    PROVE  ProvidedInv'
<1>0. PICK k, n : /\ k = Head(engine[a].queue)
                  /\ n = [agent |-> a, run |-> engine[a].run, kind |-> k,
                          handles |-> {}, receiving |-> {}, stopped |-> FALSE]
  BY Zenon
<1>1. workers' = workers \cup {n} /\ engine[a].plan = <<>> /\ engine[a].state = "starting"
  BY <1>0, Zenon DEF StartConsumers
<1>2. /\ \A b \in Agents : b # a => engine'[b] = engine[b]
      /\ engine'[a].run = engine[a].run /\ engine'[a].state = engine[a].state
      /\ engine'[a].kind = k /\ engine'[a].plan = Plan(k)
  BY <1>0 DEF StartConsumers, Typed, EngineRecord
<1>3. n.agent = a /\ n.run = engine[a].run /\ n.kind = k
  BY <1>0, Zenon
<1>a. \A w \in workers : w.agent \in Agents
  BY Zenon DEF Typed, Worker
<1>4. Provided(n)'
  <2>1. \A i \in 1 .. Len(Plan(k)) : ~Passed(n, i)'
    <3> SUFFICES ASSUME NEW i \in 1 .. Len(Plan(k)) PROVE ~Passed(n, i)'
      BY Zenon
    <3>1. k \in WorkerTypes
      BY <1>0 DEF StartConsumers, Typed, EngineRecord
    <3>2. Plan(k) \in Seq(Steps)
      BY <3>1, PlansOrdered, Zenon DEF WellPlanned
    <3>3. Len(Plan(k)) \in Nat /\ Plan(k) # <<>>
      BY <3>2
    <3>4. ~(i <= Len(Plan(k)) - Len(Plan(k)))
      BY <3>3
    <3> QED BY <1>2, <1>3, <3>3, <3>4, Zenon DEF Passed
  <2> QED BY <1>3, <2>1, Zenon DEF Provided
<1>5. ASSUME NEW w \in workers PROVE Provided(w)'
  <2>0. Alike(w, w)
    BY Zenon DEF Alike
  <2>1. CASE w.agent # a
    BY <1>2, <1>a, <2>0, <2>1, ProvidedSteady, Zenon
  <2>2. CASE w.agent = a /\ w.run = engine[a].run
    <3>1. \A i : Passed(w, i)
      BY <1>1, <2>2, Zenon DEF Passed
    <3> QED BY <1>1, <2>0, <2>2, <3>1, ProvidedKept, Zenon
  <2>3. CASE w.agent = a /\ w.run # engine[a].run
    BY <1>2, <2>3, Zenon DEF Provided
  <2> QED BY <2>1, <2>2, <2>3, Zenon
<1> QED BY <1>1, <1>4, <1>5, Zenon DEF ProvidedInv

(* The steps that go on with a Start. *)
LEMMA ProvidedStart ==
    ASSUME Typed, RunInv, VerifyApart, PrefixesApart, ProvidedInv, Next, NEW a \in Agents,
           OpenClient(a) \/ Launch(a) \/ EnsureResource(a)
    PROVE  ProvidedInv'
<1>1. engine[a].plan # <<>>
  BY Zenon DEF OpenClient, Launch, EnsureResource
<1>2. \A v \in workers' : \E w \in workers : Alike(v, w)
  <2>1. CASE EnsureResource(a)
    BY <2>1, Zenon DEF EnsureResource, Alike
  <2>2. CASE OpenClient(a)
    <3>1. Current(a) \in workers /\ Current(a) \in Worker
      BY <1>1, CurrentIs, Zenon
    <3> QED BY <2>2, <3>1, Zenon DEF OpenClient, Updated, Alike, Worker
  <2>3. CASE Launch(a)
    <3>1. Current(a) \in workers /\ Current(a) \in Worker
      BY <1>1, CurrentIs
    <3> QED BY <2>3, <3>1, Zenon DEF Launch, Updated, Alike, Worker
  <2> QED BY <2>1, <2>2, <2>3, Zenon
<1>3. Proceed(a)
  BY EnsureTolerated, Zenon DEF OpenClient, Launch, EnsureResource
<1>4. Head(engine[a].plan) \in Roles
      => Name(a, engine[a].kind, Head(engine[a].plan)) \in DOMAIN present'
  <2>1. CASE EnsureResource(a)
    <3> DEFINE id == Name(a, engine[a].kind, Head(engine[a].plan))
    <3>1. Ensure(id, AskedFor(engine[a].kind, Head(engine[a].plan), engine[a].cfg))
      BY <2>1, EnsureTolerated, Zenon DEF EnsureResource
    <3> HIDE DEF id
    <3>2. id \in DOMAIN present'
      BY <3>1, WithEffect, Zenon DEF Ensure
    <3> QED BY <3>2, Zenon DEF id
  <2>2. CASE OpenClient(a)
    BY <2>2, Zenon DEF OpenClient, Roles, TopicRoles, SubRoles
  <2>3. CASE Launch(a)
    BY <2>3, Zenon DEF Launch, Roles, TopicRoles, SubRoles
  <2> QED BY <2>1, <2>2, <2>3, Zenon
<1> QED BY <1>1, <1>2, <1>3, <1>4, ProvidedProceed, Zenon DEF ProvidedInv

LEMMA ProvidedStartFails ==
    ASSUME Typed, RunInv, VerifyApart, PrefixesApart, ProvidedInv, Next, NEW a \in Agents, StartFails(a)
    PROVE  ProvidedInv'
<1>1. engine[a].plan # <<>> /\ workers' = workers
  BY Zenon DEF StartFails
<1>2. CASE Head(engine[a].plan) = "probeClient"
  <2>1. Proceed(a)
    BY <1>2, Zenon DEF StartFails
  <2>2. Head(engine[a].plan) \notin Roles
    BY <1>2, Zenon DEF Roles, TopicRoles, SubRoles
  <2>3. \A w \in workers : Alike(w, w)
    BY Zenon DEF Alike
  <2> QED BY <1>1, <2>1, <2>2, <2>3, ProvidedProceed, Zenon DEF ProvidedInv
<1>3. CASE Head(engine[a].plan) # "probeClient"
  <2>1. SetError(a)
    BY <1>3, Zenon DEF StartFails
  <2>2. engine[a].state = "starting" /\ engine[a].run > 0
    BY <1>1, Zenon DEF RunInv, AgentInv, Active
  <2>3. engine'[a].state = "error" /\ \A b \in Agents : b # a => engine'[b] = engine[b]
    BY <2>1, <2>2, SetErrorEffect, Zenon
  <2>4. ASSUME NEW w \in workers PROVE Provided(w)'
    <3>1. CASE w.agent = a
      BY <2>3, <3>1, Zenon DEF Provided
    <3>2. CASE w.agent # a
      BY <2>3, <3>2, ProvidedSteady, Zenon DEF Typed, Worker, Alike
    <3> QED BY <3>1, <3>2, Zenon
  <2> QED BY <1>1, <2>4, Zenon DEF ProvidedInv
<1> QED BY <1>2, <1>3, Zenon

LEMMA ProvidedStartRun ==
    ASSUME Typed, RunInv, VerifyApart, PrefixesApart, ProvidedInv, Next,
           NEW a \in Agents, NEW c \in scenario.configs[a], StartRun(a, c)
    PROVE  ProvidedInv'
<1>1. workers' = workers /\ \A b \in Agents : b # a => engine'[b] = engine[b]
  BY Zenon DEF StartRun, Typed
<1>2. engine'[a].run = engine[a].run + 1 /\ engine[a].run \in Nat
  BY Zenon DEF StartRun, Idle, Typed, EngineRecord
<1>3. ASSUME NEW w \in workers PROVE Provided(w)'
  <2>1. CASE w.agent = a
    <3>1. w.run \in Nat /\ w.run <= engine[a].run
      BY <2>1, Zenon DEF Typed, Worker, RunInv, WorkerInv
    <3>2. w.run # engine'[a].run
      BY <1>2, <3>1
    <3> QED BY <2>1, <3>2, Zenon DEF Provided
  <2>2. CASE w.agent # a
    BY <1>1, <2>2, ProvidedSteady, Zenon DEF Typed, Worker, Alike
  <2> QED BY <2>1, <2>2, Zenon
<1> QED BY <1>1, <1>3, Zenon DEF ProvidedInv

(* The steps of an agent that neither start a run nor go on with a Start. *)
LEMMA ProvidedAgent ==
    ASSUME Typed, RunInv, VerifyApart, PrefixesApart, ProvidedInv, Next, NEW a \in Agents,
           \/ Ready(a) \/ StopRun(a) \/ ShutdownWorkers(a) \/ RunStopped(a) \/ ProcessEnds(a)
           \/ CleanupStage(a) \/ CleanupDelete(a) \/ CleanupDone(a)
    PROVE  ProvidedInv'
<1>a. engine[a] \in EngineRecord /\ engine \in [Agents -> EngineRecord] /\ Distinct
  BY Zenon DEF Typed, RunInv
<1>1. \A v \in workers' : \E w \in workers : Alike(v, w)
  <2>0. \A w \in workers : Alike(w, w)
    BY Zenon DEF Alike
  <2>1. CASE Ready(a)
    BY <1>a, <2>0, <2>1, DrivingEffect DEF Ready, Rerouted, Alike
  <2>2. CASE StopRun(a)
    BY <1>a, <2>2, EndedEffect DEF StopRun, Rerouted, Alike
  <2>3. CASE ShutdownWorkers(a)
    BY <1>a, <2>3, DrivingEffect DEF ShutdownWorkers, Rerouted, Alike
  <2>4. CASE RunStopped(a)
    BY <2>0, <2>4, Zenon DEF RunStopped
  <2>5. CASE ProcessEnds(a)
    BY <2>0, <2>5, Zenon DEF ProcessEnds
  <2>6. CASE CleanupStage(a) \/ CleanupDelete(a) \/ CleanupDone(a)
    BY <2>0, <2>6, Zenon DEF CleanupStage, CleanupDelete, CleanupDone, process
  <2> QED BY <2>1, <2>2, <2>3, <2>4, <2>5, <2>6, Zenon
<1>2. \A b \in Agents : b # a => engine'[b] = engine[b]
  BY <1>a, Zenon DEF Ready, StopRun, ShutdownWorkers, RunStopped, ProcessEnds,
              CleanupStage, CleanupDelete, CleanupDone, process
<1>3. \/ engine'[a].state \notin {"starting", "up"}
      \/ /\ engine'[a].plan = engine[a].plan /\ engine'[a].kind = engine[a].kind
         /\ engine'[a].run = engine[a].run
         /\ engine'[a].state \in {"starting", "up"} => engine[a].state \in {"starting", "up"}
  <2>1. CASE Ready(a)
    BY <1>a, <2>1 DEF Ready, EngineRecord
  <2>2. CASE StopRun(a)
    BY <1>a, <2>2, Zenon DEF StopRun, EngineRecord
  <2>3. CASE ShutdownWorkers(a) \/ RunStopped(a)
    BY <1>a, <2>3 DEF ShutdownWorkers, RunStopped, EngineRecord
  <2>5. CASE ProcessEnds(a)
    BY <1>a, <2>5, Zenon DEF ProcessEnds, Idle
  <2>6. CASE CleanupStage(a) \/ CleanupDelete(a) \/ CleanupDone(a)
    BY <2>6, Zenon DEF CleanupStage, CleanupDelete, CleanupDone, process
  <2> QED BY <2>1, <2>2, <2>3, <2>5, <2>6, Zenon
<1>4. ASSUME NEW w \in workers, NEW v, Alike(v, w) PROVE Provided(v)'
  <2>1. w.agent \in Agents /\ v.agent = w.agent
    BY <1>4, Zenon DEF Typed, Worker, Alike
  <2>2. CASE w.agent = a /\ engine'[a].state \notin {"starting", "up"}
    BY <2>1, <2>2, Zenon DEF Provided
  <2>3. CASE w.agent = a /\ engine'[a].state \in {"starting", "up"}
    BY <1>3, <1>4, <2>3, ProvidedSteady, Zenon
  <2>4. CASE w.agent # a
    BY <1>2, <1>4, <2>1, <2>4, ProvidedSteady, Zenon
  <2> QED BY <2>2, <2>3, <2>4, Zenon
<1> QED BY <1>1, <1>4, Zenon DEF ProvidedInv

LEMMA ProvidedStep ==
    ASSUME Typed, RunInv, VerifyApart, PrefixesApart, ProvidedInv, [Next]_vars
    PROVE  ProvidedInv'
<1>1. CASE UNCHANGED vars
  BY <1>1, Zenon DEF vars, ProvidedInv, Provided, Passed
<1>2. CASE Next
  <2>1. ASSUME NEW a \in Agents, AgentNext(a) PROVE ProvidedInv'
    BY <1>2, <2>1, ProvidedStartRun, ProvidedStartConsumers, ProvidedStart, ProvidedStartFails, ProvidedAgent, Zenon
       DEF AgentNext
  <2>2. ASSUME engine' = engine, \A v \in workers' : \E w \in workers : Alike(v, w) PROVE ProvidedInv'
    BY <1>2, <2>2, ProvidedSteady, Zenon DEF ProvidedInv
  <2>3. ASSUME NEW w \in workers, ProvisionProbe(w) \/ SeekRound(w) \/ StopConsumers(w) PROVE ProvidedInv'
    <3>1. engine' = engine
      BY <2>3, Zenon DEF ProvisionProbe, SeekRound, StopConsumers, process
    <3>2. w \in Worker
      BY Zenon DEF Typed
    <3>3. \A v \in workers' : \E u \in workers : Alike(v, u)
      <4>1. CASE ProvisionProbe(w) \/ SeekRound(w)
        BY <4>1, Zenon DEF ProvisionProbe, SeekRound, process, Alike
      <4>2. CASE StopConsumers(w)
        BY <3>2, <4>2, Zenon DEF StopConsumers, Updated, Alike, Worker
      <4> QED BY <2>3, <4>1, <4>2, Zenon
    <3> QED BY <2>2, <3>1, <3>3, Zenon
  <2>4. ASSUME VerifyProvision \/ VerifyCleanup PROVE ProvidedInv'
    <3>1. engine' = engine /\ workers' = workers
      BY <2>4, Zenon DEF VerifyProvision, VerifyCleanup, process
    <3> QED BY <2>2, <3>1, Zenon DEF Alike
  <2> QED BY <1>2, <2>1, <2>3, <2>4, Zenon DEF Next
<1> QED BY <1>1, <1>2, Zenon

LEMMA ProvidedAlways ==
    ASSUME VerifyApart, PrefixesApart
    PROVE  Spec => []ProvidedInv
<1>1. Init => ProvidedInv
  BY Zenon DEF Init, ProvidedInv
<1>2. Typed /\ RunInv /\ ProvidedInv /\ [Next]_vars => ProvidedInv'
  BY ProvidedStep, Zenon
<1> QED BY <1>1, <1>2, RunsConsistent, PTL DEF Spec

(***************************************************************************)
(* While a run is up all that its workers provisioned exists, whatever the *)
(* other agents, the ends of the runs and the tools do beside it: what     *)
(* cmd/cleanup/main.go:5-6 promises.  The hypothesis is what it takes: the *)
(* name prefix of no agent extends that of another.                        *)
(***************************************************************************)
THEOREM RunKeepsItsResources ==
    VerifyApart /\ PrefixesApart => (Spec => []OthersUndisturbed)
<1> SUFFICES ASSUME VerifyApart, PrefixesApart PROVE Spec => []OthersUndisturbed
  BY Zenon
<1>1. Typed /\ RunInv /\ ProvidedInv => OthersUndisturbed
  <2> SUFFICES ASSUME Typed, RunInv, ProvidedInv, NEW w \in workers,
                      w.run = engine[w.agent].run, engine[w.agent].state = "up",
                      NEW i \in DOMAIN Plan(w.kind), Plan(w.kind)[i] \in Roles
               PROVE  Name(w.agent, w.kind, Plan(w.kind)[i]) \in DOMAIN present
    BY Zenon DEF OthersUndisturbed
  <2>1. w.agent \in Agents /\ w.kind \in WorkerTypes
    BY Zenon DEF Typed, Worker
  <2>2. Plan(w.kind) \in Seq(Steps)
    BY <2>1, PlansOrdered, Zenon DEF WellPlanned
  <2>3. i \in 1 .. Len(Plan(w.kind))
    BY <2>2
  <2>4. engine[w.agent].plan = <<>>
    BY <2>1, Zenon DEF RunInv, AgentInv
  <2> QED BY <2>3, <2>4, Zenon DEF ProvidedInv, Provided, Passed
<1> QED BY <1>1, ProvidedAlways, RunsConsistent, PTL

(* hurt is reset with the run that it is about. *)
LEMMA ErrorStep ==
    ASSUME Typed, RunInv, ProvidedInv, StartFailsOnlyOnFault, [Next]_vars
    PROVE  StartFailsOnlyOnFault'
<1>a. engine \in [Agents -> EngineRecord] /\ hurt \in [Agents -> BOOLEAN]
  BY Zenon DEF Typed
<1>b. ASSUME hurt' = hurt, \A b \in Agents : engine'[b].state = "error" => engine[b].state = "error"
      PROVE  StartFailsOnlyOnFault'
  BY <1>b, Zenon DEF StartFailsOnlyOnFault
<1>c. ASSUME NEW a \in Agents, engine'[a].state = "error" => hurt'[a],
             \A b \in Agents : b # a => engine'[b] = engine[b] /\ hurt'[b] = hurt[b]
      PROVE  StartFailsOnlyOnFault'
  BY <1>c, Zenon DEF StartFailsOnlyOnFault
<1>1. CASE UNCHANGED vars
  BY <1>1, Zenon DEF vars, StartFailsOnlyOnFault
<1>2. ASSUME NEW a \in Agents, AgentNext(a) PROVE StartFailsOnlyOnFault'
  <2>0. engine[a] \in EngineRecord
    BY <1>a, Zenon
  <2>1. CASE (\E c \in scenario.configs[a] : StartRun(a, c)) \/ ProcessEnds(a)
    <3>1. engine'[a].state # "error"
      <4>1. CASE \E c \in scenario.configs[a] : StartRun(a, c)
        BY <1>a, <4>1 DEF StartRun, Idle
      <4>2. CASE ProcessEnds(a)
        BY <1>a, <4>2, Zenon DEF ProcessEnds, Idle
      <4> QED BY <2>1, <4>1, <4>2, Zenon
    <3>2. \A b \in Agents : b # a => engine'[b] = engine[b] /\ hurt'[b] = hurt[b]
      BY <1>a, <2>1, Zenon DEF StartRun, ProcessEnds
    <3> QED BY <1>c, <3>1, <3>2, Zenon
  <2>2. CASE StartFails(a)
    <3>1. hurt'[a] /\ \A b \in Agents : b # a => hurt'[b] = hurt[b]
      BY <1>a, <2>2, Zenon DEF StartFails
    <3>2. \A b \in Agents : b # a => engine'[b] = engine[b]
      BY <1>a, <2>2, Zenon DEF StartFails, SetError, Proceed
    <3> QED BY <1>c, <3>1, <3>2, Zenon
  <2>3. CASE StopRun(a)
    <3>1. hurt'[a] /\ \A b \in Agents : b # a => engine'[b] = engine[b] /\ hurt'[b] = hurt[b]
      BY <1>a, <2>3, Zenon DEF StopRun
    <3> QED BY <1>c, <3>1, Zenon
  <2>4. CASE EnsureResource(a) \/ OpenClient(a) \/ Launch(a)
    <3>1. Proceed(a) /\ engine[a].plan # <<>> /\ hurt' = hurt
      BY <2>4, EnsureTolerated, Zenon DEF EnsureResource, OpenClient, Launch
    <3>2. \A b \in Agents : engine'[b].state = engine[b].state
      BY <3>1, ProceedEffect, Zenon
    <3> QED BY <1>b, <3>1, <3>2, Zenon
  <2>5. CASE StartConsumers(a) \/ Ready(a) \/ ShutdownWorkers(a) \/ RunStopped(a)
    <3>1. hurt' = hurt
      BY <2>5, Zenon DEF StartConsumers, Ready, ShutdownWorkers, RunStopped
    <3>2. \A b \in Agents : b # a => engine'[b] = engine[b]
      BY <1>a, <2>5, Zenon DEF StartConsumers, Ready, ShutdownWorkers, RunStopped
    <3>3. engine'[a].state # "error"
      <4>1. CASE StartConsumers(a)
        BY <1>a, <2>0, <4>1, Zenon DEF StartConsumers, EngineRecord
      <4>2. CASE Ready(a)
        BY <1>a, <2>0, <4>2 DEF Ready, EngineRecord
      <4>3. CASE ShutdownWorkers(a) \/ RunStopped(a)
        BY <1>a, <2>0, <4>3 DEF ShutdownWorkers, RunStopped, EngineRecord
      <4> QED BY <2>5, <4>1, <4>2, <4>3, Zenon
    <3> QED BY <1>c, <3>1, <3>2, <3>3, Zenon
  <2>6. CASE CleanupStage(a) \/ CleanupDelete(a) \/ CleanupDone(a)
    <3>1. hurt' = hurt /\ engine' = engine
      BY <2>6, Zenon DEF CleanupStage, CleanupDelete, CleanupDone, process
    <3> QED BY <1>b, <3>1, Zenon
  <2> QED BY <1>2, <2>1, <2>2, <2>3, <2>4, <2>5, <2>6, Zenon DEF AgentNext
<1>3. ASSUME NEW w \in workers, ProvisionProbe(w) \/ SeekRound(w) \/ StopConsumers(w)
      PROVE  StartFailsOnlyOnFault'
  BY <1>3, <1>b, Zenon DEF ProvisionProbe, SeekRound, StopConsumers, process
<1>4. ASSUME VerifyProvision \/ VerifyCleanup PROVE StartFailsOnlyOnFault'
  BY <1>4, <1>b, Zenon DEF VerifyProvision, VerifyCleanup, process
<1> QED BY <1>1, <1>2, <1>3, <1>4, Zenon DEF Next

(***************************************************************************)
(* A run whose start met no failing call and was not cancelled does not    *)
(* end in error, whatever runs killed or failed half way have left         *)
(* (transport/resources.go:143-199): every resource is ensured after what  *)
(* it needs, and nobody else takes that away in between.                   *)
(***************************************************************************)
THEOREM StartSurvivesLeftovers ==
    VerifyApart /\ PrefixesApart => (Spec => []StartFailsOnlyOnFault)
<1> SUFFICES ASSUME VerifyApart, PrefixesApart PROVE Spec => []StartFailsOnlyOnFault
  OBVIOUS
<1>1. Init => StartFailsOnlyOnFault
  BY DEF Init, Idle, StartFailsOnlyOnFault
<1>2. Typed /\ RunInv /\ ProvidedInv /\ StartFailsOnlyOnFault /\ [Next]_vars => StartFailsOnlyOnFault'
  BY ErrorStep, Zenon
<1> QED BY <1>1, <1>2, ProvidedAlways, RunsConsistent, PTL DEF Spec

-----------------------------------------------------------------------------
(* The settings of what a run has provisioned.                             *)

(* A step that leaves the configuration alone creates with its settings. *)
LEMMA SettledKept ==
    ASSUME Typed, VerifyApart, Changed \/ VerifyGrown, NEW a \in Agents, Settled(a),
           fresh'[a] => fresh[a], engine'[a].cfg = engine[a].cfg
    PROVE  Settled(a)'
<1> SUFFICES ASSUME fresh'[a], NEW x \in DOMAIN present', x.prefix = Prefix[a]
             PROVE  present'[x] = AskedFor(x.kind, x.role, engine[a].cfg)
  BY Zenon DEF Settled
<1>a. x \in DOMAIN present => present[x] = AskedFor(x.kind, x.role, engine[a].cfg)
  BY Zenon DEF Settled
<1>1. CASE present' = present
  BY <1>1, <1>a, Zenon
<1>2. CASE Shrunk
  <2>1. PICK ids : present' = Without(ids)
    BY <1>2, Zenon DEF Shrunk
  <2>2. x \in DOMAIN present /\ present'[x] = present[x]
    BY <2>1, WithoutEffect, Zenon
  <2> QED BY <1>a, <2>2, Zenon
<1>3. CASE Grown
  <2>1. PICK b \in Agents, k \in WorkerTypes, r \in Roles :
             present' = With(Name(b, k, r), AskedFor(k, r, engine[b].cfg))
    BY <1>3, Zenon DEF Grown
  <2>2. CASE x = Name(b, k, r)
    <3>1. x.prefix = Prefix[b] /\ x.kind = k /\ x.role = r
      BY <2>2, Zenon DEF Name
    <3>2. b = a
      BY <3>1, ResourcesAssumption, Zenon
    <3>3. present'[x] = AskedFor(k, r, engine[b].cfg)
      BY <2>1, <2>2, WithEffect, Zenon
    <3> QED BY <3>1, <3>2, <3>3, Zenon
  <2>3. CASE x # Name(b, k, r)
    <3>1. x \in DOMAIN present /\ present'[x] = present[x]
      <4>1. PICK y, s : y = Name(b, k, r) /\ present' = With(y, s)
        BY <2>1, Zenon
      <4>2. /\ DOMAIN present' = DOMAIN present \cup {y}
            /\ \A z \in DOMAIN present : z # y => present'[z] = present[z]
        BY <4>1, WithEffect, Zenon
      <4> QED BY <2>3, <4>1, <4>2, Zenon
    <3> QED BY <1>a, <3>1, Zenon
  <2> QED BY <2>2, <2>3, Zenon
<1>4. CASE VerifyGrown
  <2>1. PICK y \in VerifyNames : present' = With(y, 1)
    BY <1>4, Zenon DEF VerifyGrown
  <2>2. x # y
    BY Zenon DEF VerifyNames, VerifyApart
  <2>3. x \in DOMAIN present /\ present'[x] = present[x]
    <3>1. /\ DOMAIN present' = DOMAIN present \cup {y}
          /\ \A z \in DOMAIN present : z # y => present'[z] = present[z]
      BY <2>1, WithEffect, Zenon
    <3> QED BY <2>2, <3>1, Zenon
  <2> QED BY <1>a, <2>3, Zenon
<1> QED BY <1>1, <1>2, <1>3, <1>4, Zenon DEF Changed

(* Only StartRunFromConfig and the end of the process change the configuration of a run. *)
LEMMA ConfigKept ==
    ASSUME Typed, RunInv, NEW a \in Agents,
           \/ StartConsumers(a) \/ StartFails(a) \/ OpenClient(a) \/ EnsureResource(a) \/ Launch(a)
           \/ Ready(a) \/ StopRun(a) \/ ShutdownWorkers(a) \/ RunStopped(a)
           \/ CleanupStage(a) \/ CleanupDelete(a) \/ CleanupDone(a)
    PROVE  fresh' = fresh /\ \A b \in Agents : engine'[b].cfg = engine[b].cfg
<1>a. engine \in [Agents -> EngineRecord] /\ engine[a] \in EngineRecord
  BY Zenon DEF Typed
<1>1. fresh' = fresh
  BY Zenon DEF StartConsumers, StartFails, OpenClient, EnsureResource, Launch, Ready, StopRun,
         ShutdownWorkers, RunStopped, CleanupStage, CleanupDelete, CleanupDone, history
<1>2. CASE StartConsumers(a) \/ Ready(a) \/ StopRun(a) \/ ShutdownWorkers(a) \/ RunStopped(a)
  <2>1. \A b \in Agents : b # a => engine'[b] = engine[b]
    BY <1>2, <1>a, Zenon DEF StartConsumers, Ready, StopRun, ShutdownWorkers, RunStopped
  <2>2. ASSUME StartConsumers(a) PROVE engine'[a].cfg = engine[a].cfg
    BY <1>a, <2>2, Zenon DEF StartConsumers, EngineRecord
  <2>3. ASSUME Ready(a) PROVE engine'[a].cfg = engine[a].cfg
    BY <1>a, <2>3 DEF Ready, EngineRecord
  <2>4. ASSUME StopRun(a) PROVE engine'[a].cfg = engine[a].cfg
    BY <1>a, <2>4, Zenon DEF StopRun, EngineRecord
  <2>5. ASSUME ShutdownWorkers(a) \/ RunStopped(a) PROVE engine'[a].cfg = engine[a].cfg
    BY <1>a, <2>5 DEF ShutdownWorkers, RunStopped, EngineRecord
  <2> QED BY <1>1, <1>2, <2>1, <2>2, <2>3, <2>4, <2>5, Zenon
<1>3. CASE StartFails(a) \/ OpenClient(a) \/ EnsureResource(a) \/ Launch(a)
  <2>1. engine[a].plan # <<>> /\ (Proceed(a) \/ SetError(a))
    BY <1>3, Zenon DEF StartFails, OpenClient, EnsureResource, Launch
  <2>2. engine[a].run > 0
    BY <2>1, Zenon DEF RunInv, AgentInv, Active
  <2> QED BY <1>1, <2>1, <2>2, ProceedEffect, SetErrorEffect, Zenon
<1>4. CASE CleanupStage(a) \/ CleanupDelete(a) \/ CleanupDone(a)
  BY <1>1, <1>4, Zenon DEF CleanupStage, CleanupDelete, CleanupDone, process
<1> QED BY <1>1, <1>2, <1>3, <1>4, Zenon

LEMMA SettingsStep ==
    ASSUME Typed, RunInv, CleanInv, SettingsInv, VerifyApart, [Next]_vars
    PROVE  SettingsInv'
<1>a. Changed \/ VerifyGrown
  BY Changes, Zenon
<1>b. ASSUME fresh' = fresh, \A b \in Agents : engine'[b].cfg = engine[b].cfg PROVE SettingsInv'
  BY <1>a, <1>b, SettledKept, Zenon DEF SettingsInv
<1>c. ASSUME NEW a \in Agents, Settled(a)',
             \A b \in Agents : b # a => engine'[b] = engine[b] /\ fresh'[b] = fresh[b]
      PROVE  SettingsInv'
  BY <1>a, <1>c, SettledKept, Zenon DEF SettingsInv
<1>1. CASE UNCHANGED vars
  BY <1>1, <1>b, Zenon DEF vars
<1>2. ASSUME NEW a \in Agents, AgentNext(a) PROVE SettingsInv'
  <2>1. ASSUME NEW c \in scenario.configs[a], StartRun(a, c) PROVE SettingsInv'
    <3>1. fresh'[a] = clean[a] /\ present' = present
      BY <2>1, Zenon DEF StartRun, Typed
    <3>2. Settled(a)'
      BY <3>1, Zenon DEF CleanInv, CleanAt, Settled
    <3>3. \A b \in Agents : b # a => engine'[b] = engine[b] /\ fresh'[b] = fresh[b]
      BY <2>1, Zenon DEF StartRun, Typed
    <3> QED BY <1>c, <3>2, <3>3, Zenon
  <2>2. CASE ProcessEnds(a)
    <3>1. ~fresh'[a]
      BY <2>2, Zenon DEF ProcessEnds, Typed
    <3>2. Settled(a)'
      BY <3>1, Zenon DEF Settled
    <3>3. \A b \in Agents : b # a => engine'[b] = engine[b] /\ fresh'[b] = fresh[b]
      BY <2>2, Zenon DEF ProcessEnds, Typed
    <3> QED BY <1>c, <3>2, <3>3, Zenon
  <2> QED BY <1>2, <1>b, <2>1, <2>2, ConfigKept, Zenon DEF AgentNext
<1>3. ASSUME NEW w \in workers, ProvisionProbe(w) \/ SeekRound(w) \/ StopConsumers(w) PROVE SettingsInv'
  BY <1>3, <1>b, Zenon DEF ProvisionProbe, SeekRound, StopConsumers, process, history
<1>4. ASSUME VerifyProvision \/ VerifyCleanup PROVE SettingsInv'
  BY <1>4, <1>b, Zenon DEF VerifyProvision, VerifyCleanup, process, history
<1> QED BY <1>1, <1>2, <1>3, <1>4, Zenon DEF Next

(***************************************************************************)
(* A run that starts after a complete cleanup receives from subscriptions  *)
(* with the settings it asks for (transport/resources.go:143-199 takes an  *)
(* existing one as it is, so without the cleanup it need not).             *)
(***************************************************************************)
THEOREM CleanStartAsConfigured ==
    VerifyApart /\ PrefixesApart => (Spec => []SettingsAsAsked)
<1> SUFFICES ASSUME VerifyApart, PrefixesApart PROVE Spec => []SettingsAsAsked
  OBVIOUS
<1>1. Init => CleanInv /\ SettingsInv
  <2>1. Init => DOMAIN present = {}
    BY DEF Init
  <2> QED BY <2>1, Zenon DEF CleanInv, CleanAt, SettingsInv, Settled
<1>2. /\ Typed /\ RunInv /\ CleanInv /\ [Next]_vars => CleanInv'
      /\ Typed /\ RunInv /\ CleanInv /\ SettingsInv /\ [Next]_vars => SettingsInv'
  BY CleanStep, SettingsStep, Zenon
<1>3. Typed /\ RunInv /\ OthersUndisturbed /\ SettingsInv => SettingsAsAsked
  <2> SUFFICES ASSUME Typed, RunInv, OthersUndisturbed, SettingsInv, NEW w \in workers,
                      w.run = engine[w.agent].run, engine[w.agent].state = "up", fresh[w.agent],
                      NEW x \in w.receiving
               PROVE  present[x] = AskedFor(w.kind, x.role, engine[w.agent].cfg)
    BY Zenon DEF SettingsAsAsked
  <2>1. w.agent \in Agents /\ w.kind \in WorkerTypes
    BY Zenon DEF Typed, Worker
  <2>2. PICK r \in ReceivesFrom(w.kind) : x = Name(w.agent, w.kind, r)
    BY Zenon DEF RunInv, WorkerInv, OwnNames
  <2>3. PICK i \in 1 .. Len(Plan(w.kind)) : Plan(w.kind)[i] = r /\ r \in Roles
    BY <2>1, ReceivesProvided, Zenon
  <2>4. Plan(w.kind) \in Seq(Steps)
    BY <2>1, PlansOrdered, Zenon DEF WellPlanned
  <2>5. i \in DOMAIN Plan(w.kind)
    BY <2>3, <2>4
  <2>6. x \in DOMAIN present
    BY <2>2, <2>3, <2>5, Zenon DEF OthersUndisturbed
  <2>7. x.prefix = Prefix[w.agent] /\ x.kind = w.kind
    BY <2>2, Zenon DEF Name
  <2> QED BY <2>1, <2>6, <2>7, Zenon DEF SettingsInv, Settled
<1>4. Spec => []OthersUndisturbed
  BY RunKeepsItsResources, Zenon
<1> QED BY <1>1, <1>2, <1>3, <1>4, RunsConsistent, PTL DEF Spec

-----------------------------------------------------------------------------
(***************************************************************************)
(* Type correctness; the steps left of a Start, the names left to delete   *)
(* and the runs of the workers belong to the phase the agent and the tool  *)
(* are in.                                                                 *)
(***************************************************************************)
THEOREM TypeCorrect == Spec => []TypeOK
<1>1. Typed /\ RunInv => TypeOK
  <2> SUFFICES ASSUME Typed, RunInv PROVE TypeOK
    BY Zenon
  <2>1. \A x \in DOMAIN present : x.role \in Roles /\ present[x] \in Nat \ {0}
    BY Zenon DEF Typed, NameSet
  <2>2. ASSUME NEW a \in Agents
        PROVE  /\ engine[a].state \in {"idle", "starting", "up", "stopping", "stopped", "error"}
               /\ engine[a].plan # <<>> => engine[a].state = "starting" /\ engine[a].kind # "none"
               /\ cleaner[a].stage \in 0 .. Len(Stages)
               /\ \A x \in cleaner[a].todo : x.role \in Stages[cleaner[a].stage]
    <3>1. engine[a] \in EngineRecord /\ cleaner[a] \in Cleaner /\ AgentInv(a)
      BY Zenon DEF Typed, RunInv
    <3>2. engine[a].plan # <<>> => engine[a].state = "starting" /\ engine[a].kind # "none"
      BY <3>1, Zenon DEF AgentInv, PlanRest, WorkerTypes
    <3>3. cleaner[a].stage \in 0 .. Len(Stages)
      BY <3>1, StagesAre, Zenon DEF Cleaner
    <3> QED BY <3>1, <3>2, <3>3, Zenon DEF EngineRecord, AgentInv
  <2>3. ASSUME NEW w \in workers
        PROVE  /\ w.agent \in Agents /\ w.run \in 1 .. engine[w.agent].run
               /\ w.handles \subseteq {"client", "subClient", "probeClient", "schemaClient", "native"}
               /\ w.stopped => w.receiving = {}
    <3>1. w \in Worker /\ WorkerInv(w)
      BY Zenon DEF Typed, RunInv
    <3>2. w.agent \in Agents /\ w.run \in Nat \ {0} /\ w.run <= engine[w.agent].run
      BY <3>1, Zenon DEF Worker, WorkerInv
    <3>3. engine[w.agent].run \in Nat
      BY <3>2, Zenon DEF Typed, EngineRecord
    <3> QED BY <3>1, <3>2, <3>3 DEF Worker, Clients, WorkerInv
  <2> QED BY <2>1, <2>2, <2>3, Zenon DEF TypeOK, Typed
<1> QED BY <1>1, RunsConsistent, PTL
=============================================================================
