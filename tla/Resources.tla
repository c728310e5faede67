----------------------------- MODULE Resources -----------------------------
(***************************************************************************)
(* The topics, subscriptions, snapshots and schemas that outlive the       *)
(* processes using them.  Agents (src/burnin/main.go, one per prefix)      *)
(* share one connector; every run of an agent starts its workers with      *)
(* Start, which provisions (src/burnin/worker/*.go, src/burnin/transport), *)
(* and stops them with StopConsumers.  src/burnin/cmd/cleanup deletes what *)
(* an agent has left, and src/burnin/cmd/verify uses resources of its own. *)
(*                                                                         *)
(* Names are stable: a run meets what the runs before it, also those that  *)
(* failed half way or whose process was killed, have created.              *)
(***************************************************************************)
EXTENDS Integers, FiniteSets, Sequences, Functions

CONSTANTS
    Agents,       \* harness processes that share the connector
    Prefix,       \* BURNIN_RESOURCE_PREFIX of each agent, as a sequence of words
    Scenarios,    \* what is done to the connector: records of the configurations of each agent's
                  \* runs, of the agents for which cmd/cleanup is run, and of the checks of
                  \* cmd/verify ("rt" and, without -no-interop, "interop")
    MaxRuns,      \* bound, per agent: its runs
    MaxFaults     \* bound: failed calls and killed processes

WorkerTypes ==
    {"publish_pull_round_trip", "streaming_pull", "exactly_once", "schema_enforce", "fan_out",
     "nack_redelivery", "filtering", "ordering_keys", "inflight_cap", "seek_snapshot",
     "dead_letter", "cross_protocol_interop"}

(* A configuration: the enabled worker types, in the order of the start, and what is asked *)
(* of the subscriptions (ack deadline, dead-letter policy).                                *)
ASSUME ResourcesAssumption ==
    /\ IsFiniteSet(Agents)
    /\ \A a \in Agents : Prefix[a] \in Seq(STRING)
    /\ \A a, b \in Agents : a # b => Prefix[a] # Prefix[b]
    /\ \A sc \in Scenarios :
          /\ sc.cleaned \subseteq Agents
          /\ \A a \in Agents : \A c \in sc.configs[a] :
                /\ c.settings \in Nat \ {0}
                /\ c.kinds \in Seq(WorkerTypes) /\ IsInjective(c.kinds)
          /\ sc.checks \in Seq({"rt", "interop"}) /\ IsInjective(sc.checks)
    /\ \A a \in Agents : MaxRuns[a] \in Nat
    /\ MaxFaults \in Nat

-----------------------------------------------------------------------------
(* Names: a prefix, a worker type and a role.                              *)

TopicRoles == {"topic", "dlt", "probe"}
SubRoles == {"sub", "s00", "s01", "dlt_sub", "probe_sub"}
Roles == TopicRoles \cup SubRoles \cup {"snap", "schema"}

(* The topic that a subscription or a snapshot belongs to. *)
TopicOf(role) ==
    CASE role = "dlt_sub" -> "dlt" [] role = "probe_sub" -> "probe" [] OTHER -> "topic"

Name(a, kind, role) == [prefix |-> Prefix[a], kind |-> kind, role |-> role]

-----------------------------------------------------------------------------
(* Start of every worker type, as the calls it makes in their order: a client that is *)
(* opened, a resource that is ensured, and "launch" for the receiving goroutines.     *)

publish_pull_Start == <<"client", "topic", "sub", "launch">>
streaming_pull_Start == <<"client", "topic", "sub", "subClient", "launch">>
exactly_once_Start == <<"client", "topic", "sub", "probeClient", "launch">>
schema_enforce_Start == <<"schemaClient", "schema", "client", "topic", "sub", "launch">>
fan_out_Start == <<"client", "topic", "s00", "s01", "launch">>
nack_redelivery_Start == <<"client", "topic", "sub", "launch">>
filtering_Start == <<"client", "topic", "sub", "launch">>
ordering_keys_Start == <<"client", "topic", "sub", "launch">>
inflight_cap_Start == <<"client", "topic", "sub", "subClient", "launch">>
seek_snapshot_Start == <<"client", "topic", "sub", "subClient">>
dead_letter_Start ==
    <<"client", "topic", "dlt", "sub", "dlt_sub", "subClient", "launch">>
interop_Start == <<"client", "topic", "native", "launch">>

Plan(kind) ==
    CASE kind = "publish_pull_round_trip" -> publish_pull_Start
      [] kind = "streaming_pull" -> streaming_pull_Start
      [] kind = "exactly_once" -> exactly_once_Start
      [] kind = "schema_enforce" -> schema_enforce_Start
      [] kind = "fan_out" -> fan_out_Start
      [] kind = "nack_redelivery" -> nack_redelivery_Start
      [] kind = "filtering" -> filtering_Start
      [] kind = "ordering_keys" -> ordering_keys_Start
      [] kind = "inflight_cap" -> inflight_cap_Start
      [] kind = "seek_snapshot" -> seek_snapshot_Start
      [] kind = "dead_letter" -> dead_letter_Start
      [] kind = "cross_protocol_interop" -> interop_Start

(* The names a worker receives from; interop reads the topic natively. *)
ReceivesFrom(kind) ==
    IF kind = "cross_protocol_interop" THEN {"topic"}
    ELSE {r \in SubRoles : \E i \in DOMAIN Plan(kind) : Plan(kind)[i] = r}

(* The settings of a resource that a run configured with c creates. *)
AskedFor(kind, role, c) ==
    IF role \in SubRoles \ {"probe_sub"} /\ kind # "inflight_cap" THEN c ELSE 1

-----------------------------------------------------------------------------
VARIABLES
    scenario,  \* which of the scenarios this is
    present,   \* the connector's resources: a function from names to settings
    engine,    \* per agent: the run it is in
    workers,   \* the workers alive: their run, open clients and receiving loops
    cleaner,   \* per agent: the stage of cmd/cleanup, what it still has to delete
    verifier,  \* cmd/verify: what it has to create, and the teardown it has registered
    faults,    \* bound
    \* History, read by no action:
    clean,     \* per agent: cmd/cleanup has ended and deleted all it was asked to
    fresh,     \* per agent: the run was started when clean
    hurt,      \* per agent: a call of the run's start failed, or the run was cancelled
    over       \* per agent and run of the process: how it ended

process == <<engine, workers, hurt, over>>
history == <<clean, fresh>>
vars == <<scenario, present, engine, workers, cleaner, verifier, faults, clean, fresh, hurt, over>>

Idle == [state |-> "idle", run |-> 0, cfg |-> 1, queue |-> <<>>, kind |-> "none", plan |-> <<>>,
         cancelled |-> FALSE]

NoCleanup == [stage |-> 0, todo |-> {}, missed |-> FALSE]

(* What cmd/verify provisions for its checks, in its order: a topic, then its subscription. *)
VerifyPlan ==
    [i \in 1 .. 2 * Len(scenario.checks) |->
        [prefix |-> <<"verify">>, kind |-> scenario.checks[(i + 1) \div 2],
         role |-> IF i % 2 = 1 THEN "topic" ELSE "sub"]]

Init ==
    /\ scenario \in Scenarios
    /\ present = <<>>
    /\ engine = [a \in Agents |-> Idle]
    /\ workers = {}
    /\ cleaner = [a \in Agents |-> NoCleanup]
    /\ verifier = [todo |-> VerifyPlan, registered |-> <<>>, missed |-> FALSE]
    /\ faults = 0
    /\ clean = [a \in Agents |-> FALSE] /\ fresh = [a \in Agents |-> FALSE]
    /\ hurt = [a \in Agents |-> FALSE]
    /\ over = [a \in Agents |-> [r \in 1 .. MaxRuns[a] |-> "no"]]

Fault == faults < MaxFaults /\ faults' = faults + 1

Active(a) == engine[a].state \in {"starting", "up", "stopping"}

With(id, s) == [x \in DOMAIN present \cup {id} |-> IF x = id THEN s ELSE present[x]]
Without(ids) == [x \in DOMAIN present \ ids |-> present[x]]

(* The resources that keep a topic from being deleted. *)
Dependents(id) ==
    {x \in DOMAIN present : /\ x.prefix = id.prefix /\ x.kind = id.kind
                            /\ x.role \in SubRoles \cup {"snap"} /\ TopicOf(x.role) = id.role}

Deletable(id) == id.role \in TopicRoles => Dependents(id) = {}

-----------------------------------------------------------------------------
(* A run.                                                                  *)

(* StartRunFromConfig, and the worker groups of the run.  Nothing of an earlier run is touched. *)
StartRun(a, c) ==
    /\ ~Active(a) /\ cleaner[a].stage = 0
    /\ engine[a].run < MaxRuns[a]
    /\ engine' = [engine EXCEPT ![a] = [Idle EXCEPT !.state = "starting", !.run = engine[a].run + 1,
                                                    !.cfg = c.settings, !.queue = c.kinds]]
    /\ fresh' = [fresh EXCEPT ![a] = clean[a]]
    /\ clean' = [clean EXCEPT ![a] = FALSE]
    /\ hurt' = [hurt EXCEPT ![a] = FALSE]
    /\ UNCHANGED <<present, workers, cleaner, verifier, faults, over>>

(* StartConsumers of the next group: its worker's Start is called. *)
StartConsumers(a) ==
    /\ engine[a].state = "starting" /\ engine[a].plan = <<>> /\ engine[a].queue # <<>>
    /\ LET k == Head(engine[a].queue) IN
       /\ engine' = [engine EXCEPT ![a].queue = Tail(@), ![a].kind = k, ![a].plan = Plan(k)]
       /\ workers' = workers \cup {[agent |-> a, run |-> engine[a].run, kind |-> k,
                                    handles |-> {}, receiving |-> {}, stopped |-> FALSE]}
    /\ UNCHANGED <<present, cleaner, verifier, faults, history, hurt, over>>

Current(a) ==
    CHOOSE w \in workers : w.agent = a /\ w.run = engine[a].run /\ w.kind = engine[a].kind

Updated(w, v) == (workers \ {w}) \cup {v}

Proceed(a) == engine' = [engine EXCEPT ![a].plan = Tail(@)]

(* setError: the run is over; nothing that was started is stopped. *)
SetError(a) ==
    /\ engine' = [engine EXCEPT ![a].state = "error", ![a].plan = <<>>, ![a].queue = <<>>]
    /\ over' = [over EXCEPT ![a][engine[a].run] = "error"]

(* A call of Start fails, or the cancelled context ends it.  A resource may have been created *)
(* all the same.  A client of a probe that cannot be opened ends the probe and no more.       *)
StartFails(a) ==
    /\ engine[a].plan # <<>>
    /\ Head(engine[a].plan) = "launch" => engine[a].kind = "cross_protocol_interop"
    /\ IF engine[a].cancelled THEN UNCHANGED faults ELSE Fault
    /\ LET step == Head(engine[a].plan)
           id == Name(a, engine[a].kind, step)
       IN  /\ \/ UNCHANGED present
              \/ /\ step \in Roles /\ id \notin DOMAIN present
                 /\ present' = With(id, AskedFor(engine[a].kind, step, engine[a].cfg))
           /\ IF step = "probeClient" THEN Proceed(a) /\ UNCHANGED over ELSE SetError(a)
    /\ hurt' = [hurt EXCEPT ![a] = TRUE]
    /\ UNCHANGED <<workers, cleaner, verifier, history>>

(* NewPubSubClient, NewSubscriberClient, NewSchemaClient, DialNative. *)
OpenClient(a) ==
    /\ engine[a].plan # <<>>
    /\ LET step == Head(engine[a].plan)
           w == Current(a)
       IN  /\ step \in {"client", "subClient", "probeClient", "schemaClient", "native"}
           /\ workers' = Updated(w, [w EXCEPT !.handles = @ \cup {step}])
    /\ Proceed(a)
    /\ UNCHANGED <<present, cleaner, verifier, faults, history, hurt, over>>

(* What a resource needs the connector to have. *)
Needs(id) ==
    (IF id.role \in SubRoles THEN {[id EXCEPT !.role = TopicOf(id.role)]} ELSE {})
    \cup (IF id.role = "topic" /\ id.kind = "schema_enforce" THEN {[id EXCEPT !.role = "schema"]} ELSE {})

(* The connector's answer to a request to create id. *)
Answer(id) ==
    IF id \in DOMAIN present THEN "AlreadyExists"
    ELSE IF Needs(id) \subseteq DOMAIN present THEN "OK" ELSE "NotFound"

(* Wrong: a resource that exists is an error. *)
TolerateNothing(answer) == answer = "OK"

(* IsAlreadyExists is no error. *)
Tolerated(answer) == answer \in {"OK", "AlreadyExists"}

(* Wrong: every subscription is created with the settings of the first configuration. *)
EnsureDefault(id, s) == present' = IF id \in DOMAIN present THEN present ELSE With(id, 1)

(* EnsureTopic, EnsureSubscription, EnsureTopicWithSchema, createSchema: created with the *)
(* settings s; one that exists is taken as it is.                                         *)
Ensure(id, s) == present' = IF id \in DOMAIN present THEN present ELSE With(id, s)

EnsureResource(a) ==
    /\ engine[a].plan # <<>> /\ ~engine[a].cancelled
    /\ LET step == Head(engine[a].plan)
           k == engine[a].kind
           id == Name(a, k, step)
       IN  /\ step \in Roles
           /\ IF Tolerated(Answer(id))
              THEN Ensure(id, AskedFor(k, step, engine[a].cfg)) /\ Proceed(a) /\ UNCHANGED over
              ELSE SetError(a) /\ UNCHANGED present
    /\ UNCHANGED <<workers, cleaner, verifier, faults, history, hurt>>

(* The receiving goroutines are launched; with a cancelled context they end at once. *)
Launch(a) ==
    /\ engine[a].plan # <<>> /\ Head(engine[a].plan) = "launch"
    /\ LET w == Current(a)
           from == {Name(a, w.kind, r) : r \in ReceivesFrom(w.kind)}
       IN  workers' = Updated(w, [w EXCEPT !.receiving = IF engine[a].cancelled THEN {} ELSE from])
    /\ Proceed(a)
    /\ UNCHANGED <<present, cleaner, verifier, faults, history, hurt, over>>

(* Every receiving loop of the run of a is ended. *)
Ended(a) ==
    {IF w.agent = a /\ w.run = engine[a].run THEN [w EXCEPT !.receiving = {}] ELSE w : w \in workers}

(* StartProducers of seek_snapshot starts its round driver, StopProducers ends it. *)
Driving(a, from) ==
    {IF w.agent = a /\ w.run = engine[a].run /\ w.kind = "seek_snapshot"
     THEN [w EXCEPT !.receiving = {Name(a, w.kind, r) : r \in from}] ELSE w : w \in workers}

(* The workers are started and ready: the producers are started, unless the run has been   *)
(* cancelled; then it returns and leaves its workers as they are.                          *)
Ready(a) ==
    /\ engine[a].state = "starting" /\ engine[a].plan = <<>> /\ engine[a].queue = <<>>
    /\ IF engine[a].cancelled
       THEN /\ engine' = [engine EXCEPT ![a].state = "stopped"]
            /\ over' = [over EXCEPT ![a][engine[a].run] = "early"]
            /\ UNCHANGED workers
       ELSE /\ engine' = [engine EXCEPT ![a].state = "up"]
            /\ workers' = Driving(a, ReceivesFrom("seek_snapshot"))
            /\ UNCHANGED over
    /\ UNCHANGED <<present, cleaner, verifier, faults, history, hurt>>

(* Wrong: the receiving loops do not run under the context of the run. *)
StopRunOnly(a) ==
    /\ engine[a].state = "starting" /\ ~engine[a].cancelled
    /\ engine' = [engine EXCEPT ![a].cancelled = TRUE]
    /\ hurt' = [hurt EXCEPT ![a] = TRUE]
    /\ UNCHANGED <<present, workers, cleaner, verifier, faults, history, over>>

(* StopRun while the workers are started: the context of the run is cancelled, and the *)
(* receiving loops with it.                                                            *)
StopRun(a) ==
    /\ engine[a].state = "starting" /\ ~engine[a].cancelled
    /\ engine' = [engine EXCEPT ![a].cancelled = TRUE]
    /\ workers' = Ended(a)
    /\ hurt' = [hurt EXCEPT ![a] = TRUE]
    /\ UNCHANGED <<present, cleaner, verifier, faults, history, over>>

(* The probes of streaming_pull and dead_letter provision beside the receiving loops: the *)
(* topic, then the subscription.                                                          *)
ProvisionProbe(w) ==
    /\ w.kind \in {"streaming_pull", "dead_letter"} /\ w.receiving # {}
    /\ \E role \in {"probe", "probe_sub"} :
          LET id == Name(w.agent, w.kind, role)
          IN  Answer(id) = "OK" /\ Ensure(id, 1)
    /\ UNCHANGED <<process, cleaner, verifier, faults, history>>

(* A round of seek_snapshot creates its snapshot, and deletes it at its end. *)
SeekRound(w) ==
    /\ w.kind = "seek_snapshot" /\ w.receiving # {}
    /\ LET id == Name(w.agent, w.kind, "snap") IN
       present' = IF id \in DOMAIN present THEN Without({id}) ELSE With(id, 1)
    /\ UNCHANGED <<process, cleaner, verifier, faults, history>>

(* The run is over and its producers are stopped: shutdownWorkers comes to the consumers. *)
ShutdownWorkers(a) ==
    /\ engine[a].state = "up"
    /\ engine' = [engine EXCEPT ![a].state = "stopping"]
    /\ workers' = Driving(a, {})
    /\ UNCHANGED <<present, cleaner, verifier, faults, history, hurt, over>>

(* What StopConsumers deletes from the connector; the rest is left for the next run. *)
Deletes(w) ==
    CASE w.kind = "schema_enforce" -> {Name(w.agent, w.kind, "schema")}
      [] w.kind = "seek_snapshot" -> {Name(w.agent, w.kind, "snap")}
      [] OTHER -> {}

(* StopConsumers of every worker type, as the clients that it closes. *)

publish_pull_StopConsumers == {"client"}
streaming_pull_StopConsumers == {"subClient", "client"}
(* Wrong: the client of the probe stays open. *)
exactly_once_StopClient == {"client"}
exactly_once_StopConsumers == {"probeClient", "client"}
schema_enforce_StopConsumers == {"schemaClient", "client"}
fan_out_StopConsumers == {"client"}
nack_redelivery_StopConsumers == {"client"}
filtering_StopConsumers == {"client"}
ordering_keys_StopConsumers == {"client"}
inflight_cap_StopConsumers == {"subClient", "client"}
seek_snapshot_StopConsumers == {"subClient", "client"}
dead_letter_StopConsumers == {"subClient", "client"}
interop_StopConsumers == {"native", "client"}

Closes(kind) ==
    CASE kind = "publish_pull_round_trip" -> publish_pull_StopConsumers
      [] kind = "streaming_pull" -> streaming_pull_StopConsumers
      [] kind = "exactly_once" -> exactly_once_StopConsumers
      [] kind = "schema_enforce" -> schema_enforce_StopConsumers
      [] kind = "fan_out" -> fan_out_StopConsumers
      [] kind = "nack_redelivery" -> nack_redelivery_StopConsumers
      [] kind = "filtering" -> filtering_StopConsumers
      [] kind = "ordering_keys" -> ordering_keys_StopConsumers
      [] kind = "inflight_cap" -> inflight_cap_StopConsumers
      [] kind = "seek_snapshot" -> seek_snapshot_StopConsumers
      [] kind = "dead_letter" -> dead_letter_StopConsumers
      [] kind = "cross_protocol_interop" -> interop_StopConsumers

(* StopConsumers of a worker: the loops end, the clients are closed; a failed deletion is *)
(* logged and no more.                                                                    *)
StopConsumers(w) ==
    /\ engine[w.agent].state = "stopping" /\ w.run = engine[w.agent].run /\ ~w.stopped
    /\ workers' = Updated(w, [w EXCEPT !.receiving = {}, !.handles = @ \ Closes(w.kind), !.stopped = TRUE])
    /\ \/ present' = Without(Deletes(w)) /\ UNCHANGED faults
       \/ Deletes(w) # {} /\ Fault /\ UNCHANGED present
    /\ UNCHANGED <<engine, cleaner, verifier, history, hurt, over>>

RunStopped(a) ==
    /\ engine[a].state = "stopping"
    /\ \A w \in workers : w.agent = a /\ w.run = engine[a].run => w.stopped
    /\ engine' = [engine EXCEPT ![a].state = "stopped"]
    /\ over' = [over EXCEPT ![a][engine[a].run] = "shutdown"]
    /\ UNCHANGED <<present, workers, cleaner, verifier, faults, history, hurt>>

(* The process ends, by itself or killed in the middle of a run; a restarted one goes on. *)
ProcessEnds(a) ==
    /\ engine[a].state # "idle"
    /\ IF Active(a) THEN Fault ELSE UNCHANGED faults
    /\ engine' = [engine EXCEPT ![a] = [Idle EXCEPT !.run = engine[a].run]]
    /\ workers' = {w \in workers : w.agent # a}
    /\ over' = [over EXCEPT ![a] = [r \in DOMAIN @ |-> "no"]]
    /\ fresh' = [fresh EXCEPT ![a] = FALSE] /\ hurt' = [hurt EXCEPT ![a] = FALSE]
    /\ UNCHANGED <<present, cleaner, verifier, clean>>

-----------------------------------------------------------------------------
(* cmd/cleanup, run for the prefix of an agent whose process is not running. *)

(* Wrong: the topics are deleted before what depends on them. *)
TopicsFirst == <<TopicRoles, SubRoles, {"snap"}, {"schema"}>>

(* The order of the deletion. *)
Stages == <<SubRoles, {"snap"}, TopicRoles, {"schema"}>>

(* strings.HasPrefix. *)
HasPrefix(s, prefix) == Len(prefix) <= Len(s) /\ \A i \in 1 .. Len(prefix) : s[i] = prefix[i]

(* Wrong: every subscription is listed, whoever created it. *)
MatchingAnySub(a, stage) ==
    {x \in DOMAIN present : /\ x.role \in Stages[stage]
                            /\ x.role \in SubRoles \/ HasPrefix(x.prefix, Prefix[a])}

(* The ids that the connector lists and that begin with the prefix of the agent. *)
Matching(a, stage) ==
    {x \in DOMAIN present : x.role \in Stages[stage] /\ HasPrefix(x.prefix, Prefix[a])}

(* A stage lists what it has to delete; a listing that fails ends the stage. *)
CleanupStage(a) ==
    /\ a \in scenario.cleaned /\ engine[a].state = "idle"
    /\ cleaner[a].todo = {} /\ cleaner[a].stage < Len(Stages)
    /\ LET next == cleaner[a].stage + 1 IN
       \/ /\ cleaner' = [cleaner EXCEPT ![a].stage = next, ![a].todo = Matching(a, next)]
          /\ UNCHANGED faults
       \/ /\ cleaner' = [cleaner EXCEPT ![a].stage = next, ![a].missed = TRUE]
          /\ Fault
    /\ clean' = [clean EXCEPT ![a] = FALSE]
    /\ UNCHANGED <<present, process, verifier, fresh>>

(* One resource is deleted, or the deletion fails and the stage goes on. *)
CleanupDelete(a) ==
    /\ \E id \in cleaner[a].todo :
          \/ /\ Deletable(id)
             /\ present' = Without({id})
             /\ cleaner' = [cleaner EXCEPT ![a].todo = @ \ {id}]
             /\ UNCHANGED faults
          \/ /\ IF Deletable(id) THEN Fault ELSE UNCHANGED faults
             /\ cleaner' = [cleaner EXCEPT ![a].todo = @ \ {id}, ![a].missed = @ \/ Deletable(id)]
             /\ UNCHANGED present
    /\ UNCHANGED <<process, verifier, history>>

CleanupDone(a) ==
    /\ cleaner[a].stage = Len(Stages) /\ cleaner[a].todo = {}
    /\ cleaner' = [cleaner EXCEPT ![a] = NoCleanup]
    /\ clean' = [clean EXCEPT ![a] = ~cleaner[a].missed]
    /\ UNCHANGED <<present, process, verifier, faults, fresh>>

-----------------------------------------------------------------------------
(* cmd/verify, once.  Its ids end in a random suffix, so that nothing else has them. *)

(* What is left to provision when the check of id has failed. *)
LaterChecks(id) == SubSeq(verifier.todo, IF id.role = "topic" THEN 3 ELSE 2, Len(verifier.todo))

(* provision: the teardown is registered when the resource has been created.  An error *)
(* fails the check, whose other resources are not created.                             *)
VerifyProvision ==
    /\ verifier.todo # <<>>
    /\ LET id == Head(verifier.todo) IN
       \/ /\ Ensure(id, 1)
          /\ verifier' = [verifier EXCEPT !.todo = Tail(@), !.registered = Append(@, id)]
          /\ UNCHANGED faults
       \/ /\ Fault
          /\ \/ UNCHANGED present
             \/ Ensure(id, 1)
          /\ verifier' = [verifier EXCEPT !.missed = TRUE, !.todo = LaterChecks(id)]
    /\ UNCHANGED <<process, cleaner, history>>

(* Wrong: the resources are torn down in the order of their creation. *)
OldestRegistered == Head(verifier.registered)

(* cleanup goes from the last resource to the first. *)
NextRegistered == verifier.registered[Len(verifier.registered)]
Front(s) == SubSeq(s, 1, Len(s) - 1)

VerifyCleanup ==
    /\ verifier.todo = <<>> /\ verifier.registered # <<>>
    /\ LET id == NextRegistered IN
       /\ \/ /\ present' = IF Deletable(id) THEN Without({id}) ELSE present
             /\ UNCHANGED faults /\ verifier' = [verifier EXCEPT !.registered = Front(@)]
          \/ /\ Fault /\ UNCHANGED present
             /\ verifier' = [verifier EXCEPT !.registered = Front(@), !.missed = TRUE]
    /\ UNCHANGED <<process, cleaner, history>>

-----------------------------------------------------------------------------
AgentNext(a) ==
    \/ \E c \in scenario.configs[a] : StartRun(a, c)
    \/ StartConsumers(a) \/ StartFails(a) \/ OpenClient(a) \/ EnsureResource(a) \/ Launch(a)
    \/ Ready(a) \/ StopRun(a) \/ ShutdownWorkers(a) \/ RunStopped(a) \/ ProcessEnds(a)
    \/ CleanupStage(a) \/ CleanupDelete(a) \/ CleanupDone(a)

Next ==
    /\ \/ \E a \in Agents : AgentNext(a)
       \/ \E w \in workers : ProvisionProbe(w) \/ SeekRound(w) \/ StopConsumers(w)
       \/ VerifyProvision \/ VerifyCleanup
    /\ UNCHANGED scenario

Spec == Init /\ [][Next]_vars

-----------------------------------------------------------------------------
(* Type correctness; what is left of a plan or of a deletion belongs to the phase it is in. *)
TypeOK ==
    /\ \A x \in DOMAIN present : x.role \in Roles /\ present[x] \in Nat \ {0}
    /\ \A a \in Agents :
          /\ engine[a].state \in {"idle", "starting", "up", "stopping", "stopped", "error"}
          /\ engine[a].plan # <<>> => engine[a].state = "starting" /\ engine[a].kind # "none"
          /\ cleaner[a].stage \in 0 .. Len(Stages)
          /\ \A x \in cleaner[a].todo : x.role \in Stages[cleaner[a].stage]
    /\ \A w \in workers :
          /\ w.agent \in Agents /\ w.run \in 1 .. engine[w.agent].run
          /\ w.handles \subseteq {"client", "subClient", "probeClient", "schemaClient", "native"}
          /\ w.stopped => w.receiving = {}
    /\ faults \in 0 .. MaxFaults

(***************************************************************************)
(* A run whose start met no failing call and was not cancelled does not    *)
(* end in error, whatever the runs before it, killed or failed half way,   *)
(* have left: what exists is taken over (transport/resources.go:143-199),  *)
(* and every resource is created after the one it needs.                   *)
(***************************************************************************)
StartFailsOnlyOnFault == \A a \in Agents : engine[a].state = "error" => hurt[a]

(***************************************************************************)
(* A run that ended through shutdownWorkers has closed every client that   *)
(* its workers opened (StopConsumers of the worker types).                 *)
(***************************************************************************)
HandlesClosed == \A w \in workers : over[w.agent][w.run] = "shutdown" => w.handles = {}

(***************************************************************************)
(* The names being stable, a loop of an earlier run would take messages    *)
(* that the present run waits for.  No subscription is received from by    *)
(* two runs, unless the earlier one ended in setError, which stops nothing *)
(* (engine/engine.go:820-828; StartRunFromConfig then replaces runCancel). *)
(***************************************************************************)
OneReceiver ==
    \A v, w \in workers :
        v.run < w.run /\ v.agent = w.agent /\ v.receiving \cap w.receiving # {}
        => over[v.agent][v.run] = "error"

(***************************************************************************)
(* Whatever runs have left, one cmd/cleanup none of whose calls was lost   *)
(* leaves nothing of the agent (deletion order, cmd/cleanup/main.go:17-18).*)
(***************************************************************************)
CleanupComplete ==
    \A a \in Agents : clean[a] => \A x \in DOMAIN present : x.prefix # Prefix[a]

(***************************************************************************)
(* While a run is up, all that its workers provisioned exists: neither the *)
(* teardown of an earlier run nor the tools run for another agent take it  *)
(* away.  cmd/cleanup/main.go:5-6 promises the latter.                     *)
(***************************************************************************)
OthersUndisturbed ==
    \A w \in workers :
        w.run = engine[w.agent].run /\ engine[w.agent].state = "up"
        => \A i \in DOMAIN Plan(w.kind) :
              Plan(w.kind)[i] \in Roles => Name(w.agent, w.kind, Plan(w.kind)[i]) \in DOMAIN present

(***************************************************************************)
(* A run that starts after a complete cleanup gets its subscriptions as it *)
(* configures them.  Without one they keep the settings of an earlier run  *)
(* (EnsureSubscription takes an existing one, transport/resources.go:188). *)
(***************************************************************************)
SettingsAsAsked ==
    \A w \in workers :
        w.run = engine[w.agent].run /\ engine[w.agent].state = "up" /\ fresh[w.agent]
        => \A x \in w.receiving : present[x] = AskedFor(w.kind, x.role, engine[w.agent].cfg)

(***************************************************************************)
(* cmd/verify leaves nothing when none of its calls failed: a topic goes   *)
(* after its subscription (cmd/verify/main.go:245-249).                    *)
(***************************************************************************)
VerifyLeavesNothing ==
    verifier.todo = <<>> /\ verifier.registered = <<>> /\ ~verifier.missed
    => \A x \in DOMAIN present : x.prefix # <<"verify">>
=============================================================================
