----------------------------- MODULE MCPlatform -----------------------------
(* Instances of Platform. *)
EXTENDS Platform, TLC

CONSTANTS auth, kelasi
MCSlots == {"boot", "tick", "tock"}
MCProjections == {"registry", "health", "alerts", "logs"}

NoFaults == [k \in {"flap", "lost", "gone", "ack", "emit", "publish", "restart"} |-> 0]
Gone(n) == [NoFaults EXCEPT !["gone"] = n]

Mode(creds, projections, does, faults) ==
    [creds |-> creds, upstream |-> TRUE, overlap |-> FALSE, prompt |-> FALSE, projections |-> projections,
     versions |-> {}, does |-> does, probed |-> {}, samples |-> 0, faults |-> faults]

ClientModes == {
    Mode("both", {"registry"}, {}, [NoFaults EXCEPT !["flap"] = 3, !["lost"] = 2]),
    [Mode("both", {"registry"}, {}, [NoFaults EXCEPT !["flap"] = 2, !["lost"] = 1]) EXCEPT !.overlap = TRUE],
    [Mode("both", {"registry"}, {}, [NoFaults EXCEPT !["flap"] = 1, !["lost"] = 1, !["restart"] = 1]) EXCEPT !.upstream = FALSE],
    Mode("bootstrap", {"registry"}, {}, [NoFaults EXCEPT !["flap"] = 2, !["restart"] = 1]),
    Mode("dedicated", {"registry"}, {}, [NoFaults EXCEPT !["flap"] = 2, !["restart"] = 1])}

Registry(does, faults) == [Mode("connected", {"registry"}, does, faults) EXCEPT !.versions = {1}]

Prompt(does, faults) == [Registry(does, faults) EXCEPT !.prompt = TRUE]

RegistryModes == {
    Registry({"beats", "leaves"}, Gone(2)),
    Registry({"leaves"}, [Gone(1) EXCEPT !["ack"] = 1]),
    Prompt({"beats", "expires"}, [Gone(1) EXCEPT !["restart"] = 1]),
    Prompt({"leaves", "expires"}, [Gone(1) EXCEPT !["ack"] = 1, !["restart"] = 1]),
    [Prompt({"leaves", "expires"}, [Gone(1) EXCEPT !["lost"] = 1, !["restart"] = 1]) EXCEPT !.versions = {1, 2}],
    [Prompt({"beats", "leaves"}, Gone(1)) EXCEPT !.probed = {auth}]}

Health(does, faults) == [Mode("connected", MCProjections, does, faults) EXCEPT !.versions = {1}, !.prompt = TRUE, !.samples = 3]

Unlogged(does, faults) == [Health(does, faults) EXCEPT !.projections = {"registry", "health", "alerts"}]

HealthModes == {
    Health({}, Gone(1)),
    Unlogged({"leaves"}, Gone(2)),
    [Health({}, [Gone(1) EXCEPT !["restart"] = 1]) EXCEPT !.projections = {"registry", "health"}],
    [Unlogged({}, [Gone(1) EXCEPT !["restart"] = 1]) EXCEPT !.samples = 2],
    [Unlogged({}, [Gone(1) EXCEPT !["restart"] = 1, !["ack"] = 1]) EXCEPT !.samples = 1],
    Unlogged({"leaves"}, [Gone(1) EXCEPT !["ack"] = 1]),
    Health({"leaves"}, [Gone(1) EXCEPT !["publish"] = 1]),
    Health({"leaves"}, [Gone(1) EXCEPT !["emit"] = 1])}

MetricModes == {Mode("connected", {}, {"metrics"}, [NoFaults EXCEPT !["publish"] = 1])}

ReplayModes == {
    [Health({}, [Gone(1) EXCEPT !["restart"] = 1]) EXCEPT !.samples = 1]}

MCModes == ClientModes \cup RegistryModes \cup HealthModes \cup MetricModes
=============================================================================
