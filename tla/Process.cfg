SPECIFICATION ProcessSpec
CONSTANTS
    Parts = {"lifecycle", "ticks", "cache", "keys", "fan_out", "provisioning", "assembly",
             "processing", "settings", "channels"}
    c1 = c1
    c2 = c2
    k1 = k1
    never = never
    noKey = noKey
    l_Names = {"root", "b"}
    l_Root = "root"
    l_Critical = {}
    Order <- MCOrder
    NameOf <- MCNameOf
    KindOf <- MCKindOf
    l_Consumes = {"b_eventing"}
    Policies = {"critical"}
    l_MaxFaults = 2
    l_MaxFlips = 1
    t_Replicas = {"r1", "r2"}
    MinuteUnits = 3
    Grace = 1
    MaxWait = 1
    MaxSkew = 1
    t_MaxTime = 5
    t_MaxFaults = 1
    Callers = {c1, c2}
    d_Keys = {k1}
    Never = never
    Ttls = {0, never}
    d_MaxTime = 1
    MaxCalls = 3
    Jobs = {"j1", "j2"}
    NoKey = noKey
    Sources = {"remote", "job", "env"}
    MaxKeys = 3
    k_MaxFaults = 2
    f_Handlers <- MCOffered
    f_Topics = {"t", "v", "w"}
    f_Dedup = {"a"}
    f_Publishing = {"a"}
    Deliveries <- MCDeliveries
    f_MaxFlips = 1
    p_Clients = {"a", "b", "x"}
    Wanted <- MCWanted
    Topic <- MCTopic
    Durable <- MCDurable
    Wider <- MCWider
    OperatorAdds = {"all"}
    p_MaxFaults = 1
    Deployments <- MCDeployments
    Builders <- MCBuilders
    ReservedNames <- MCReserved
    e_Agents = {"a", "b"}
    e_Handlers <- MCHandlers
    e_Dedup = {"a"}
    Types <- MCTypes
    Publishable = {"x"}
    MaxDeliver = 2
    e_MaxFaults = 2
    s_Agents <- MCAgents
    Group <- MCGroup
    Secrets <- MCSecrets
    Fragments <- MCFragments
    Environment = "production"
    Environments = {"staging", "production", "test"}
    ProcessKeys = {"log_level", "app_environment"}
    IdentityKeys = {"pod_name"}
    SharedTables = {"cache", "runtimes", "runtime"}
    s_Asked <- MCAsked
    Built <- MCBuilt
    Validated <- MCValidated
    c_Replicas <- MCReplicas
    c_Runs <- MCRuns
    Standing <- MCStanding
    MaxStarts = 3
INVARIANTS ConsumesWhenStarted RunOncePerSlot RetriesWithNewKey AnswerCoversAgents BoundSubjectsCarried OwnOrShared ServedAsDeclared ValidatorAgrees ResultsKeptOnce ReadsOwnOrShared ChannelsHeld
PROPERTIES StoppedForGood AgentsRecover ImplementsAtomicCache
CHECK_DEADLOCK FALSE
