CONSTANTS
    p1 = p1
    p2 = p2
    p3 = p3
    r1 = r1
    r2 = r2
    shut = shut
    q1 = q1
    s1 = s1
    s2 = s2
    h1 = h1
    h2 = h2
    c1 = c1
    c2 = c2
    set = set
    k1 = k1
    k2 = k2
    k3 = k3
    k4 = k4
    t1 = t1
    t2 = t2
    o1 = o1
    o2 = o2
    n1 = n1
    n2 = n2
    tool = tool
    w1 = w1
    w2 = w2
    scrape = scrape
    a = a
    b = b
    c = c
    d = d
    e = e
    f = f
    g1 = g1
    g2 = g2
    g3 = g3
    Methods <- MCMethods
    Retries = 3
    RetryOnStatus <- MCDefaultRetryOnStatus
    Statuses <- MCStatuses
    Signals <- MCSignals
    Pages <- MCPages
    First = p1
    Runs <- MCRuns
    Stops <- MCStops
    Requests <- MCRequests
    Serves <- MCServes
    Handlers <- MCHandlers
    Calls <- MCCalls
    Setters <- MCSetters
    Adds <- MCAdds
    SkillOf <- MCSkillOf
    ToolOf <- MCToolOf
    Multi <- MCMulti
    LateKey <- MCNone
    StepObjs <- MCStepObjs
    StepNames <- MCStepNames
    FlowTools <- MCFlowTools
    Crawls <- MCCrawls
    Scrapes <- MCScrapes
    Urls <- MCUrls
    WithText <- MCWithText
    StartUrl <- MCStartUrl
    LinksOf <- MCLinksOf
    MaxPages = 5
    MaxDepth = 2
    CacheMaxSize = 2
    ToolCalls <- MCToolCalls
    Questions = 3
    End = End
    Malformed = Malformed
    NoServer = NoServer
    Seed = Seed
    Unnamed = Unnamed
    User = User
    Nobody = Nobody
    NoRef = NoRef
    Following = Following
SPECIFICATION SdkSpec
INVARIANTS
    SdkTypesOK
    NotRepeatedOnStatus
    WalkIsSound
    NewestRunIsReachable
    ChannelClosedOnce
    CopiedDataIsPrivate
    SkillToolsSound
    FlowJudgedRightly
    CachedIsEvictable
    CrawlIsExact
    AnswersMatchQuestions
PROPERTIES
    CancelledRequestEnds
    ServingEnds
    AskedRunEnds
    RequestsAreAnswered
CHECK_DEADLOCK FALSE
