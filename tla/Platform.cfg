SPECIFICATION PlatformSpec
CONSTANTS
  \* Sessions
  Tokens = {s1, s2}
  Requests = {r1}
  Resetters = {p1}
  ResetMark = 1
  SuspendMark = 1
  ShortTTL = 1
  LongTTL = 1
  LinkTTL = 1
  MaxEra = 1
  MaxTick = 1
  \* Accounts
  People = {p1}
  Joiners = {j1, j2}
  Invitations = {i1, i2}
  \* OrgTree
  Nodes = {r, a, b}
  Root = r
  Area = a
  Users = {o, v}
  Owner = o
  Editors = {w1}
  Budgets = {1}
  MaxGrants = 2
  \* LocalGroups
  Emails = {p1}
  Named = {n1}
  Minted = {m1}
  Bonds = {b1}
  Scripts = {s1}
  Removals = {d1}
  \* ScanJobs
  Jobs = {j1, j2}
  Tools = {t1, t2}
  DailyLimit = 1
  MaxDay = 1
  MaxCrashes = 1
  \* GraphBuilds
  Urls = {u1, u2}
  Builds = {b1, b2}
  Builders = {w1, w2}
  MaxRows = 2
  MaxDeaths = 1
  \* League
  Engineers = {e1}
  Submissions = {s1, s2}
  Scores = {1, 2}
  MaxAttempts = 1
  Xp = 1
  Items = {i1}
  Prices = {1}
  Orders = {o1, o2}
  \* Champions
  Champs = {c1, c2}
  Askers = {a1}
  Developers = {d1}
  Toggles = {t1, t2}
  Nobody = nobody
  \* Librarian
  Docs = {d1, d2}
  Topics = {t1}
  Ingesters = {i1}
  Triggers = {g1}
  Loop = loop
  Erasers = {x1}
  Readers = {r1}
  NoDoc = nodoc
  NoTopic = notopic
  \* Memory
  Devs = {v1}
  Wings = {w1, w2, w3}
  Drawers = {dr1}
  Contents = {e1, e2}
  KgNodes = {n1, n2}
  KgEdges = {g1}
  Tunnels = {x1, x2}
  Edits = {f1, f2}
  Walks = {k1}
  Depth = 2
  NoDev = nodev
  NoText = notext
  \* McpRegistry
  Servers = {s1}
  ServerUrls = {u1, u2}
  ToolNames = {n1}
  Teams = {m1}
  Pings = {p1, p2}
  NoUrl = nourl
  \* McpTransport
  Streams = {s1}
  Posts = {k1}
  Callers = {c1, c2}
  Processes = {p1, p2}
  NoStream = nostream
  \* Migrations
  Releases = {1, 2, 3, 4, 5, 6, 7, 8, 9, 10, 11, 12, 13, 14, 15, 16, 17, 18, 19, 20, 21,
              22, 23, 24, 25, 26, 27, 28, 29, 30, 31, 32, 33, 34, 35, 36}
  \* EventIngest
  Events = {e1, e2}
  Consumers = {r1, r2}
  Traces = {t1}
  Deliveries = {d1}
  TickSeconds = 100000
  MaxTicks = 1
  MaxConsumerCrashes = 1
  Outcomes <- SampleOutcomes
  \* Alerts
  Units = {u1}
  Checkers = {c1, c2}
  MaxDays = 1
  MaxAlerts = 1
  \* ToolAgents
  Chats = {c1}
  Workers = {w1}
  Slots = {s1, s2}
  MaxRounds = 2
  PoolSize = 1
  Absent <- HeadAbsent
  MaxRuns = 1
  \* Startup
  Instances = {a1, a2}
  SeedRules = {g1, g2}
  SeedModels = {m1}
  SeedServers = {x1}
  MaxStarts = 2
  MaxEdits = 2
  \* AgentRegistry
  Slugs = {a1, a2}
  Name = a1
  Calls = {c1, c2}
  NoAgent = NoAgent
  \* EventFeeds
  Watchers = {w1}
  Notifiers = {n1, n2}
  Listeners = {l1}
  MaxWorkerCrashes = 1
  \* ProviderKeys
  Admins = {a1}
  Saves = {k1, k2}
  Providers = {1, 2}
  WithExtra = {2}
  Deployments = {1, 2}
  Unlisted <- SampleUnlisted
  NoSave = NoSave
  \* WorkflowAuthoring
  Workflows = {f1}
  Authors = {c1, c2}
  Submitters = {s1, s2}
  Dags <- SampleDags
  AgentSlugs = {a1}
  RunLimit = 1
  MaxImages = 1
  Unnumbered = Unnumbered
  \* Achievements
  Talks = {t1, t2}
  Staff = {d1}
  LastDay = 2
  StreakDays = 2
  Passes = {r1}
  Counts <- SampleCounts
INVARIANTS
  TypeOK
  JoinedOwnsAccount
  TreeSound
  ScansSound
  ReadyWasBuilt
  LeagueSound
  ChampionsSound
  KeyedItemHasVector
  MemorySound
  AnswerReachesAsker
  MigrationsConverge
  QualityIsCurrent
  FlaggedIsReported
  NoToolOutlivesItsRound
  SettingsHold
PROPERTIES
  MarkerHolds
  ToolStaysOff
  NeverBackwards
CHECK_DEADLOCK FALSE
