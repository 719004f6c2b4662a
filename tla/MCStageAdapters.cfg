SPECIFICATION Spec
CONSTANTS
  Services = {"s1", "s2"}
  Hosts <- MCHosts
  Arm64 <- MCArm64
  ClusterHosts <- MCClusterHosts
  CdLimit = 10
  KubectlTimeout = 2
  EvidenceTime = 1
  NodeWait = 1
  Settle = 2
  Poll = 1
  BuildLimit = 10
  DeadlineReserve = 4
  CancelGrace = 1
  PublishReserve = 1
  RegistryTimeout = 2
  BuildPoll = 1
  ReadWaits = 2
  MaxPlacements = 48
  Topics = {"own", "other", "shared", "odom"}
  TopicConstant = {"odom"}
  CvLimit = 2
  TeardownReserve = 1
  Described = {"s1", "s2", "s3"}
  Descriptions <- MCDescriptions
  Profile <- MCProfile
  Requirements = {"r1"}
  TopK = 2
  CdCases <- MCCdCases
  BuildCases <- MCBuildCases
  CvCases <- MCCvCases
  CompositionCases <- MCCompositionCases
INVARIANTS NothingStaysBehind ReservesAreKept VerdictIsEarned RunsDoNotMix DiscoveryIsTraced BlueprintIsGrounded VerdictsAreAccepted
PROPERTIES AdapterEnds
CHECK_DEADLOCK FALSE
