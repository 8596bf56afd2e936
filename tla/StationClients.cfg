SPECIFICATION Spec
CONSTANTS
  Procs = {p, q}
  MaxDac = 3
  Voltages = {0, 3}
  MinStep = 1
  MedStep = 1
  MaxStep = 2
  MinReadback = 1
  MedReadback = 2
  MaxReadback = 2
  MinTol = 1
  MedTol = 1
  MaxTol = 2
  Noise = 1
  w1 = w1
  w2 = w2
  Writers <- MCWriters
  Registers <- MCWriters
  c1 = c1
  c2 = c2
  Channels <- MCChannels
  Contents <- MCContents
  QueueSize = 1
  Bound <- MCBound
  Addresses = {1, 2}
  GateAge = 2
  MaxDelay = 1
  Retries = 2
  StreakTrigger = 3
  h1 = h1
  h2 = h2
  HostList <- MCHosts
  Ports = {1, 2}
  DefaultPort = 1
  MaxFailures = 2
  Lines = 2
INVARIANTS ArchiveIsSound TelemetryIsHonest PolledWhenPowered HealthIsHonest RightStation
PROPERTIES WritesAreBounded RampDownEnds
