SPECIFICATION AgentToolsSpec
CONSTANTS
  Sigs = {s1, s2}
  MaxRounds = 3
  MaxNudges = 3
  MaxRepairs = 2
  agent1 = agent1
  agent2 = agent2
  Callers = {agent1, agent2}
  Tools = {"write", "deploy"}
  Gated = {"deploy"}
  Preapproved <- Started
  Unretried = {"write"}
  Threshold = 2
  Retries = 1
  NoTool = none
  MaxCalls = 3
  MaxStops = 1
INVARIANTS
  GatesAreKept
  CircuitIsSound
  RunAddsUp
PROPERTIES
  RunsAndCallsEnd
  NothingGoesInCircles
