SPECIFICATION Spec
CONSTANTS
  NoFile = NoFile
  BadFile = BadFile
  Ids = {1, 2}
  Cmds = {"ls", "rm"}
  Destructive = {"rm"}
  AgentIds = {"bot"}
  Day = 4
  Calls = {c1}
  Worlds <- MCWorlds
  Kinds <- MCKinds
  Asked <- MCAsked
  Globals <- MCGlobals
  Locals <- MCLocals
  Routers <- MCRouters
  MaxEdits <- MCMaxEdits
  MaxEvents <- MCMaxEvents
  Tailed <- MCTailed
  TailLimit = 2
INVARIANT VerdictsObeyPolicy
INVARIANT RunsAreSanctioned
INVARIANT ResultsAreComplete
INVARIANT ScriptsVanish
INVARIANT TailShowsEachOnce
CHECK_DEADLOCK FALSE
