SPECIFICATION FairStartSpec
CONSTANTS
  Root <- MCRoot
  Hierarchies = {"memory", "cpu"}
  CgroupOf <- MCCgroupOf
  Files <- MCFiles
  Absent <- MCAbsent
  Specs <- MCSpecs
  AgentMounts <- MCAgentMounts
  Probes <- MCProbes
INVARIANTS
  RightPid
  WordsNotMixedUp
  AlwaysInCgroup
  SetUpAsSpecified
  AgentUntouched
PROPERTIES
  StartReturns
  FinalGetsThere
CHECK_DEADLOCK FALSE
