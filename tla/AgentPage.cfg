CONSTANTS
  MaxJobs = 2
  Users = {"operator", "viewer"}
  Buttons = {"reboot"}
  MaxChanges = 1
  MaxFaults = 2
SPECIFICATION FairSpec
INVARIANTS
  InputGoesToShown
  NoOrphanSession
  AnswersAreFresh
  SetAsideOnlyIfStale
PROPERTIES
  PageCatchesUp
