SPECIFICATION FairListSpec
CONSTANTS
  MaxJobs = 2
  OfAgent = {1, 2}
  Views = {"queued", "tab"}
  PerPage = 1
  MaxPosts = 1
INVARIANTS
  NewJobIsListed
PROPERTIES
  ListCatchesUp
