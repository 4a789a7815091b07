SPECIFICATION MCSpec
CONSTANTS
  a = a
  binary = binary
  vendored = vendored
  ours = ours
  theirs = theirs
  alice = alice
  mallory = mallory
  keep = keep
  skip = skip
  Repos = {ours, theirs}
  Users = {alice, mallory}
  Tags = {keep, skip}
  Hooks <- MCHooks
  Policies <- MCPolicies
  NotJson = NotJson
  NoReview = NoReview
  Jobs <- MarkedJobs
  Ignored <- MCIgnored
  Outputs <- MCOutputs
  MaxLost = 0
INVARIANTS
  FindingsAreShown
