SPECIFICATION Spec
CONSTANTS
  Voters = {v1}
  VoterIds = {v1, gone}
  Candidates = {c1}
  CandidateIds = {c1, c9}
  VoteIds = {i1}
  Threads = {t1, t2}
  NoThread = NoThread
  MaxCrashes = 0
  MaxFailures = 1
INVARIANTS ErrorMeansNotRecorded
