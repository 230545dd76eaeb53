SPECIFICATION Spec
CONSTANTS
  Voters = {v1, v2}
  VoterIds = {v1, v2, gone}
  Candidates = {c1}
  CandidateIds = {c1, c9}
  VoteIds = {i1, i2, i3}
  Threads = {t1, t2}
  NoThread = NoThread
  MaxCrashes = 2
  MaxFailures = 1
SYMMETRY Symmetry
INVARIANTS IInv OneBallotPerVoter AckedVotesSurvive LossesAccountedFor ReadYourVote ElectionSettled OpenedBeforeBallots
PROPERTIES BoxSpec AtomicSpec SecretKept
