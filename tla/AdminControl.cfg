SPECIFICATION FairSpec
CONSTANTS
    s1 = s1
    s2 = s2
    f1 = f1
    Ops = {o1, o2}
    Stages = {s1, s2}
    Followers = {f1}
    FollowersOf <- OneFollower
    Capable = {s1}
    Kinds = {"update"}
    Outcomes = {"ok"}
    None = None
    MayGiveUp = TRUE
INVARIANTS SuccessIsTruthful RanksAgreeOnOrder
PROPERTIES AdminEnds StageComesBack
CHECK_DEADLOCK FALSE
