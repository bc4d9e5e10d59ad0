SPECIFICATION Spec
CONSTANTS
    s1 = s1
    s2 = s2
    f1 = f1
    Ops = {o1, o2}
    Stages = {s1}
    Followers = {f1}
    FollowersOf <- OneFollower
    Capable = {s1}
    Kinds = {"query"}
    Outcomes = {"ok"}
    None = None
    MayGiveUp = FALSE
SYMMETRY OpSymmetry
INVARIANTS ReplyIsOfThisOp
CHECK_DEADLOCK FALSE
