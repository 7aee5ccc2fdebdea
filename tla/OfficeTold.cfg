SPECIFICATION Spec
CONSTANTS
    r1 = r1
    r2 = r2
    i1 = i1
    i2 = i2
    i3 = i3
    u1 = u1
    u2 = u2
    None = None
    Backlog <- MCBacklog
    Shared <- MCShared
    Circles <- MCCircles
    Crew <- MCCrew
    Support <- MCSupport
    Team <- MCTeam
    Tree <- MCTree
    Positions <- MCPositions
    Quality <- MCQuality
    Improvement <- MCImprovement
    Staff <- MCStaff
    Landscape <- MCLandscape
    Notices <- MCNotices
SYMMETRY Symmetry
INVARIANTS
    ToldMayRead
CHECK_DEADLOCK FALSE
