\* Every table of up to four lines, one import or refresh between the queries; the
\* caps are small enough to be met in each tier.
SPECIFICATION Spec
CONSTANTS
    Rows <- MCRows
    MaxRows = 4
    Requests <- MCRequests
    Scores = {15}
    Ranks = {17, 30}
    Limits <- MCLimits
    MaxGroupsPerSchool = 1
    MaxMajorsPerGroup = 2
    MinRanked = 2
    DefaultPlanSize = 4
    PlanSizeCap = 5
    RefreshLimit = 1
    MaxChanges = 1
INVARIANTS PlacesAreSound BestFillThePlan GroupsAreComplete ExcludedIsNotShown PoolIsConsistent
