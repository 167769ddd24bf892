SPECIFICATION ActorSpec
CONSTANTS
    MaxCall = 1
    MaxJoin = 2
    MaxTrouble = 2
    MaxFaults = 2
    MaxExpire = 1
    MaxRow = 2
    MaxEvents = 3
    a1 = a1
    a2 = a2
    s1 = s1
    s2 = s2
    s3 = s3
    Actor = {a1, a2}
    ByHandle <- MCByHandle
    Operator = a2
    Query <- MCQuery
    Limit = 2
    MaxSearch = 2
    MaxChange = 2
    Blank = Blank
    Plain = Plain
    Session = {s1, s2, s3}
    Recent <- MCRecent
    HandleOf <- MCHandleOf
    NeverJoined = NeverJoined
    Field = {description, avatar}
    Avatar = avatar
    ProfileEdit = {e1, e2}
    MaxReplay = 1
    Uri = {1, 2, 3}
    self = self
    bob = bob
    bobDid = bobDid
    Subject = {self, bob}
    Self = self
    Time = {1, 2}
    MaxLog = 4
    MaxReread = 1
    MaxRun = 2
    MaxCommand = 3
    MaxShared = 1
    Key = {bob, bobDid}
    SubjectOf <- MCSubjectOf
    Account = {"h1", "h2"}
    Nobody = Nobody
    Settled = Settled
INVARIANTS OneHandle MemoryOnDisk Unprovoked NotStranded RetirementKept OffersWhatIsTyped AsksFirst StartsWhatWasNamed SavedIsShown AlertsExact Converged AccountKept FollowsKnown
PROPERTIES CursorKept AbsSpec
CHECK_DEADLOCK FALSE
