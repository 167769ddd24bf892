SPECIFICATION PostsSpec
CONSTANTS
    None <- MCNone
    Uri <- MCUri
    AuthorOf <- MCAuthorOf
    Me = "ann"
    Followed <- MCFollowed
    Other = "bob"
    Time = {1, 2}
    Record <- MCRecord
    Limit = 1
    MaxLog = 3
    MaxReplay = 1
    MaxPost = 4
    Backlog = 1
    PollLimit = 2
    SeenCap = 2
    IndexCap = 2
    MaxMove = 3
    MaxFailure = 1
    MaxCall = 4
    MaxAtOnce = 1
    MaxRemoval = 1
INVARIANTS PagesExact Converged SinceCovers ThreadExact ScreenExact OnePostPerCall ThreadWhole
PROPERTIES RowsAhead EventuallyShown
CHECK_DEADLOCK FALSE
