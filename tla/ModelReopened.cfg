\* The person stops, and the viewer rests.
SPECIFICATION Spec
CONSTANTS
    None = None
    SitePages = {"model"}
    MaxClicks <- MCMaxClicks
    Tries <- MCTries
    RateTries = 1
    Losses <- MCLosses
    Ranges <- MCRanges
    Span <- MCSpan
    Options <- MCOptions
    Minute = 2
    TenMinutes = 2
    FirstData = 0
    Opened = 11
    LastMinute = 13
    PanelPages = {0, 1}
    Filters = {"f", "g"}
    MaxReads = 4
    Times = {0, 1, 2}
    Today <- MCToday
    First = {"c1"}
    Fresh = {"n1", "n2"}
    Home = "s1"
    Elsewhere = "s2"
    GuideIds = {"g1", "g2", "g3"}
    Objects = {1, 2, 3}
    Speeds = {1, 2, 3, 4, 5, 6, 7, 8, 9, 10, 11}
    TableRows = {"x", "y"}
    TableFilters = {"open", "all"}
    MapNames = {1, 2}
    Searches = {2}
    PageSize = 1
    Endpoints = {1, 2, 3}
    Texts = {"ze_a", "ze_b"}
    ListPages = {0, 1}
CHECK_DEADLOCK FALSE
INVARIANTS OnlyProblematicRemoved
