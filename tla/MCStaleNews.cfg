\* The list on the page is not the news fetched last.
SPECIFICATION HomeSpec
CONSTANTS
    Article = {a, b}
    MaxAttempts = 3
    MaxVisits = 2
    MaxFetches = 5
INVARIANT FetchedNewsAreShown
CHECK_DEADLOCK FALSE
