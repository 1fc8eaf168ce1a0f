\* Two articles; five answers of getNews over two visits of the page, and three attempts
\* to initialise Firebase.  The system stops when the page has settled.
SPECIFICATION HomeSpec
CONSTANTS
    Article = {a, b}
    MaxAttempts = 3
    MaxVisits = 2
    MaxFetches = 5
INVARIANTS HomeTypeOK BlankOnlyWhileTrying NewsAreCached
PROPERTIES BlankScreenEnds SpinnerStops
CHECK_DEADLOCK FALSE
