\* Five calls are enough for three dialogs and two snack bars to overlap in
\* every order.  The system stops once all calls have been made and closed.
CONSTANT MaxRequests = 5
SPECIFICATION DialogSpec
INVARIANTS
    DialogTypeOK
    NewestIsAnswerable
PROPERTIES
    AnsweredByOwnButton
    CoveredPressIsLost
    ImplementsReplySlot
CHECK_DEADLOCK FALSE
