CONSTANTS
    Nothing = Nothing
    App = app
    Service = {app, db}
    app = app
    db = db
    HistoryLimit = 2
    Answers <- MCAnswers
    MaxTag = 3
    MaxChanges = 3
    MaxFaults = 2
SPECIFICATION ChangesSpec
INVARIANT SaidIsTrue
PROPERTY GoBackIsExact
CHECK_DEADLOCK FALSE
