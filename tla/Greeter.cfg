\* One request in service and one waiting, so that a third caller blocks; the
\* world changes once.
SPECIFICATION LiveSpec
CONSTANTS
    Texts <- MCTexts
    Worlds <- MCWorlds
    GreeterUid = 33
    MaxEdits = 1
    PowerActions = {"reboot"}
    Backlog = 1
    NoLine = NoLine
    Nothing = Nothing
    EndOfFile = EndOfFile
    NoSession = NoSession
    NoChoice = NoChoice
INVARIANTS
    TypeOK
    ListsDistinct
    EverySessionOffered
    SessionRunsAsAccount
    GrantedIsLaunched
PROPERTIES
    ServedChoiceRuns
    PowerReachesLogind
    LinkRefinement
    CallsReturn
