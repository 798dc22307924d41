\* A greeter whose login is answered after its timeout.
SPECIFICATION Spec
CONSTANTS
    Texts <- MCTexts
    Worlds <- MCWorlds
    GreeterUid = 33
    MaxEdits = 0
    PowerActions = {"reboot"}
    Backlog = 1
    NoLine = NoLine
    Nothing = Nothing
    EndOfFile = EndOfFile
    NoSession = NoSession
    NoChoice = NoChoice
PROPERTY
    SuccessReachesItsCaller
