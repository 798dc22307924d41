\* Three files to write, two users, three places for a file.
SPECIFICATION Spec
CONSTANTS
    Texts <- SmallTexts
    NoFile = NoFile
    Users = {"ann", "bob"}
    AdminFiles <- SmallAdminFiles
    Custom = "custom"
INVARIANT TypeOK
PROPERTY StartFindsWhatWasKept
