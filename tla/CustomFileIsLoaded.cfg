SPECIFICATION Spec
CONSTANTS
    Texts <- SmallTexts
    NoFile = NoFile
    Users = {"ann", "bob"}
    AdminFiles <- SmallAdminFiles
    Custom = "custom"
PROPERTY CustomFileIsLoaded
