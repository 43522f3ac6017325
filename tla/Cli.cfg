SPECIFICATION Spec
CONSTANTS
    Declares <- MCDeclares
    Runs <- MCRuns
    HasVersion = TRUE
    Kind <- MCKind
    Default <- MCDefault
    SecretFlags = {"pin"}
    RequiredFlags = {"pin"}
    ConfigFlag = "config"
    EnvKey <- MCEnvKey
    EnvPrefix = "APP"
    Syntax <- MCSyntax
    IntOf <- MCIntOf
    Entries <- MCEntries
    Worlds <- MCWorlds
INVARIANTS
    TypeOK
    InputsReachRun
    FailsClosed
    LoadsExactlyWellFormed
    AskedAsNamed
    CreateMakesPairs
