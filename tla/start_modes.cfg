SPECIFICATION AuthSpec
CONSTANTS
    Envs <- Environments
    FlagSets <- CommandLines
    Arguments <- Positionals
    MaxPort = 3
INVARIANTS TypeOK ModeIsComplete ModeIsRequested FlagsPrevail CredentialsAsConfigured
