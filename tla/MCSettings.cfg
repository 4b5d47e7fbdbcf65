CONSTANTS
    Cpus = 4
    UsizeMax <- MCUsizeMax
    U32Max <- MCU32Max
    Unset = Unset
    Tokens <- MCTokens
    NumberOf <- MCNumberOf
    LoopbackOf <- MCLoopbackOf
    Length <- MCLength
    CommandLines <- MCCommandLines
    Environments <- MCEnvironments
    DotEnvs <- MCDotEnvs
    LocalEnvs <- MCLocalEnvs
    Embedded <- MCEmbedded
SPECIFICATION SettingsSpec
INVARIANTS
    RunsAsStated
    StartsExactlyWhenLegal
    BudgetsExact
