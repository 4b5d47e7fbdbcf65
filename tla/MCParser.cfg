CONSTANTS
    Tokens <- MCTokens
    Lower <- MCLower
    IntegerOf <- MCIntegerOf
    Length <- MCLength
    Printable <- MCPrintable
    Inputs <- MCInputs
    I64Max = 4000
    MaxKeyBytes = 1
    MaxValueBytes = 2
    MaxClientMetadataBytes = 2
    None = None
SPECIFICATION Spec
INVARIANTS
    SetMeansItsOptions
    HelloMeansItsOptions
    KeysAsAdvertised
