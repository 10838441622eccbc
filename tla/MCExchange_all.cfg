SPECIFICATION Spec
CONSTANTS
    Requests = {r1, r2}
    Writers = {w1, w2}
    None = None
    Invalid = Invalid
    Unset = Unset
    Unreadable = Unreadable
    Exit = Exit
    Dashed = "-x"
    Second = 4
    Half = 2048
    AsInt <- MCAsInt
    AsSeconds <- MCAsSeconds
    AsBool <- MCAsBool
    Prefixed <- MCPrefixed
    HostOf <- MCHostOf
    KeyFiles <- MCKeyFiles
    AgentInputs <- MCAgentInputs
    ServerInputs <- MCServerInputs
SYMMETRY Symmetry
\* A run ends when every request is done, or the server has not started.
CHECK_DEADLOCK FALSE
INVARIANTS TypeOK LayersOverride AgentUnderstood NeverMisread AnswersNotMixed
PROPERTY IntervalsPositive
