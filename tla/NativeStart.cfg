SPECIFICATION Spec
CONSTANTS
    source = source
    created = created
    old = old
    child = child
    NoThread = NoThread
    Panes <- MCPanes
    Threads <- MCThreads
    Src <- source
    Tgt <- created
    Old <- old
    Child <- child
    MaxTouches = 3
INVARIANTS
    LeftoversAreReported
    AnswersAreTrue
PROPERTIES
    PromptIsSafe
