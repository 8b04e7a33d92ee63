CONSTANTS
    Envelopes = {"first", "second"}
    Source <- MCSource
    SourceSequence <- MCSourceSequence
    SchemaOf <- MCSchemaOf
    MaxSchemas = 1
    Consumers = {c1}
    Poison = {"second"}
    Workers = {w1, w2}
    Replays = {r1}
    ReplayRange <- MCRange
    MaxEvents = 2
    MaxAttempts = 2
    MaxDeadLetters = 1
    MaxReplayEvents = 2
    MaxRestarts = 1
    None = None
SPECIFICATION Spec
INVARIANTS
    NoEventIsSkipped
    NoEarlyDeadLetter
PROPERTIES
    PruneKeepsUnhandled
    ConsumersProgress
