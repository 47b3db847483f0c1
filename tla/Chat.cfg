SPECIFICATION Spec
CONSTANTS
    Chats = {a, b}
    Handlers = {h1, h2}
    Messages = {m1, m2}
    MaxFailures = 1
    MaxDeletes = 1
    MaxStops = 1
    MaxCommands = 1
CONSTRAINT InScenario
INVARIANT MessagesAreKept
PROPERTY AcceptedIsRecorded
CHECK_DEADLOCK FALSE
