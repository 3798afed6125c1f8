SPECIFICATION ChatSpec
CONSTANTS
    Contacts = {ann, ben}
    Names <- MCNames
    Lines <- MCLines
    Words = {"text", "/accept", "/add", "/quit"}
    MaxLines = 2
    MaxEvents = 1
    ann = ann
    ben = ben
    pal = pal
    Nobody = Nobody
CHECK_DEADLOCK FALSE
INVARIANTS
    HandledAsTyped
    ShownNameResolves
    ActsOnDrawn
PROPERTIES
    LineHandled
    Stops
