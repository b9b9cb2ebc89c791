\* Nested values over two names and two texts, longer texts over seven characters.
CONSTANTS
    Names = {"reason", "frame"}
    Letters = {"x"}
    MaxText = 2
SPECIFICATION Spec
INVARIANTS
    ParsesTheGrammar
    PathsLead
    NothingIsLost
    FieldsAreFound
