SPECIFICATION Spec
CONSTANTS
    Entities = {a, b}
    MaxEffects = 2
    MaxAge = 1
    MaxOpen = 2
    None = None
INVARIANTS ShownIsOwn
