SPECIFICATION Spec
CONSTANTS
    Release = {24, 25}
    Script <- Scripts
    Repeatable <- RepeatableScripts
    Normalized = 22
    Legacy = {}
    None = None
INVARIANT StartsUp
