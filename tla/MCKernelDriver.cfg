CONSTANTS
    Openers = {o1, o2}
    None = None
SPECIFICATION Spec
INVARIANT DetachedIsReattached
