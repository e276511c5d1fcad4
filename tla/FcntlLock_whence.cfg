SPECIFICATION Spec
CONSTANTS
    Proc = {p1, p2}
    Args <- CallsWithWhence
INVARIANTS CommandIsCmd
CHECK_DEADLOCK FALSE
