SPECIFICATION Spec
CONSTANTS
    Users = {u1, u2, u3}
    Blocks = {b1, b2, b3}
    Contents = {x, y}
    Sizes = {1, 2}
    None = None
    u1 = u1
    u3 = u3
    u2 = u2
    b1 = b1
    b2 = b2
    b3 = b3
    x = x
    y = y
SYMMETRY Alike
INVARIANTS TypeOK Counted Alone
PROPERTIES ImplementsOwnCopies
CHECK_DEADLOCK FALSE
