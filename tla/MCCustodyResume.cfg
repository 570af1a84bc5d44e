CONSTANTS
    codex = codex  opus = opus  x1 = x1  x2 = x2  x3 = x3
    Thread = Thread  User = User  AnyCat = AnyCat
    NoSlot = NoSlot  NoOwner = NoOwner  None = None
    Cats = {codex, opus}
    Runs = {x1, x2, x3}
    CatOf <- MCCatOf
SPECIFICATION Spec
INVARIANTS NoConcurrentResume
CHECK_DEADLOCK FALSE
