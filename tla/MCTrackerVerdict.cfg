CONSTANTS
    codex = codex  opus = opus  alice = alice
    x1 = x1  x2 = x2  x3 = x3
    NoSlot = NoSlot
    Cats = {codex, opus}
    Users = {alice}
    Runs = {x2, x3}
    Single = {}
    TargetsOf <- MCTargetsOf
    UserOf <- MCUserOf
SPECIFICATION Spec
PROPERTIES SucceededRanToCompletion
CHECK_DEADLOCK FALSE
