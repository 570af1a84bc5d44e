CONSTANTS
    a = a  b = b  c = c  m1 = m1  m2 = m2  m3 = m3  k1 = k1
    Cats = {a, b, c}
    Calls = {m1, m2, m3}
    NoKey = NoKey
    CallerOf <- MCCallerOf
    KeyOf <- MCKeyOf
    TargetsOf <- MCTargetsOf
    Others = {b}
    MaxDepth = 3
SPECIFICATION Spec
INVARIANTS TimeoutReturnsAnswers
CHECK_DEADLOCK FALSE
