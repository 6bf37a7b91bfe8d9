SPECIFICATION Spec
CONSTANTS
    Readers = {q1, q2}
    Wallets = {a1, a2}
    Words = 3
    Price = 2
    Budgets = {5, 6}
    Wants = {2}
INVARIANTS OwnTermsMatch
CHECK_DEADLOCK FALSE
