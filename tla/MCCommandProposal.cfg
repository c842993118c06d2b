SPECIFICATION Spec
CONSTANTS
    Says = {h1}
    Proposals = {p1, p2}
    None = none
    MaxChan = 1
    MaxBack = 1
    MaxBreaks = 1
INVARIANTS
    TaskOwnProposal
