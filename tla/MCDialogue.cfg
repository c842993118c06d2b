SPECIFICATION Spec
CONSTANTS
    battery = battery
    Codes = {battery}
    MaxQuestions = 2
    MaxProposals = 2
    MaxRequests = 2
    MaxActs = 3
INVARIANTS
    AlertIndexed
    AnsweredOnce
    ProposalShown
    ResetHolds
CHECK_DEADLOCK FALSE
