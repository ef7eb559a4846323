SPECIFICATION Spec
CONSTANTS
    Accounts = {0, 1, 2}
    Keys = {11, 12}
    InitialAuths <- SomeAuths
    Tallies <- SomeTallies
    Balances <- SomeBalances
    Proposable <- SomeProposals
    Operations <- SomeOperations
    SignatureSets = {{12}, {11, 12}}
    Expirations = {3}
    MaxTrxLifetime = 2
    MaxLifetime = 3
    GenesisReview = 2
    ForkingWindow = 0
    MaxDepth = 1
    MaxProposals = 2
    MaxTransactions = 5
    MaxTime = 4
INVARIANTS OnlyApproved  ApprovalsSuffice
  
CHECK_DEADLOCK FALSE
