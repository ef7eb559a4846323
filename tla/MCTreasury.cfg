SPECIFICATION Spec
CONSTANTS
  genesis = genesis
  alice = alice
  bob = bob
  wit = wit
  None = None
  Accounts = {genesis, alice, bob}
  Witnesses = {wit}
  WitnessAccount <- MCWitnessAccount
  Referrer <- MCReferrer
  Prime = {genesis, alice}
  Genesis = genesis
  Deposits <- MCDeposits
  Leftovers = 6
  Fees <- MCFees
  Full = 4
  Rate = 1
  Scale = 8
  Day = 2
  BlockInterval = 1
  StartTime = 3
  InitialParameters <- MCParameters
  NewParameters <- MCNewParameters
  TransferOps <- MCTransferOps
  BurnOps <- MCBurnOps
  VestingOps <- MCVestingOps
  WorkerOps <- MCWorkerOps
  PermissionOps <- MCPermissionOps
  Amounts = {2}
  Waits = {3}
  MaxOps = 4
  MaxTime = 9
  MaxMissed = 2
INVARIANTS  VestsOverTime WithinLimit
CHECK_DEADLOCK FALSE
