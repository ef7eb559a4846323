CONSTANTS
  alice = alice
  bob = bob
  Accounts = {alice, bob}
  Assets = {0, 1}
  Mia = 1
  Backing = 0
  MarketFee <- TwoFees
  Deposits <- TwoDeposits
  Offers <- SomeOffers
  ShortOffers <- SomeShorts
  Updates <- Withdrawals
  Settles = {2}
  Feeds <- SomeFeeds
  SettlePrices <- SomePrices
  OffsetPercent = 0
  VolumePercent = 50
  MaxShare = 1000
  MaxId = 5
SPECIFICATION Spec
INVARIANTS
  Conserved
