SPECIFICATION Spec
CONSTANTS
  MaxRanges = 3
  HeaderSize = 1
  Objects = {"a", "b", "c"}
  FileOf <- ThreeFiles
  Listings <- TwoListings
  Requests <- SomeRequests
  OptionSets <- TwoOptions
  Width = 2
  ClientCapacity = 4
  GatewayCapacity = 2
INVARIANTS StrategyChangesNothing DecoderFindsItsBytes RequestsAreAcceptable FootersAccounted
