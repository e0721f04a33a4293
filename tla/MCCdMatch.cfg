SPECIFICATION MatchSpec
CONSTANTS
  EntryUris <- MCEntryUris
  InputCds <- MCInputCds
  LengthOf <- MCLengths
  RankOf <- MCRanks
INVARIANTS
  UriGrammar
  PrintedUriIsParsed
  MatchIsWhatItStandsFor
  LoopComputesMatchRegex
  WireOrderIsCanonical
PROPERTIES
  Terminates
CHECK_DEADLOCK FALSE
