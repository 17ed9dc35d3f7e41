SPECIFICATION Spec
CONSTANTS
  MaxFormat = 5
  MaxColor = 7
  MaxLine = 8
  Sizes <- MCSizes
  Lengths <- MCLengths
INVARIANTS ColorsReadAlike RowsAsDrawn CleanCuts LinesAreSplit FormattedShows
