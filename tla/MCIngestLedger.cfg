CONSTANTS
  c1 = c1
  c2 = c2
  Crawler <- Crawlers
  Units = 2
  Version <- Versions
  NoRow = NoRow
  Nobody = Nobody
  MaxEvents = 3
  MaxResets = 1
SPECIFICATION Spec
SYMMETRY SymmetryCrawlers
INVARIANTS TypeOK CursorLeavesNoGap CursorMeansWrittenUnlessCut NamesLastEvent
PROPERTY SkippedIsStored
