CONSTANTS
  NSegments = 3
  PerSegment = 2
  MaxRecords = 7
  AppendsPerRow = 1
SPECIFICATION SSpec
INVARIANTS ReportedSurvives CalmKeepsAll LookupMissesNone
PROPERTIES ImplementsLog 
