\* The bytes change once, or fail to come; two of the programs by hand.
SPECIFICATION FairSpec
CONSTANTS
  Attachments = {1}
  MaxVersion = 2
  Candidates = {1, 2}
  NotPdf = {}
  PageCount <- MCPageCount
  MaxRevisions = 2
  MaxFaults = 1
  MaxUses = 2
INVARIANTS
  RequestsAreOneVersion
  CitationsHavePages
  ExtractionsAreOfTheirReading

  
