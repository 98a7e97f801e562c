\* Every set of free pages, every start page and request.
CONSTANTS
  PageCount = 6
  Requests <- MCRequests
SPECIFICATION FairSearchSpec
INVARIANT SearchSound
PROPERTY SearchEnds
