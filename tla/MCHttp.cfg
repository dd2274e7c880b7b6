\* Three pieces from the peer; the longest request just fills the header's buffer,
\* and a length of two digits may be more than an int holds.
CONSTANTS
  SizeModulus = 65536
  IntMax = 98
  Requests <- MCRequests
  Responses <- MCResponses
  Urls <- MCUrls
  Segments <- MCSegments
  MaxSegments = 3
  HeaderCap = 24
  IdleLimit = 1
SPECIFICATION MCSpec
INVARIANTS TypeOK OneOutstanding BufferLive AnnouncedIsDone PartsAtHand RequestsParsed ResponsesParsed UrlsParsed
PROPERTIES KeepsToExchange IdleIsFreed EndedIsFreed
CHECK_DEADLOCK FALSE
