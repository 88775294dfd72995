\* Is the owner the whole name of the author of the declaration line?
CONSTANTS
  MaxFiles = 2
  MaxLines = 12
  MaxMatches = 2
  Authors <- MCAuthors
  NameMapper <- MCNameMapper
  Tracked = {TRUE, FALSE}
  LookupFailed = LookupFailed
  NameCollision = NameCollision
  None = None
SPECIFICATION Spec
\* One lookup; the function returns.
CHECK_DEADLOCK FALSE
INVARIANT OwnerIsDeclarationAuthor
