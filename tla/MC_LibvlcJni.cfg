\* Two players, one after the other; the first gets a file that it plays and a stream, the
\* second a stream.  The preparser's thread may fail to start.
SPECIFICATION FairSpec
CONSTANTS
  p1 = p1
  p2 = p2
  file = file
  stream = stream
  next = next
  Player = {p1, p2}
  Media = {file, stream, next}
  Owner <- Owners
  File = {file}
  Played = {file}
  None = None
  SpawnFails = TRUE
  Overlap = FALSE
INVARIANTS  MediaIsThere NoItemForgotten InputEndsFirst
PROPERTIES PrepareAnswered CallsReturn
CHECK_DEADLOCK FALSE
