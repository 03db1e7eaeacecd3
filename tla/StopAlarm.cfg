CONSTANT Gzip = FALSE
SPECIFICATION FairSpec
INVARIANTS
  PagesOncePerState
  MostUrgentIsAnnounced
  AnnouncedIsReported
PROPERTY ViolationIsAlarmed
CHECK_DEADLOCK FALSE
