SPECIFICATION Spec
CONSTANTS
  Threads = {t1, t2}
  Offered = {"scan", "metadata", "verify", "archiveHealth", "suggestions", "orgHealth",
    "orgActivity", "orgReport", "investigate", "resolve", "duplicates", "timeline",
    "familyHistory", "pilotAudit", "dateReview", "unresolved", "albums", "tags",
    "discovery", "pilotSession", "plan", "propose", "execute"}
  LegacyCache = TRUE
  None = None
PROPERTIES GateReleased
CHECK_DEADLOCK FALSE
