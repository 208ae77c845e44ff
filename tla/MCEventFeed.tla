---------------------------- MODULE MCEventFeed -----------------------------
EXTENDS EventFeed
MCCompletions == [what: {"load", "fetch", "refresh"}, session: 1..MaxSessions]
=============================================================================
