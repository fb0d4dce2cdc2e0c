SPECIFICATION FairSpec
CONSTANTS
  u1 = u1
  u2 = u2
  t1 = t1
  t2 = t2
  s1 = s1
  s2 = s2
  s3 = s3
  d1 = d1
  None = None
  Users = {u1, u2}
  Tabs = {t1, t2}
  Sockets <- MCSockets
  SocketTab <- MCSocketTab
  SocketUser <- MCSocketUser
  Calls = {d1}
  Reconnects = TRUE
  UnloadAnnounces = TRUE
INVARIANTS PresenceInv NoGhostGm OnlyTargetExecutes OncePerTab
PROPERTIES RemoteCallSpec FirstAnnouncedStaysFirst
CHECK_DEADLOCK FALSE
