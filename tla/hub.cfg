SPECIFICATION ChatSpec
CONSTANTS
  Slots = {c1}
  Ips = {i1, i2}
  Topics = {"chat", "s1"}
  Messages = {m1, m2}
  Writers = {i1}
  MaxHistory = 2
  Skewed = {}
  None = None
INVARIANTS ChatTypeOK SubscriptionsAgree NoDeadSubscriber ReachesPages UnseenIsUnread
PROPERTIES AnsweringStays DeadIsForgotten
CHECK_DEADLOCK FALSE
