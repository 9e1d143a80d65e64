SPECIFICATION MCSpec
CONSTANTS
  a1 = a1
  a2 = a2
  plain = plain
  image = image
  reply = reply
  d1 = d1
  d2 = d2
  NoAccount = NoAccount
  NoId = NoId
  Accounts = {a1, a2}
  Ids = {plain, image, reply}
  Owner <- FirstOwns
  Dests = {d1, d2}
  Dest <- ToTwo
  Images = {image}
  BotReplies = {reply}
  KickCap = 1
  MaxEpoch = 2
INVARIANTS OwnAccountOnly SentIsAccepted TimelineAgrees NoLostWakeup
CHECK_DEADLOCK FALSE
