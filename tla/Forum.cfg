CONSTANTS
  post = post
  label = label
  author = author
  other = other
  r1 = r1
  r2 = r2
  own = own
  new1 = new1
  new2 = new2
  top1 = top1
  top2 = top2
  show = show
  show2 = show2
  clear = clear
  t1 = t1
  t2 = t2
  k1 = k1
  k2 = k2
  Nobody = Nobody
  Parent <- MCParent
  User <- MCUser
  Author <- MCAuthor
  Reply <- MCReply
  Toggle <- MCToggle
  Visit = {show, show2}
  Purge = {clear}
  On <- MCOn
  By <- MCBy
  Tab = {t1, t2}
  Token = {k1, k2}
  Casts <- MCCasts
SPECIFICATION FairSpec
INVARIANTS TypeOK RowsCounted TogglesKept ReadWasShown BadgeShown
PROPERTIES DeletesOnlyEnded RepliesEnd
CHECK_DEADLOCK FALSE
