CONSTANTS
  n1 = n1
  n2 = n2
  n3 = n3
  n4 = n4
  NoNode = NoNode
  Node <- MCNode
  Root = NoNode
  Pages <- MCPages
SPECIFICATION Spec
INVARIANTS TypeOK OneTree EndsMarked OpenShowsAll LinesCurrent DrawnIsLive BoxesCurrent
           ParentsChecked InnerFollowsSons OneRadio
PROPERTY FixedKept
CHECK_DEADLOCK FALSE
