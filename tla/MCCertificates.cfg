SPECIFICATION Spec
CONSTANTS
  n1 = n1
  Nodes = {n1}
  Kinds <- MCKinds
  MaxPairs = 5
  MaxAges = 1
  MaxChanges = 1
  MaxTroubles = 1
PROPERTY FreshPairIsServed
PROPERTY DueIsRenewed
 
CHECK_DEADLOCK FALSE
