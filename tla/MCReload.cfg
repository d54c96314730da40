CONSTANTS
  n1 = n1
  n2 = n2
  Nodes = {n1, n2}
  Files <- MCFiles
  Bad = Bad
  MaxEdits = 2
  MaxTroubles = 1
SPECIFICATION FairSpec

  
PROPERTIES
  
  LastEditIsServed
CHECK_DEADLOCK FALSE
