CONSTANTS
  Ids = {b1, b2, b3}
  Lengths = {1, 2, 3}
  Header = 2
  Word = 4
  NULL = NULL
SPECIFICATION FairSpec
INVARIANTS TypeOK  NoLeak 
PROPERTIES PictureEnds RequestEnds
