SPECIFICATION Spec
CONSTANTS Names = {"n1", "n2"}
          Rooms = {"r1"}
          Erased = "erased"
INVARIANTS TypeOK ReadIsWhole SavedIsKept DriverMatches
PROPERTIES OthersKept
