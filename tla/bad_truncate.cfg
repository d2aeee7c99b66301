CONSTANTS
  Names = {n1, n2}
  Inodes = {1, 2}
  Slots = {1, 2}
  Indexes = {0, 1}
  Blocks = {1, 2}
  Lengths = {0, 51}
  Created = {23}
  Leftovers = {0}
  Landings = {"back"}
  Wrap = 88
  MaxWrites = 2
  MaxDamaged = 1
  None = None
SPECIFICATION Spec
PROPERTY WrittenIsFound
