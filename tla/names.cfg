CONSTANTS
  Names = {n1, n2}
  Inodes = {1, 2}
  Slots = {1, 2}
  Indexes = {0, 1}
  Blocks = {1, 2}
  Lengths = {45, 51}
  Created = {7, 23}
  Leftovers = {0}
  Landings = {"back", "far"}
  Wrap = 88
  MaxWrites = 2
  MaxDamaged = 1
  None = None
SPECIFICATION Spec
SYMMETRY SymmetricNames
INVARIANTS TypeOK FileFormat NoWrongBlock OpenFinds SlotIsOwn AttrExact
