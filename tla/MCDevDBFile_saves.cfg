SPECIFICATION FileSpec
CONSTANTS
  Records = {"mac1"}
  MaxNote = 2
  Savers = {s1, s2}
  Inodes = {i1, i2, i3}
  s1 = s1
  s2 = s2
  i1 = i1
  i2 = i2
  i3 = i3
  LenOf <- MCLenOf
SYMMETRY Unordered
INVARIANTS Loadable NotesOnDisk
