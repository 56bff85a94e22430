SPECIFICATION FileSpec
CONSTANTS
  Records = {"mac1", "mac2"}
  MaxNote = 1
  Savers = {"s1", "s2"}
  Inodes = {"i1", "i2", "i3"}
  LenOf <- MCLenOf
INVARIANT ThreadSafe
