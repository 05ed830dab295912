CONSTANTS
  TEST_RANGE = 8
  timeout_limit = 3
  Slowness = 1
  Randoms = {{0, 3, 9, 31}, {1, 2, 12, 17, 24}}
  Faulty = {"negate", "float_twice"}
  Exponents = {0, 1, 2, 3, 126, 127, 128, 130, 135, 149, 150, 151, 157, 158, 254, 255}
  FracBits = {0, 1, 6, 7, 15, 16, 18, 19, 21, 22}
  None = None
SPECIFICATION TestSpec
CHECK_DEADLOCK FALSE
INVARIANTS Agreement Blame
PROPERTIES Terminates
