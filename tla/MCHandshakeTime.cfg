CONSTANTS
  CommandLines <- MCCommandLines
  MethodLists <- MCMethodLists
  Names = {"", "a", "b"}
  RawIPs = {1, 2}
  NetPorts = {14340, 257}
  Answers6 = 1
  Answers4 = 2
SPECIFICATION Spec
INVARIANT TotalTimeKept
