\* Expected to be violated: ENoC_Dir.cpp:10.
SPECIFICATION WorkloadSpec
CONSTANTS
  N = 4
  Cpus = {0, 1, 2, 3}
  DIRECTORY_ADDRESS_0 = 3
  Addrs <- LowAndHigh
  Tag <- DecodeTag
  L1Index <- DecodeL1Index
  L2Index <- DecodeL2Index
  MemoryNode <- DecodeMemoryNode
  L1WAYS = 1
  L2WAYS = 2
  MaxLines = 6
  Workloads <- MixedWorkloads
INVARIANT
  FirstElementIsAddress
