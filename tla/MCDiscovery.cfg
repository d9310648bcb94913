SPECIFICATION Spec
CONSTANTS
  HeaderBytes = 12
  FixedBytes = 10
  SrvPrefix = 6
  MaxSteps = 3
  PacketSizes = {11, 68}
  Questions = {1}
  Counts = {3}
  LabelSizes = {20}
  PointerTargets = {12, 30}
  DataSizes = {6}
  Timeout = 2
  MaxWork = 1
  MaxPackets = 2
  Instances = {"tv"}
  Hosts = {"host"}
  Ports = {46899}
  Addresses = {"a1"}
INVARIANTS
  RecordsFit
  BrowseInTime
  InTimeIsFound
  AnyOrderAnnounces
PROPERTIES
  BrowseEnds
