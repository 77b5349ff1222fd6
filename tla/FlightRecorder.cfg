CONSTANTS
  Joined = {usb}
  Stragglers = {render}
  Events = {refused, completed}
  Unknown = Unknown
  RequestedCapacity = 2
  Filters = {{}, {refused}}
  Triggers = {refused}
  OutCapacities = {1, 4}
  MaxRecords = 4
  MaxSessions = 2
SPECIFICATION Spec
INVARIANT TornDetectable
INVARIANT SnapshotExact
INVARIANT FreezeBounded
