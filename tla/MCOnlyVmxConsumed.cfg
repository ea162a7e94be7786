SPECIFICATION LawsSpec
CONSTANTS
  AccessRights = {}
  Events = {}
  Walks = {}
  Instructions <- MCInstructions
INVARIANT OnlyVmxConsumed
