SPECIFICATION LawsSpec
CONSTANTS
  AccessRights <- ValidAccessRights
  Events <- MCEvents
  Walks <- MCWalks
  Instructions <- MCInstructions
INVARIANTS SegmentsRoundTrip EventsPreserved WalkRightsPreserved FramesPreserved
INVARIANTS VmxRecognised OperandsResolved
