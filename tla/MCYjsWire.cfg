CONSTANTS
  GroupBits = 2
  Width = 5
  LenBytes = 2
  Magic <- MCMagic
  MaxLen = 5
SPECIFICATION Spec
INVARIANTS VarUintRoundTrip PeersReadTheUpdate CutFramesAreNoUpdates
           StoredStateSurvives
CHECK_DEADLOCK FALSE
