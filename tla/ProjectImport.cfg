\* Two imports of a manifest of two services, the second of which listens on a
\* port of its own; one stop of the panel, deletion by the operator or refused
\* call.
SPECIFICATION ImportSpec
CONSTANTS
  Jobs = {j1, j2}
  N = 2
  OwnPort <- MCOwnPort
  MaxTroubles = 1
SYMMETRY Symmetry
CHECK_DEADLOCK FALSE
INVARIANTS AllOrNothing PortSharedOnlyUnseen StrayOnlyByFailure
