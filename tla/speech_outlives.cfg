CONSTANTS
  MaxSegments = 3
  Guards = {{}}
SPECIFICATION Spec
INVARIANT InterruptionSilences
