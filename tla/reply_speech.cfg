CONSTANTS
  MaxSegments = 3
  Guards = {{}, {2}}
SPECIFICATION FairSpec
INVARIANTS TypeOK VoiceIsCurrent NoAudioLeaks
PROPERTIES ReplyGoesOn
