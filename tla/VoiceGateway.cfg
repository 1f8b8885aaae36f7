\* One client that joins twice and sends three chunks of audio.
SPECIFICATION Spec
CONSTANTS
  MaxJoins = 2
  Connections = {s1, s2, s3}
  Chunks = {c1, c2, c3}
  None = None
INVARIANTS TypeOK WordsStayInTheirJoin OneConnection
CHECK_DEADLOCK FALSE
