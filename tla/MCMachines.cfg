\* Three processors that boot; two requests to a disk of 5 bytes in blocks of
\* 2; a ring of 3 and 7 key events; a pipe of 2 bytes and 3 to play.
CONSTANTS
  NULL = NULL
  ncpu = 3
  Caller = {1, 2}
  blksz = 2
  Image <- Bytes
  MaxRequests = 2
  Scancode = {1, 2}
  KEY_QUEUE_LEN = 3
  KEYDOWN_MASK = 4
  PipeSize = 2
  MaxKeys = 7
  MaxBytes = 3
SPECIFICATION Spec
INVARIANTS OneAtATime DiskExact KeysKept AudioKept
PROPERTIES AllStart WorldStops
\* The machine is off at the end, and the inputs are bounded.
CHECK_DEADLOCK FALSE
