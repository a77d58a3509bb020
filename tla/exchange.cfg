\* Two slots, three exchanges; every method, and urls of every form.
CONSTANTS
  Slots = {s1, s2}
  MaxFd = 7
  Modes = {"threads", "one_shot"}
  Commands <- AllCommands
  MimeTypes = {"txt"}
  MaxRuns = 3
SPECIFICATION Spec
SYMMETRY AnySlot
INVARIANT TypeOK
INVARIANT OwnFile
INVARIANT FilesClosed
INVARIANT PutWhole
INVARIANT GetWritten
INVARIANT UrlTarget
\* The user may stop typing; the one-shot client ends.
CHECK_DEADLOCK FALSE
