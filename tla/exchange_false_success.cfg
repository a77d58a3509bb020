\* One get whose local file cannot be opened, or whose server breaks off.
CONSTANTS
  Slots = {s1}
  MaxFd = 4
  Modes = {"threads"}
  Commands <- OneGet
  MimeTypes = {"txt"}
  MaxRuns = 1
SPECIFICATION Spec
INVARIANT SuccessDelivered
CHECK_DEADLOCK FALSE
