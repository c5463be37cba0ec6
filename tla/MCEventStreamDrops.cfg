\* A stream whose channel is full: what the broker drops is not covered.
SPECIFICATION Spec
CONSTANTS
  Emitter = {e1}
  Viewer = {v1}
  NoEmitter = NoEmitter
  Buffer = 1
  BackfillLimit = 2
  PageLimit = 2
  MaxEvents = 3
  MaxPolls = 2
INVARIANT DropsAreCovered
CHECK_DEADLOCK FALSE
