\* Two overlapping emitters and a page that comes and goes: channels of one
\* event, a backfill of two, replay pages of one, four events in all.
SPECIFICATION FairSpec
CONSTANTS
  Emitter = {e1, e2}
  Viewer = {v1}
  NoEmitter = NoEmitter
  Buffer = 1
  BackfillLimit = 2
  PageLimit = 1
  MaxEvents = 4
  MaxPolls = 2
INVARIANTS
  TypeOK
  SeqsAreDense
  PollsSkipNothing
PROPERTIES
  ImplementsLog
  PollingCatchesUp
  EmittersNeverBlock
CHECK_DEADLOCK FALSE
