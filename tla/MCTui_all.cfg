SPECIFICATION Spec
CONSTANTS
  MaxId = 2
  MaxItems = 2
  MaxCmds <- MCMaxCmds
  MaxElsewhere <- MCElsewhere
  Stored <- MCStored
  StartAt <- MCStart
  Scope <- MCScope
  Edited <- MCEdited
  Creator <- MCCreator
INVARIANT IndicesInRange
INVARIANT ClampedListsHold
INVARIANT QuietListsAreTrue
PROPERTY DirtyFormsStay
CHECK_DEADLOCK FALSE
