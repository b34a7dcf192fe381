CONSTANTS
  Containers = 1
  InitContainers = 1
  Names <- MCNames
  Submitted <- MCSubmitted
  MaxRetries = 2
CHECK_DEADLOCK FALSE
SPECIFICATION Spec
INVARIANT SharedAccess
INVARIANT UsersPartKept
INVARIANT RefusedOnlyTwice
