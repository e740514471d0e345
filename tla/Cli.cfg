SPECIFICATION CallsReturnSpec
CONSTANTS
  Adapters = 2
  Behaviours <- MCBehaviours
  CommandLines <- MCCommandLines
INVARIANTS BadAdaptersContained DeviceLetGo DoctorVerdict FailurePrintsNothing
PROPERTIES ProcessEnds
CHECK_DEADLOCK FALSE
