CONSTANT MaxFlaps = 3
SPECIFICATION Spec
INVARIANTS CycleClosed HealsInit
PROPERTIES FlapServed SuspendReleases StopExits Settles
CHECK_DEADLOCK FALSE
