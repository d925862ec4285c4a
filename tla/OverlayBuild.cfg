SPECIFICATION Spec
CONSTANT Runs = 3
INVARIANT CopyOutlivesItsUsers
PROPERTIES EmitsReleased KeepsPromise
CHECK_DEADLOCK FALSE
