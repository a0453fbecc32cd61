SPECIFICATION Spec
CONSTANT Actions = {"acquire"}
INVARIANT CancelOrCommit
CHECK_DEADLOCK TRUE
