\* A layout the browser completes is refused by the hub, which lacks an item.
SPECIFICATION MCSpec
INVARIANT SavesAccepted
CHECK_DEADLOCK FALSE
