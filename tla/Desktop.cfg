\* The desktop shell: the backend process, its gate and the message dialogs.
SPECIFICATION MCSpec
CONSTANTS
    MaxSpawns = 3
    SidecarOpenings <- MCSidecarOpenings
INVARIANT OneHolder DialogsTruthful
PROPERTY ShellRecovers
CHECK_DEADLOCK FALSE
