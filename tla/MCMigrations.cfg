SPECIFICATION Spec
CONSTANTS
    Replicas = {a1, a2}
    Operators = {o1, o2}
    Workspaces = {w1}
    Targets = {0, 4, 8}
    Found = {0, 4, 8}
    MaxRestarts = 1
SYMMETRY Symmetry
INVARIANTS
    SchemaIsItsRevision
    ServersFindTheirSchema
    EveryWorkspaceSubscribed
PROPERTIES
    RefusedOnlyIfOvertaken
CHECK_DEADLOCK FALSE
