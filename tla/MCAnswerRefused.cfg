SPECIFICATION Spec
CONSTANTS
    w = w
    v = v
    r1 = r1
    r2 = r2
    Runs = {r1, r2}
    Workspaces = {w, v}
    Requests <- Keywords
    Registered = {"compare_documents", "generate_report", "extract_fields", "search_documents"}
    NormalKey <- Keys
    NormalValue <- Values
    NoValue = "nothing"
    ChunkTasks = {}
    SearchTasks = {}
    LocalTasks <- SomeLocalTasks
    MessageTasks = {}
    PayloadTasks = {}
    ExtractTasks = {}
    CompareTasks = {}
    AgentTasks = {}
INVARIANTS
    LocalAnswersAccepted
CHECK_DEADLOCK FALSE
