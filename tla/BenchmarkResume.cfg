SPECIFICATION Spec
CONSTANTS
    Qids <- MCQids
    Agents = {"rag", "agentic_rag", "rewrite_rag"}
    MaxStarts = 4
    MaxFailures = 2
INVARIANTS
    SettledOnce
    CrashesLoseTwoAnswersEach
    ReportIsOfOneRun
    FailuresAreRetried
PROPERTY
    ResumingReports
CHECK_DEADLOCK FALSE
