SPECIFICATION RuntimeSpec
CONSTANTS
    Instances = {1}
    MaxCalls = 0
    MaxDeaths = 0
CHECK_DEADLOCK FALSE
PROPERTIES
    CrashIsReported
