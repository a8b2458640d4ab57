CONSTANTS
    Editors = {c1}
    RunCases = {k1}
    Reasons <- MCReasons
    ListLimit = 1
    MaxAnnotations = 1
    Absent = Absent
    NoAnnotation = NoAnnotation
SPECIFICATION AnnotationsSpec
CHECK_DEADLOCK FALSE
PROPERTIES
    AbsentStatusKept
