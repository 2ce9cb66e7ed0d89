CONSTANTS
    Calls = {c1, c2}
    NameOrder = {}
    Unsplit = {}
    MaxDepth = 8
    Pages <- MCPages
    Versions <- WithPaths
SPECIFICATION Spec
PROPERTIES ChangesDetected
