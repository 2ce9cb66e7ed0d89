SPECIFICATION Spec
CONSTANTS
    Objects <- Branch
    MaxHeld = 2
INVARIANTS TerminalOnly FilterAgrees RefusalJustified
PROPERTIES LeavesForDescendants
