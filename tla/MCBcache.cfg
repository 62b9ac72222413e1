CONSTANTS
    NodeWords = 5
    MaxEdits = 2
    Values <- MCValues
    Versions = {3, 4}
SPECIFICATION Spec
PROPERTY KeysAsRecords
