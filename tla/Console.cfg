SPECIFICATION Spec
CONSTANTS
    Blank = "_"
    Commands <- MCCommands
    Typable <- MCTypable
    Help <- MCHelp
    MaxLine = 5
    MAX_HIST = 3
PROPERTIES
    
    RecallOrder
