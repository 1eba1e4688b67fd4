SPECIFICATION Spec
CONSTANTS
    Cards <- MCCards
    Rcas = {1, 2}
    Reads <- MCReads
    Files <- MCFiles
    Retries = 3
    MaxFaults = 2
    MaxReads = 2
    HeapCells = 44
    FileCells = 20
    LineCells = 4
    EntryCells = 2
    WordCells = 3
    EarlierLines <- MCEarlierLines
    COMMAND_LINE_SIZE = 5
    WordBytes = 2
    TagBytes = 32
INVARIANTS  CardUnderstood BootsAsWritten KernelSeesLine
CONSTRAINT FewFiles
CHECK_DEADLOCK FALSE
