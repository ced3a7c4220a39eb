\* The binary file: every input of up to two lines over every older file; names
\* fit a byte up to three characters.  The databases: batches of two, three runs.
SPECIFICATION TestDataSpec
CONSTANTS
    Inputs <- MCInputs
    HeaderSize = 2
    ByteSize = 4
    WordSize = 16
    Nil = Nil
    CfFiles <- MCCfFiles
    ProblemId <- MCProblemId
    IoiFiles <- MCIoiFiles
    Queries <- MCQueries
    BatchSize = 2
    MaxRuns = 3
    Partial = Partial
INVARIANTS
    TestDataTypeOK BuiltReadsBack HalfWrittenRefused
    ProblemsWhole OrphansOnlyAfterCutDrop ImportComplete
    ImportedWhole NothingLost LookupTrue
CHECK_DEADLOCK FALSE
