CONSTANTS
    e1 = e1
    e2 = e2
    e3 = e3
    Vocabulary = {1, 2}
    TicksPerHour = 4
    HoursPerDay = 3
    SeqLen = 3
    Samples <- SampleSet
    MaxResources = 2
    RowsPerSeed = 3
    CorpusRowGroup = 9
    ChunkSize = 5
    Jitters <- JitterSet
    Stride = 1
    BatchSize = 2
    NumWorkers = 2
    CheckpointFreq = 2
    MaxEpochs = 3
    MaxRuns = 3
    Batches <- BatchSet
    ForwardSize = 1
    NList = 2
    MinTrainPoints = 1
SPECIFICATION Spec
CHECK_DEADLOCK FALSE
INVARIANTS
    PositivesMatch
    EachWindowOnce
    ResumeContinues
    CrashCostsFewEpochs
    EmbeddingIsOwn
