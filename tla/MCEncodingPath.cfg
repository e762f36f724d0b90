CONSTANTS
    e1 = e1
    e2 = e2
    e3 = e3
    Vocabulary = {1, 2}
    TicksPerHour = 4
    HoursPerDay = 3
    SeqLen = 3
    Samples <- PlainSampleSet
    MaxResources = 2
    RowsPerSeed = 3
    CorpusRowGroup = 9
    ChunkSize = 5
    Jitters <- PlainJitterSet
    Stride = 1
    BatchSize = 2
    NumWorkers = 2
    CheckpointFreq = 2
    MaxEpochs = 4
    MaxRuns = 1
    Batches = {}
    ForwardSize = 1
    NList = 2
    MinTrainPoints = 1
SPECIFICATION Spec
CHECK_DEADLOCK FALSE
INVARIANT
    IdenticalEncodingPath
