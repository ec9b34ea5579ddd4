SPECIFICATION Spec
CONSTANTS
    encoder = encoder
    encoderQ = encoderQ
    ner = ner
    decoder = decoder
    llm = llm
    None = None
    Files <- MCFiles
    Shape <- MCShape
    Bert = {encoder, encoderQ}
    Inputs <- MCInputs
    Quantized <- MCQuantized
    Llms = {llm}
    LlmSize <- MCLlmSize
    LlmFormat <- MCLlmFormat
    Engines = {"llama-cpp", "mlx"}
    Apple = FALSE
    OpenClaw = FALSE
    AllProviders = {"CoreML", "CPU"}
    Primary = "CPU"
    ForcedProvider = None
    Tasks <- MCTasks
    Readings <- MCReadings
    Texts <- MCTexts
    MaxRecords = 1
    MaxSwaps = 1
INVARIANTS
    FailureHasCause
    PiiLeakHasCause
    BetterMachineKeepsWork
    EntityAnswersAreMasked
CHECK_DEADLOCK FALSE
