CONSTANTS
    PIC_LINES = 3
    CASCADE = 1
    ISR_NUM_EXCECOES = 4
    NMI = 2
    EXC_DOUBLE_FAULT = 1
    EXC_MACHINE_CHECK = 3
    Faults = {0, 1, 2}
    Devices = {0, 2, 5}
    MainHandlers <- MCMainHandlers
    IsrHandlers <- RaceHandlers
    STI_HOLDS_NMI = TRUE
    MaxFrames = 3
    MaxEvents = 3
SPECIFICATION Spec
PROPERTY NoSilentReplacement
CHECK_DEADLOCK FALSE
