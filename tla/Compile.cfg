\* Phases that rewrite the program, the pipeline it describes, the scheduler, the emitter for LLVM.
SPECIFICATION AllSpec
CONSTANTS
    Defs <- AllDefs
    Scopes <- AllScopes
INVARIANTS ProgramKept  PipelineAsked  EmittedMeansTheSame  ScheduleSound
CHECK_DEADLOCK FALSE
