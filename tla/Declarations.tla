---------------------------- MODULE Declarations ----------------------------
(***************************************************************************)
(* The structs of protocol.h: for each of them the type of every member it *)
(* declares itself.  The tables follow the order of the file.              *)
(***************************************************************************)
EXTENDS TLC

\* The types of types.h, optional.h and variant.h, as tagged tuples.
Boolean == <<"boolean">>
Integer == <<"integer">>
Number == <<"number">>
String == <<"string">>
Object == <<"object">>
AnyValue == <<"any">>
Null == <<"null">>
Opt(T) == <<"optional", T>>
Arr(T) == <<"array", T>>
Var(Ts) == <<"variant", Ts>>
Struct(name) == <<"struct", name>>

\* Shorthands of the tables.
OptBool == Opt(Boolean)
OptInt == Opt(Integer)
OptStr == Opt(String)
AnyJson == Var({Arr(AnyValue), Boolean, Integer, Null, Number, Object, String})
Of(T, names) == [n \in names |-> T]
Empty == Of(AnyValue, {})

Declared1 == [
    AttachResponse |-> Empty,
    AttachRequest |-> Of(Opt(AnyJson), {"restart"}),
    Checksum |-> Of(String, {"algorithm", "checksum"}),
    Source |-> Of(Opt(AnyJson), {"adapterData"})
        @@ Of(Opt(Arr(Struct("Checksum"))), {"checksums"})
        @@ Of(OptStr, {"name", "origin", "path", "presentationHint"})
        @@ Of(OptInt, {"sourceReference"}) @@ Of(Opt(Arr(Struct("Source"))), {"sources"}),
    Breakpoint |-> Of(OptInt, {"column", "endColumn", "endLine", "id", "line", "offset"})
        @@ Of(OptStr, {"instructionReference", "message", "reason"})
        @@ Of(Opt(Struct("Source")), {"source"}) @@ Of(Boolean, {"verified"}),
    BreakpointEvent |-> Of(Struct("Breakpoint"), {"breakpoint"}) @@ Of(String, {"reason"}) ]

Declared2 == [
    BreakpointLocation |-> Of(OptInt, {"column", "endColumn", "endLine"})
        @@ Of(Integer, {"line"}),
    BreakpointLocationsResponse |-> Of(Arr(Struct("BreakpointLocation")), {"breakpoints"}),
    BreakpointLocationsRequest |-> Of(OptInt, {"column", "endColumn", "endLine"})
        @@ Of(Integer, {"line"}) @@ Of(Struct("Source"), {"source"}),
    CancelResponse |-> Empty,
    CancelRequest |-> Of(OptStr, {"progressId"}) @@ Of(OptInt, {"requestId"}),
    ColumnDescriptor |-> Of(String, {"attributeName", "label"})
        @@ Of(OptStr, {"format", "type"}) @@ Of(OptInt, {"width"}),
    BreakpointMode |-> Of(Arr(String), {"appliesTo"}) @@ Of(OptStr, {"description"})
        @@ Of(String, {"label", "mode"}) ]

Declared3 == [
    ExceptionBreakpointsFilter |-> Of(OptStr, {"conditionDescription", "description"})
        @@ Of(OptBool, {"def", "supportsCondition"}) @@ Of(String, {"filter", "label"}),
    Capabilities |-> Of(Opt(Arr(Struct("ColumnDescriptor"))), {"additionalModuleColumns"})
        @@ Of(Opt(Arr(Struct("BreakpointMode"))), {"breakpointModes"})
        @@ Of(Opt(Arr(String)), {"completionTriggerCharacters",
             "supportedChecksumAlgorithms"})
        @@ Of(Opt(Arr(Struct("ExceptionBreakpointsFilter"))), {"exceptionBreakpointFilters"})
        @@ Of(OptBool, {"supportSuspendDebuggee", "supportTerminateDebuggee",
             "supportsBreakpointLocationsRequest", "supportsCancelRequest",
             "supportsClipboardContext", "supportsCompletionsRequest",
             "supportsConditionalBreakpoints", "supportsConfigurationDoneRequest",
             "supportsDataBreakpoints", "supportsDelayedStackTraceLoading",
             "supportsDisassembleRequest", "supportsEvaluateForHovers",
             "supportsExceptionFilterOptions", "supportsExceptionInfoRequest",
             "supportsExceptionOptions", "supportsFunctionBreakpoints",
             "supportsGotoTargetsRequest", "supportsHitConditionalBreakpoints",
             "supportsInstructionBreakpoints", "supportsLoadedSourcesRequest",
             "supportsLogPoints", "supportsModulesRequest", "supportsReadMemoryRequest",
             "supportsRestartFrame", "supportsRestartRequest", "supportsSetExpression",
             "supportsSetVariable", "supportsSingleThreadExecutionRequests",
             "supportsStepBack", "supportsStepInTargetsRequest",
             "supportsSteppingGranularity", "supportsTerminateRequest",
             "supportsTerminateThreadsRequest", "supportsValueFormattingOptions",
             "supportsWriteMemoryRequest"}),
    CapabilitiesEvent |-> Of(Struct("Capabilities"), {"capabilities"}) ]

Declared4 == [
    CompletionItem |-> Of(OptStr, {"detail", "sortText", "text", "type"})
        @@ Of(String, {"label"})
        @@ Of(OptInt, {"length", "selectionLength", "selectionStart", "start"}),
    CompletionsResponse |-> Of(Arr(Struct("CompletionItem")), {"targets"}),
    CompletionsRequest |-> Of(Integer, {"column"}) @@ Of(OptInt, {"frameId", "line"})
        @@ Of(String, {"text"}),
    ConfigurationDoneResponse |-> Empty,
    ConfigurationDoneRequest |-> Empty,
    ContinueResponse |-> Of(OptBool, {"allThreadsContinued"}),
    ContinueRequest |-> Of(OptBool, {"singleThread"}) @@ Of(Integer, {"threadId"}),
    ContinuedEvent |-> Of(OptBool, {"allThreadsContinued"}) @@ Of(Integer, {"threadId"}) ]

Declared5 == [
    DataBreakpointInfoResponse |-> Of(Opt(Arr(String)), {"accessTypes"})
        @@ Of(OptBool, {"canPersist"}) @@ Of(Var({String, Null}), {"dataId"})
        @@ Of(String, {"description"}),
    DataBreakpointInfoRequest |-> Of(OptInt, {"frameId", "variablesReference"})
        @@ Of(OptStr, {"mode"}) @@ Of(String, {"name"}),
    DisassembledInstruction |-> Of(String, {"address", "instruction"})
        @@ Of(OptInt, {"column", "endColumn", "endLine", "line"})
        @@ Of(OptStr, {"instructionBytes", "presentationHint", "symbol"})
        @@ Of(Opt(Struct("Source")), {"location"}),
    DisassembleResponse |-> Of(Arr(Struct("DisassembledInstruction")), {"instructions"}),
    DisassembleRequest |-> Of(Integer, {"instructionCount"})
        @@ Of(OptInt, {"instructionOffset", "offset"}) @@ Of(String, {"memoryReference"})
        @@ Of(OptBool, {"resolveSymbols"}),
    DisconnectResponse |-> Empty ]

Declared6 == [
    DisconnectRequest |-> Of(OptBool, {"restart", "suspendDebuggee", "terminateDebuggee"}),
    Message |-> Of(String, {"format"}) @@ Of(Integer, {"id"})
        @@ Of(OptBool, {"sendTelemetry", "showUser"}) @@ Of(OptStr, {"url", "urlLabel"})
        @@ Of(Opt(Object), {"variables"}),
    ErrorResponse |-> Of(Opt(Struct("Message")), {"error"}),
    VariablePresentationHint |-> Of(Opt(Arr(String)), {"attributes"})
        @@ Of(OptStr, {"kind", "visibility"}) @@ Of(OptBool, {"lazy"}),
    EvaluateResponse |-> Of(OptInt, {"indexedVariables", "namedVariables"})
        @@ Of(OptStr, {"memoryReference", "type"})
        @@ Of(Opt(Struct("VariablePresentationHint")), {"presentationHint"})
        @@ Of(String, {"result"}) @@ Of(Integer, {"variablesReference"}),
    ValueFormat |-> Of(OptBool, {"hex"}) ]

Declared7 == [
    EvaluateRequest |-> Of(OptStr, {"context"}) @@ Of(String, {"expression"})
        @@ Of(Opt(Struct("ValueFormat")), {"format"}) @@ Of(OptInt, {"frameId"}),
    ExceptionDetails |->
        Of(OptStr, {"evaluateName", "fullTypeName", "message", "stackTrace", "typeName"})
        @@ Of(Opt(Arr(Struct("ExceptionDetails"))), {"innerException"}),
    ExceptionInfoResponse |-> Of(String, {"breakMode", "exceptionId"})
        @@ Of(OptStr, {"description"}) @@ Of(Opt(Struct("ExceptionDetails")), {"details"}),
    ExceptionInfoRequest |-> Of(Integer, {"threadId"}),
    ExitedEvent |-> Of(Integer, {"exitCode"}),
    GotoResponse |-> Empty,
    GotoRequest |-> Of(Integer, {"targetId", "threadId"}),
    GotoTarget |-> Of(OptInt, {"column", "endColumn", "endLine"})
        @@ Of(Integer, {"id", "line"}) @@ Of(OptStr, {"instructionPointerReference"})
        @@ Of(String, {"label"}),
    GotoTargetsResponse |-> Of(Arr(Struct("GotoTarget")), {"targets"}) ]

Declared8 == [
    GotoTargetsRequest |-> Of(OptInt, {"column"}) @@ Of(Integer, {"line"})
        @@ Of(Struct("Source"), {"source"}),
    InitializeResponse |->
        Of(Opt(Arr(Struct("ColumnDescriptor"))), {"additionalModuleColumns"})
        @@ Of(Opt(Arr(Struct("BreakpointMode"))), {"breakpointModes"})
        @@ Of(Opt(Arr(String)), {"completionTriggerCharacters",
             "supportedChecksumAlgorithms"})
        @@ Of(Opt(Arr(Struct("ExceptionBreakpointsFilter"))), {"exceptionBreakpointFilters"})
        @@ Of(OptBool, {"supportSuspendDebuggee", "supportTerminateDebuggee",
             "supportsBreakpointLocationsRequest", "supportsCancelRequest",
             "supportsClipboardContext", "supportsCompletionsRequest",
             "supportsConditionalBreakpoints", "supportsConfigurationDoneRequest",
             "supportsDataBreakpoints", "supportsDelayedStackTraceLoading",
             "supportsDisassembleRequest", "supportsEvaluateForHovers",
             "supportsExceptionFilterOptions", "supportsExceptionInfoRequest",
             "supportsExceptionOptions", "supportsFunctionBreakpoints",
             "supportsGotoTargetsRequest", "supportsHitConditionalBreakpoints",
             "supportsInstructionBreakpoints", "supportsLoadedSourcesRequest",
             "supportsLogPoints", "supportsModulesRequest", "supportsReadMemoryRequest",
             "supportsRestartFrame", "supportsRestartRequest", "supportsSetExpression",
             "supportsSetVariable", "supportsSingleThreadExecutionRequests",
             "supportsStepBack", "supportsStepInTargetsRequest",
             "supportsSteppingGranularity", "supportsTerminateRequest",
             "supportsTerminateThreadsRequest", "supportsValueFormattingOptions",
             "supportsWriteMemoryRequest"}) ]

Declared9 == [
    InitializeRequest |-> Of(String, {"adapterID"})
        @@ Of(OptStr, {"clientID", "clientName", "locale", "pathFormat"})
        @@ Of(OptBool, {"columnsStartAt1", "linesStartAt1",
             "supportsArgsCanBeInterpretedByShell", "supportsInvalidatedEvent",
             "supportsMemoryEvent", "supportsMemoryReferences", "supportsProgressReporting",
             "supportsRunInTerminalRequest", "supportsStartDebuggingRequest",
             "supportsVariablePaging", "supportsVariableType"}),
    InitializedEvent |-> Empty,
    InvalidatedEvent |-> Of(Opt(Arr(String)), {"areas"})
        @@ Of(OptInt, {"stackFrameId", "threadId"}),
    LaunchResponse |-> Empty,
    LaunchRequest |-> Of(Opt(AnyJson), {"restart"}) @@ Of(OptBool, {"noDebug"}),
    LoadedSourceEvent |-> Of(String, {"reason"}) @@ Of(Struct("Source"), {"source"}),
    LoadedSourcesResponse |-> Of(Arr(Struct("Source")), {"sources"}),
    LoadedSourcesRequest |-> Empty ]

Declared10 == [
    MemoryEvent |-> Of(Integer, {"count", "offset"}) @@ Of(String, {"memoryReference"}),
    Module |->
        Of(OptStr, {"addressRange", "dateTimeStamp", "path", "symbolFilePath", "symbolStatus",
          "version"}) @@ Of(Var({Integer, String}), {"id"})
        @@ Of(OptBool, {"isOptimized", "isUserCode"}) @@ Of(String, {"name"}),
    ModuleEvent |-> Of(Struct("Module"), {"module"}) @@ Of(String, {"reason"}),
    ModulesResponse |-> Of(Arr(Struct("Module")), {"modules"}) @@ Of(OptInt, {"totalModules"}),
    ModulesRequest |-> Of(OptInt, {"moduleCount", "startModule"}),
    NextResponse |-> Empty,
    NextRequest |-> Of(OptStr, {"granularity"}) @@ Of(OptBool, {"singleThread"})
        @@ Of(Integer, {"threadId"}) ]

Declared11 == [
    OutputEvent |-> Of(OptStr, {"category", "group"})
        @@ Of(OptInt, {"column", "line", "variablesReference"}) @@ Of(Opt(AnyJson), {"data"})
        @@ Of(String, {"output"}) @@ Of(Opt(Struct("Source")), {"source"}),
    PauseResponse |-> Empty,
    PauseRequest |-> Of(Integer, {"threadId"}),
    ProcessEvent |-> Of(OptBool, {"isLocalProcess"}) @@ Of(String, {"name"})
        @@ Of(OptInt, {"pointerSize", "systemProcessId"}) @@ Of(OptStr, {"startMethod"}),
    ProgressEndEvent |-> Of(OptStr, {"message"}) @@ Of(String, {"progressId"}),
    ProgressStartEvent |-> Of(OptBool, {"cancellable"}) @@ Of(OptStr, {"message"})
        @@ Of(Opt(Number), {"percentage"}) @@ Of(String, {"progressId", "title"})
        @@ Of(OptInt, {"requestId"}),
    ProgressUpdateEvent |-> Of(OptStr, {"message"}) @@ Of(Opt(Number), {"percentage"})
        @@ Of(String, {"progressId"}) ]

Declared12 == [
    ReadMemoryResponse |-> Of(String, {"address"}) @@ Of(OptStr, {"data"})
        @@ Of(OptInt, {"unreadableBytes"}),
    ReadMemoryRequest |-> Of(Integer, {"count"}) @@ Of(String, {"memoryReference"})
        @@ Of(OptInt, {"offset"}),
    RestartFrameResponse |-> Empty,
    RestartFrameRequest |-> Of(Integer, {"frameId"}),
    RestartResponse |-> Empty,
    RestartRequest |-> Of(Opt(Object), {"arguments"}),
    ReverseContinueResponse |-> Empty,
    ReverseContinueRequest |-> Of(OptBool, {"singleThread"}) @@ Of(Integer, {"threadId"}),
    RunInTerminalResponse |-> Of(OptInt, {"processId", "shellProcessId"}) ]

Declared13 == [
    RunInTerminalRequest |-> Of(Arr(String), {"args"})
        @@ Of(OptBool, {"argsCanBeInterpretedByShell"}) @@ Of(String, {"cwd"})
        @@ Of(Opt(Object), {"env"}) @@ Of(OptStr, {"kind", "title"}),
    Scope |->
        Of(OptInt, {"column", "endColumn", "endLine", "indexedVariables", "line",
          "namedVariables"}) @@ Of(Boolean, {"expensive"}) @@ Of(String, {"name"})
        @@ Of(OptStr, {"presentationHint"}) @@ Of(Opt(Struct("Source")), {"source"})
        @@ Of(Integer, {"variablesReference"}),
    ScopesResponse |-> Of(Arr(Struct("Scope")), {"scopes"}),
    ScopesRequest |-> Of(Integer, {"frameId"}),
    SetBreakpointsResponse |-> Of(Arr(Struct("Breakpoint")), {"breakpoints"}),
    SourceBreakpoint |-> Of(OptInt, {"column"})
        @@ Of(OptStr, {"condition", "hitCondition", "logMessage", "mode"})
        @@ Of(Integer, {"line"}) ]

Declared14 == [
    SetBreakpointsRequest |-> Of(Opt(Arr(Struct("SourceBreakpoint"))), {"breakpoints"})
        @@ Of(Opt(Arr(Integer)), {"lines"}) @@ Of(Struct("Source"), {"source"})
        @@ Of(OptBool, {"sourceModified"}),
    SetDataBreakpointsResponse |-> Of(Arr(Struct("Breakpoint")), {"breakpoints"}),
    DataBreakpoint |-> Of(OptStr, {"accessType", "condition", "hitCondition"})
        @@ Of(String, {"dataId"}),
    SetDataBreakpointsRequest |-> Of(Arr(Struct("DataBreakpoint")), {"breakpoints"}),
    SetExceptionBreakpointsResponse |-> Of(Opt(Arr(Struct("Breakpoint"))), {"breakpoints"}),
    ExceptionPathSegment |-> Of(Arr(String), {"names"}) @@ Of(OptBool, {"negate"}),
    ExceptionOptions |-> Of(String, {"breakMode"})
        @@ Of(Opt(Arr(Struct("ExceptionPathSegment"))), {"path"}),
    ExceptionFilterOptions |-> Of(OptStr, {"condition", "mode"}) @@ Of(String, {"filterId"}) ]

Declared15 == [
    SetExceptionBreakpointsRequest |->
        Of(Opt(Arr(Struct("ExceptionOptions"))), {"exceptionOptions"})
        @@ Of(Opt(Arr(Struct("ExceptionFilterOptions"))), {"filterOptions"})
        @@ Of(Arr(String), {"filters"}),
    SetExpressionResponse |->
        Of(OptInt, {"indexedVariables", "namedVariables", "variablesReference"})
        @@ Of(OptStr, {"memoryReference", "type"})
        @@ Of(Opt(Struct("VariablePresentationHint")), {"presentationHint"})
        @@ Of(String, {"value"}),
    SetExpressionRequest |-> Of(String, {"expression", "value"})
        @@ Of(Opt(Struct("ValueFormat")), {"format"}) @@ Of(OptInt, {"frameId"}),
    SetFunctionBreakpointsResponse |-> Of(Arr(Struct("Breakpoint")), {"breakpoints"}),
    FunctionBreakpoint |-> Of(OptStr, {"condition", "hitCondition"}) @@ Of(String, {"name"}),
    SetFunctionBreakpointsRequest |-> Of(Arr(Struct("FunctionBreakpoint")), {"breakpoints"}),
    SetInstructionBreakpointsResponse |-> Of(Arr(Struct("Breakpoint")), {"breakpoints"}) ]

Declared16 == [
    InstructionBreakpoint |-> Of(OptStr, {"condition", "hitCondition", "mode"})
        @@ Of(String, {"instructionReference"}) @@ Of(OptInt, {"offset"}),
    SetInstructionBreakpointsRequest |->
        Of(Arr(Struct("InstructionBreakpoint")), {"breakpoints"}),
    SetVariableResponse |->
        Of(OptInt, {"indexedVariables", "namedVariables", "variablesReference"})
        @@ Of(OptStr, {"memoryReference", "type"}) @@ Of(String, {"value"}),
    SetVariableRequest |-> Of(Opt(Struct("ValueFormat")), {"format"})
        @@ Of(String, {"name", "value"}) @@ Of(Integer, {"variablesReference"}),
    SourceResponse |-> Of(String, {"content"}) @@ Of(OptStr, {"mimeType"}),
    SourceRequest |-> Of(Opt(Struct("Source")), {"source"})
        @@ Of(Integer, {"sourceReference"}) ]

Declared17 == [
    StackFrame |-> Of(OptBool, {"canRestart"}) @@ Of(Integer, {"column", "id", "line"})
        @@ Of(OptInt, {"endColumn", "endLine"})
        @@ Of(OptStr, {"instructionPointerReference", "presentationHint"})
        @@ Of(Opt(Var({Integer, String})), {"moduleId"}) @@ Of(String, {"name"})
        @@ Of(Opt(Struct("Source")), {"source"}),
    StackTraceResponse |-> Of(Arr(Struct("StackFrame")), {"stackFrames"})
        @@ Of(OptInt, {"totalFrames"}),
    StackFrameFormat |->
        Of(OptBool, {"includeAll", "line", "module", "parameterNames", "parameterTypes",
          "parameterValues", "parameters"}),
    StackTraceRequest |-> Of(Opt(Struct("StackFrameFormat")), {"format"})
        @@ Of(OptInt, {"levels", "startFrame"}) @@ Of(Integer, {"threadId"}),
    StartDebuggingResponse |-> Empty,
    StartDebuggingRequest |-> Of(Object, {"configuration"}) @@ Of(String, {"request"}),
    StepBackResponse |-> Empty ]

Declared18 == [
    StepBackRequest |-> Of(OptStr, {"granularity"}) @@ Of(OptBool, {"singleThread"})
        @@ Of(Integer, {"threadId"}),
    StepInResponse |-> Empty,
    StepInRequest |-> Of(OptStr, {"granularity"}) @@ Of(OptBool, {"singleThread"})
        @@ Of(OptInt, {"targetId"}) @@ Of(Integer, {"threadId"}),
    StepInTarget |-> Of(OptInt, {"column", "endColumn", "endLine", "line"})
        @@ Of(Integer, {"id"}) @@ Of(String, {"label"}),
    StepInTargetsResponse |-> Of(Arr(Struct("StepInTarget")), {"targets"}),
    StepInTargetsRequest |-> Of(Integer, {"frameId"}),
    StepOutResponse |-> Empty,
    StepOutRequest |-> Of(OptStr, {"granularity"}) @@ Of(OptBool, {"singleThread"})
        @@ Of(Integer, {"threadId"}) ]

Declared19 == [
    StoppedEvent |-> Of(OptBool, {"allThreadsStopped", "preserveFocusHint"})
        @@ Of(OptStr, {"description", "text"}) @@ Of(Opt(Arr(Integer)), {"hitBreakpointIds"})
        @@ Of(String, {"reason"}) @@ Of(OptInt, {"threadId"}),
    TerminateResponse |-> Empty,
    TerminateRequest |-> Of(OptBool, {"restart"}),
    TerminateThreadsResponse |-> Empty,
    TerminateThreadsRequest |-> Of(Opt(Arr(Integer)), {"threadIds"}),
    TerminatedEvent |-> Of(Opt(AnyJson), {"restart"}),
    ThreadEvent |-> Of(String, {"reason"}) @@ Of(Integer, {"threadId"}),
    Thread |-> Of(Integer, {"id"}) @@ Of(String, {"name"}),
    ThreadsResponse |-> Of(Arr(Struct("Thread")), {"threads"}),
    ThreadsRequest |-> Empty ]

Declared20 == [
    Variable |-> Of(OptStr, {"evaluateName", "memoryReference", "type"})
        @@ Of(OptInt, {"indexedVariables", "namedVariables"}) @@ Of(String, {"name", "value"})
        @@ Of(Opt(Struct("VariablePresentationHint")), {"presentationHint"})
        @@ Of(Integer, {"variablesReference"}),
    VariablesResponse |-> Of(Arr(Struct("Variable")), {"variables"}),
    VariablesRequest |-> Of(OptInt, {"count", "start"}) @@ Of(OptStr, {"filter"})
        @@ Of(Opt(Struct("ValueFormat")), {"format"}) @@ Of(Integer, {"variablesReference"}),
    WriteMemoryResponse |-> Of(OptInt, {"bytesWritten", "offset"}),
    WriteMemoryRequest |-> Of(OptBool, {"allowPartial"})
        @@ Of(String, {"data", "memoryReference"}) @@ Of(OptInt, {"offset"}) ]

Declared == Declared1 @@ Declared2 @@ Declared3 @@ Declared4 @@ Declared5 @@ Declared6 @@
            Declared7 @@ Declared8 @@ Declared9 @@ Declared10 @@ Declared11 @@ Declared12
            @@ Declared13 @@ Declared14 @@ Declared15 @@ Declared16 @@ Declared17 @@
            Declared18 @@ Declared19 @@ Declared20

\* The members of a struct with those it inherits.  Request, Response and
\* Event, from which most structs are derived, have none.
MembersOf(s) ==
    IF s = "StackFrameFormat" THEN Declared[s] @@ Declared.ValueFormat ELSE Declared[s]
=============================================================================
