------------------------------ MODULE Protocol ------------------------------
(***************************************************************************)
(* The type information of the protocol's structs: the name of each struct *)
(* and the serialized names of its fields (DAP_IMPLEMENT_STRUCT_TYPEINFO   *)
(* and DAP_FIELD in protocol_types.cpp, protocol_requests.cpp,             *)
(* protocol_response.cpp and protocol_events.cpp).  A field has the type   *)
(* of the member it is declared for.                                       *)
(***************************************************************************)
LOCAL INSTANCE Declarations

Info(name, fields) == [name |-> name, fields |-> fields]

\* protocol_types.cpp
TypesA == [
    Checksum |-> Info("", {"algorithm", "checksum"}),
    Source |-> Info("", {"adapterData", "checksums", "name", "origin", "path",
        "presentationHint", "sourceReference", "sources"}),
    Breakpoint |-> Info("", {"column", "endColumn", "endLine", "id", "instructionReference",
        "line", "message", "offset", "reason", "source", "verified"}),
    BreakpointLocation |-> Info("", {"column", "endColumn", "endLine", "line"}),
    ColumnDescriptor |-> Info("", {"attributeName", "format", "label", "type", "width"}),
    BreakpointMode |-> Info("", {"appliesTo", "description", "label", "mode"}),
    ExceptionBreakpointsFilter |-> Info("", {"conditionDescription", "default", "description",
        "filter", "label", "supportsCondition"}),
    Capabilities |-> Info("", {"additionalModuleColumns", "breakpointModes",
        "completionTriggerCharacters", "exceptionBreakpointFilters",
        "supportSuspendDebuggee", "supportTerminateDebuggee",
        "supportedChecksumAlgorithms", "supportsBreakpointLocationsRequest",
        "supportsCancelRequest", "supportsClipboardContext", "supportsCompletionsRequest",
        "supportsConditionalBreakpoints", "supportsConfigurationDoneRequest",
        "supportsDataBreakpoints", "supportsDelayedStackTraceLoading",
        "supportsDisassembleRequest", "supportsEvaluateForHovers",
        "supportsExceptionFilterOptions", "supportsExceptionInfoRequest",
        "supportsExceptionOptions", "supportsFunctionBreakpoints",
        "supportsGotoTargetsRequest", "supportsHitConditionalBreakpoints",
        "supportsInstructionBreakpoints", "supportsLoadedSourcesRequest",
        "supportsLogPoints", "supportsModulesRequest", "supportsReadMemoryRequest",
        "supportsRestartFrame", "supportsRestartRequest", "supportsSetExpression",
        "supportsSetVariable", "supportsSingleThreadExecutionRequests",
        "supportsStepBack", "supportsStepInTargetsRequest", "supportsSteppingGranularity",
        "supportsTerminateRequest", "supportsTerminateThreadsRequest",
        "supportsValueFormattingOptions", "supportsWriteMemoryRequest"}),
    CompletionItem |-> Info("", {"detail", "label", "length", "selectionLength",
        "selectionStart", "sortText", "start", "text", "type"}),
    DisassembledInstruction |-> Info("", {"address", "column", "endColumn", "endLine",
        "instruction", "instructionBytes", "line", "location", "presentationHint",
        "symbol"}) ]

TypesB == [
    Message |-> Info("", {"format", "id", "sendTelemetry", "showUser", "url", "urlLabel",
        "variables"}),
    VariablePresentationHint |-> Info("", {"attributes", "kind", "lazy", "visibility"}),
    ValueFormat |-> Info("", {"hex"}),
    ExceptionDetails |-> Info("", {"evaluateName", "fullTypeName", "innerException",
        "message", "stackTrace", "typeName"}),
    GotoTarget |-> Info("", {"column", "endColumn", "endLine", "id",
        "instructionPointerReference", "label", "line"}),
    Module |-> Info("", {"addressRange", "dateTimeStamp", "id", "isOptimized", "isUserCode",
        "name", "path", "symbolFilePath", "symbolStatus", "version"}),
    Scope |-> Info("", {"column", "endColumn", "endLine", "expensive", "indexedVariables",
        "line", "name", "namedVariables", "presentationHint", "source",
        "variablesReference"}),
    SourceBreakpoint |-> Info("", {"column", "condition", "hitCondition", "line",
        "logMessage", "mode"}),
    DataBreakpoint |-> Info("", {"accessType", "condition", "dataId", "hitCondition"}),
    ExceptionPathSegment |-> Info("", {"names", "negate"}),
    ExceptionOptions |-> Info("", {"breakMode", "path"}),
    ExceptionFilterOptions |-> Info("", {"condition", "filterId", "mode"}),
    FunctionBreakpoint |-> Info("", {"condition", "hitCondition", "name"}),
    InstructionBreakpoint |-> Info("", {"condition", "hitCondition", "instructionReference",
        "mode", "offset"}),
    StackFrame |-> Info("", {"canRestart", "column", "endColumn", "endLine", "id",
        "instructionPointerReference", "line", "moduleId", "name", "presentationHint",
        "source"}),
    StackFrameFormat |-> Info("", {"includeAll", "line", "module", "parameterNames",
        "parameterTypes", "parameterValues", "parameters"}) ]

TypesC == [
    StepInTarget |-> Info("", {"column", "endColumn", "endLine", "id", "label", "line"}),
    Thread |-> Info("", {"id", "name"}),
    Variable |-> Info("", {"evaluateName", "indexedVariables", "memoryReference", "name",
        "namedVariables", "presentationHint", "type", "value", "variablesReference"}) ]

\* protocol_requests.cpp
RequestsA == [
    AttachRequest |-> Info("attach", {"__restart"}),
    BreakpointLocationsRequest |-> Info("breakpointLocations", {"column", "endColumn",
        "endLine", "line", "source"}),
    CancelRequest |-> Info("cancel", {"progressId", "requestId"}),
    CompletionsRequest |-> Info("completions", {"column", "frameId", "line", "text"}),
    ConfigurationDoneRequest |-> Info("configurationDone", {}),
    ContinueRequest |-> Info("continue", {"singleThread", "threadId"}),
    DataBreakpointInfoRequest |-> Info("dataBreakpointInfo", {"frameId", "mode", "name",
        "variablesReference"}),
    DisassembleRequest |-> Info("disassemble", {"instructionCount", "instructionOffset",
        "memoryReference", "offset", "resolveSymbols"}),
    DisconnectRequest |-> Info("disconnect", {"restart", "suspendDebuggee",
        "terminateDebuggee"}),
    EvaluateRequest |-> Info("evaluate", {"context", "expression", "format", "frameId"}),
    ExceptionInfoRequest |-> Info("exceptionInfo", {"threadId"}),
    GotoRequest |-> Info("goto", {"targetId", "threadId"}),
    GotoTargetsRequest |-> Info("gotoTargets", {"column", "line", "source"}),
    InitializeRequest |-> Info("initialize", {"adapterID", "clientID", "clientName",
        "columnsStartAt1", "linesStartAt1", "locale", "pathFormat",
        "supportsArgsCanBeInterpretedByShell", "supportsInvalidatedEvent",
        "supportsMemoryEvent", "supportsMemoryReferences", "supportsProgressReporting",
        "supportsRunInTerminalRequest", "supportsStartDebuggingRequest",
        "supportsVariablePaging", "supportsVariableType"}),
    LaunchRequest |-> Info("launch", {"__restart", "noDebug"}),
    LoadedSourcesRequest |-> Info("loadedSources", {}),
    ModulesRequest |-> Info("modules", {"moduleCount", "startModule"}),
    NextRequest |-> Info("next", {"granularity", "singleThread", "threadId"}),
    PauseRequest |-> Info("pause", {"threadId"}),
    ReadMemoryRequest |-> Info("readMemory", {"count", "memoryReference", "offset"}),
    RestartFrameRequest |-> Info("restartFrame", {"frameId"}),
    RestartRequest |-> Info("restart", {"arguments"}),
    ReverseContinueRequest |-> Info("reverseContinue", {"singleThread", "threadId"}) ]

RequestsB == [
    RunInTerminalRequest |-> Info("runInTerminal", {"args", "argsCanBeInterpretedByShell",
        "cwd", "env", "kind", "title"}),
    ScopesRequest |-> Info("scopes", {"frameId"}),
    SetBreakpointsRequest |-> Info("setBreakpoints", {"breakpoints", "lines", "source",
        "sourceModified"}),
    SetDataBreakpointsRequest |-> Info("setDataBreakpoints", {"breakpoints"}),
    SetExceptionBreakpointsRequest |-> Info("setExceptionBreakpoints", {"exceptionOptions",
        "filterOptions", "filters"}),
    SetExpressionRequest |-> Info("setExpression", {"expression", "format", "frameId",
        "value"}),
    SetFunctionBreakpointsRequest |-> Info("setFunctionBreakpoints", {"breakpoints"}),
    SetInstructionBreakpointsRequest |-> Info("setInstructionBreakpoints", {"breakpoints"}),
    SetVariableRequest |-> Info("setVariable", {"format", "name", "value",
        "variablesReference"}),
    SourceRequest |-> Info("source", {"source", "sourceReference"}),
    StackTraceRequest |-> Info("stackTrace", {"format", "levels", "startFrame", "threadId"}),
    StartDebuggingRequest |-> Info("startDebugging", {"configuration", "request"}),
    StepBackRequest |-> Info("stepBack", {"granularity", "singleThread", "threadId"}),
    StepInRequest |-> Info("stepIn", {"granularity", "singleThread", "targetId", "threadId"}),
    StepInTargetsRequest |-> Info("stepInTargets", {"frameId"}),
    StepOutRequest |-> Info("stepOut", {"granularity", "singleThread", "threadId"}),
    TerminateRequest |-> Info("terminate", {"restart"}),
    TerminateThreadsRequest |-> Info("terminateThreads", {"threadIds"}),
    ThreadsRequest |-> Info("threads", {}),
    VariablesRequest |-> Info("variables", {"count", "filter", "format", "start",
        "variablesReference"}),
    WriteMemoryRequest |-> Info("writeMemory", {"allowPartial", "data", "memoryReference",
        "offset"}) ]

\* protocol_response.cpp
ResponsesA == [
    AttachResponse |-> Info("", {}),
    BreakpointLocationsResponse |-> Info("", {"breakpoints"}),
    CancelResponse |-> Info("", {}),
    CompletionsResponse |-> Info("", {"targets"}),
    ConfigurationDoneResponse |-> Info("", {}),
    ContinueResponse |-> Info("", {"allThreadsContinued"}),
    DataBreakpointInfoResponse |-> Info("", {"accessTypes", "canPersist", "dataId",
        "description"}),
    DisassembleResponse |-> Info("", {"instructions"}),
    DisconnectResponse |-> Info("", {}),
    ErrorResponse |-> Info("", {"error"}),
    EvaluateResponse |-> Info("", {"indexedVariables", "memoryReference", "namedVariables",
        "presentationHint", "result", "type", "variablesReference"}),
    ExceptionInfoResponse |-> Info("", {"breakMode", "description", "details", "exceptionId"}),
    GotoResponse |-> Info("", {}),
    GotoTargetsResponse |-> Info("", {"targets"}),
    InitializeResponse |-> Info("", {"additionalModuleColumns", "breakpointModes",
        "completionTriggerCharacters", "exceptionBreakpointFilters",
        "supportSuspendDebuggee", "supportTerminateDebuggee",
        "supportedChecksumAlgorithms", "supportsBreakpointLocationsRequest",
        "supportsCancelRequest", "supportsClipboardContext", "supportsCompletionsRequest",
        "supportsConditionalBreakpoints", "supportsConfigurationDoneRequest",
        "supportsDataBreakpoints", "supportsDelayedStackTraceLoading",
        "supportsDisassembleRequest", "supportsEvaluateForHovers",
        "supportsExceptionFilterOptions", "supportsExceptionInfoRequest",
        "supportsExceptionOptions", "supportsFunctionBreakpoints",
        "supportsGotoTargetsRequest", "supportsHitConditionalBreakpoints",
        "supportsInstructionBreakpoints", "supportsLoadedSourcesRequest",
        "supportsLogPoints", "supportsModulesRequest", "supportsReadMemoryRequest",
        "supportsRestartFrame", "supportsRestartRequest", "supportsSetExpression",
        "supportsSetVariable", "supportsSingleThreadExecutionRequests",
        "supportsStepBack", "supportsStepInTargetsRequest", "supportsSteppingGranularity",
        "supportsTerminateRequest", "supportsTerminateThreadsRequest",
        "supportsValueFormattingOptions", "supportsWriteMemoryRequest"}),
    LaunchResponse |-> Info("", {}),
    LoadedSourcesResponse |-> Info("", {"sources"}),
    ModulesResponse |-> Info("", {"modules", "totalModules"}),
    NextResponse |-> Info("", {}),
    PauseResponse |-> Info("", {}),
    ReadMemoryResponse |-> Info("", {"address", "data", "unreadableBytes"}),
    RestartFrameResponse |-> Info("", {}),
    RestartResponse |-> Info("", {}),
    ReverseContinueResponse |-> Info("", {}),
    RunInTerminalResponse |-> Info("", {"processId", "shellProcessId"}),
    ScopesResponse |-> Info("", {"scopes"}),
    SetBreakpointsResponse |-> Info("", {"breakpoints"}) ]

ResponsesB == [
    SetDataBreakpointsResponse |-> Info("", {"breakpoints"}),
    SetExceptionBreakpointsResponse |-> Info("", {"breakpoints"}),
    SetExpressionResponse |-> Info("", {"indexedVariables", "memoryReference",
        "namedVariables", "presentationHint", "type", "value", "variablesReference"}),
    SetFunctionBreakpointsResponse |-> Info("", {"breakpoints"}),
    SetInstructionBreakpointsResponse |-> Info("", {"breakpoints"}),
    SetVariableResponse |-> Info("", {"indexedVariables", "memoryReference", "namedVariables",
        "type", "value", "variablesReference"}),
    SourceResponse |-> Info("", {"content", "mimeType"}),
    StackTraceResponse |-> Info("", {"stackFrames", "totalFrames"}),
    StartDebuggingResponse |-> Info("", {}),
    StepBackResponse |-> Info("", {}),
    StepInResponse |-> Info("", {}),
    StepInTargetsResponse |-> Info("", {"targets"}),
    StepOutResponse |-> Info("", {}),
    TerminateResponse |-> Info("", {}),
    TerminateThreadsResponse |-> Info("", {}),
    ThreadsResponse |-> Info("", {"threads"}),
    VariablesResponse |-> Info("", {"variables"}),
    WriteMemoryResponse |-> Info("", {"bytesWritten", "offset"}) ]

\* protocol_events.cpp
Events == [
    BreakpointEvent |-> Info("breakpoint", {"breakpoint", "reason"}),
    CapabilitiesEvent |-> Info("capabilities", {"capabilities"}),
    ContinuedEvent |-> Info("continued", {"allThreadsContinued", "threadId"}),
    ExitedEvent |-> Info("exited", {"exitCode"}),
    InitializedEvent |-> Info("initialized", {}),
    InvalidatedEvent |-> Info("invalidated", {"areas", "stackFrameId", "threadId"}),
    LoadedSourceEvent |-> Info("loadedSource", {"reason", "source"}),
    MemoryEvent |-> Info("memory", {"count", "memoryReference", "offset"}),
    ModuleEvent |-> Info("module", {"module", "reason"}),
    OutputEvent |-> Info("output", {"category", "column", "data", "group", "line", "output",
        "source", "variablesReference"}),
    ProcessEvent |-> Info("process", {"isLocalProcess", "name", "pointerSize", "startMethod",
        "systemProcessId"}),
    ProgressEndEvent |-> Info("progressEnd", {"message", "progressId"}),
    ProgressStartEvent |-> Info("progressStart", {"cancellable", "message", "percentage",
        "progressId", "requestId", "title"}),
    ProgressUpdateEvent |-> Info("progressUpdate", {"message", "percentage", "progressId"}),
    StoppedEvent |-> Info("stopped", {"allThreadsStopped", "description", "hitBreakpointIds",
        "preserveFocusHint", "reason", "text", "threadId"}),
    TerminatedEvent |-> Info("terminated", {"restart"}),
    ThreadEvent |-> Info("thread", {"reason", "threadId"}) ]

Requests == RequestsA @@ RequestsB
Infos == TypesA @@ TypesB @@ TypesC @@ Requests @@ ResponsesA @@ ResponsesB @@ Events

\* DAP_FIELD(FIELD, NAME): the member a field is declared for has the field's
\* name, with these exceptions.
MemberOf(n) == CASE n = "__restart" -> "restart" [] n = "default" -> "def" [] OTHER -> n

\* Every struct with its fields, and with the members that no field stands for.
Structs == DOMAIN Infos
Fields == [s \in Structs |-> [n \in Infos[s].fields |-> MembersOf(s)[MemberOf(n)]]]
Unlisted == [s \in Structs |->
    LET members == MembersOf(s)
    IN [m \in DOMAIN members \ {MemberOf(n) : n \in Infos[s].fields} |-> members[m]]]

\* The dispatch of messages looks their names up (session.cpp:328, :400): no
\* two requests and no two events share one.
ASSUME NamesAreKeys ==
    \A table \in {Requests, Events} : \A s, t \in DOMAIN table :
        table[s].name = table[t].name => s = t
=============================================================================
