SPECIFICATION Spec
CONSTANTS
    Topics = {"swagger"}
    Declarations <- SecurityDeclarations
    Contexts <- SecurityContexts
    Stores <- SecurityStores
    Streams <- ServerStreams
    Calls = {c1, c2}
    Documents <- LoadedDocuments
    Requests <- LoadRequests
    SwaggerCases <- SwaggerCalls
    SwaggerInputs <- SwaggerSupplies
    Characters <- SwaggerCharacters
    SwaggerReplies <- SwaggerResponses
    RefDocuments <- EntryAndFragment
    FloorCases <- FloorChoices
    MediaCases <- MediaSelections
    RouteCases <- RoutedInputs
    FormCases <- FormFields
    WireCases <- WireExchanges
    Names = 2
    ServerCases <- ServerChoices
INVARIANT PreflightReportsWhatIsRequired
