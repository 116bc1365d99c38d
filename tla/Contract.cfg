SPECIFICATION ClientSpec
CONSTANTS
    Validate <- ValidateType
    Dump <- DumpType
    Reads <- MCReads
    Zoned <- MCZoned
    Midnight <- MCMidnight
    AsUtc <- MCAsUtc
    DayOf <- MCDayOf
    Int32 <- MCInt32
    WithNul <- MCWithNul
    Serializes <- JsonDumps
    Classes <- MCClasses
    FieldsOf <- MCFieldsOf
    Names <- MCNames
    NameOf <- MCNameOf
    Types <- MCTypes
    ErrorClasses <- MCErrorClasses
    ErrorSchema <- MCErrorSchema
    Services <- MCServices
    Texts <- MCTexts
    Precedes <- MCPrecedes
    Split <- MCSplit
INVARIANTS
    DocTypeOK
    ReferencesResolve
    StoredOrRefused
    ResponseIsPublished
    DefaultIsKept
    ListStoresWhatOneWould
    
PROPERTIES
    RoundTrip
    UpdateTouchesWhatWasSent
CHECK_DEADLOCK FALSE
