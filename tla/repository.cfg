SPECIFICATION ListingSpec
CONSTANTS
    None = None
    Requests = {1, 2, 3, 4}
    Phones = {"alice"}
    MessageIds = {"SM1", "SM2", "SM3", "SM9"}
    Tasks = {"question", "retry", "rating", "rating retried"}
    Calls <- FourCallers
    Backends = {"sql", "memory"}
    MaxCalls <- FewCalls
    MaxErrors = 1
    PageSizes = {1}
CHECK_DEADLOCK FALSE
INVARIANTS
    SessionsTypeOK
    UniqueIds
    WriterKnowsItsColumns
    PagesCoverTheList
PROPERTIES
    ImplementsAtomicTable
