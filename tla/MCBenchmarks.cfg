SPECIFICATION MCSpec
CONSTANTS
    Workers = {1, 2}
    NumWarehouses = 2
    NumDistricts = 2
    NumCustomers = 2
    NumItems = 2
    MaxLines = 2
    FirstNew = 2
    StartStock = 12
    LastName <- MCLastName
    OrderLines <- MCLines
    Amounts = {1}
    Threshold = 0
    NumSuppliers = 2
    Nation <- MCNation
    Region <- MCRegion
    Dull = {1}
    Scenarios <- TpccScenarios
    Accounts = {1, 2}
    Symbols = {1}
    Quotes = {1, 2}
    FeedLen = 2
    MaxUpdates = 1
INVARIANTS
    TpccConsistent
    BooksConsistent
CHECK_DEADLOCK FALSE
