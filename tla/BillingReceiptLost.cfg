CONSTANTS
    None = None
    Keep = Keep
    Handlers = {1, 2}
    LastDay = 1
    Modes <- OverlappingReceipts
    Invoices = {1, 2}
    Quotes = {1}
    Opportunities = {"o1"}
    Rates = {0, 50}
    Horizon = 1
    ContractHorizon = 2
    Clients = {"c1", "c2"}
    Projects = {"j1", "j2"}
    Contracts = {"ct1"}
    Expenses = {"e1"}
    TimeEntries = {"t1"}
    WorkItems = {"w1"}
    MaxReceipts = 2
    Payments <- MCPayments
    Subscriptions <- MCSubscriptions
    Products = {"yekoli"}
    Consumers = {"k1", "k2"}
    Scheduler = "scheduler"
    Lead = 1
    MaxDrawn = 1
SPECIFICATION Spec
PROPERTIES ReceiptsStand
CHECK_DEADLOCK FALSE
