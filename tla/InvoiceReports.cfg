SPECIFICATION Spec
CONSTANTS
    u1 = u1
    u2 = u2
    c1 = c1
    c2 = c2
    deleted = deleted
    notInserted = notInserted
    none = none
    Users = {u1, u2}
    Creations = {c1, c2}
    MaxId = 3
    ItemLists <- MCItemLists
    Due <- MCDue
    Readers = {u1}
    Walks <- MCWalks
    NewStatuses = {"sent"}
    Deleted = deleted
    NotInserted = notInserted
    None = none
INVARIANTS
    AmountIsThatOfItems
    QuietStatsAddUp
    PagesMeetEachOnce
    ListedWithItems
