SPECIFICATION Spec
CONSTANTS
    Values <- MCValues
    Strategy <- MCStrategy
INVARIANTS
    RecurseJoins
    AddOnlyAddsNoReference
    InsertTwiceIsInsertOnce
