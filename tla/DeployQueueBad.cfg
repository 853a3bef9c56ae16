\* A statement about the program that does not hold: TLC ends with a counterexample.
\* The other statements that fail, and what to change below to see how:
\*   AwaitedRowExists: Budgets <- OneTeardown
\*   CancelledIsNotBuilt (PROPERTY): Projects = {p}, MaxInst = 1, Budgets <- OneCancel
\*   DestroyedIsTerminal (PROPERTY): Projects = {p}, MaxInst = 1, Budgets <- OneTeardown
\*   OneInFlight: Budgets <- Nothing
\*   QueuedRowIsAlwaysOwned: Budgets <- OverlapAndCrash
\*   SettledRowAlwaysFreesSlot: Projects = {p}, MaxInst = 1, Budgets <- OneTeardown
\*   ShiftFindsEntry (PROPERTY): Budgets <- OneCancel
\*   WaitingEntryStaysQueued: Budgets <- OneCancel
SPECIFICATION Spec
CONSTANTS
    Projects = {p, q}
    MaxInst = 3
    Budgets <- OneOverlap
INVARIANTS
    EntriesAreUnique
CHECK_DEADLOCK FALSE
