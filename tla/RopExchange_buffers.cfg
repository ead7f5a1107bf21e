\* Every call the batch has, with others before and after it, and every reply to them.  An exchange
\* comes to its end, so the run has states without a step.
SPECIFICATION Spec
CONSTANTS
    MaxByte = 12
    MaxWord = 160
    TableStringLimit = 3
    MaxSlots = 2
    Menus <- InTurn
INVARIANTS
    ServerDoesWhatWasAsked
    SlotsNameTheirObjects
    AnswersAreTheServers
CHECK_DEADLOCK FALSE
