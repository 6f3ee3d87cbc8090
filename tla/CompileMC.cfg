SPECIFICATION Spec
CONSTANTS
    ParseExpression <- Expression
    GenerateRoot <- GenRoot
    Meaning <- Meant
    IsLegal <- WellFormed
    TypeInC <- TypeOf
    BlockIds <- Blocks0
    Entry = 1
    Exit = 3
    NoControl = none
    Width = 8
    Bits <- Bits0
    Unsigned <- Unsigned0
    Global <- Global0
    Address <- Address0
    Stride = 1000
    MaxBlocks = 100
    ByteBits = 2
    Aggregates <- Aggregates0
    Protos <- Protos0
    Scope <- Scope0
    Literals <- Literals0
    TypeNames <- TypeNames0
    Rounds = 16
    Sources <- Sources0
    Memories <- Memories0
    SwitchSmalls = {1, 12}
INVARIANTS PredecessorsMatch SuccessorsDecide ComputesAsC TypedAsC
CHECK_DEADLOCK FALSE
