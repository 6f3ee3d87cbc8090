SPECIFICATION Spec
CONSTANTS
    Reg = {1, 2}
    Width = 2
    Passes = {"early", "middle", "late"}
    Alphabet <- MCAlphabet
    Branches <- MCBranches
    LiveOut <- MCLiveOut
    MaxCode = 4
PROPERTIES SameEffect EndsEventually
CHECK_DEADLOCK FALSE
