SPECIFICATION Spec
CONSTANTS
    Name = {"a", "b", "x"}
    Path <- MCPath
    Size <- MCSize
    Cut = "cut"
    Umask <- MCUmask
    Now = 8
    Later = 9
    SrcTrees <- MCSrcTrees
    DstTrees <- MCDstTrees
    MaxFaults = 2
INVARIANT DifferenceSeen
CHECK_DEADLOCK FALSE
