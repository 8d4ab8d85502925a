SPECIFICATION Spec
CONSTANTS
    HeadLen = 2
    GuidLen = 1
    Body <- MCBody
    ClientPackets <- MCClientPackets
    LogicPackets <- MCLogicPackets
    ClientIn = 8
    ClientOut = 4
    LogicIn = 6
    LogicOut = 6
    PartialSends = 1
    PacketMaxLen = 10
CHECK_DEADLOCK FALSE
INVARIANT TypeOK
INVARIANT UpIntact
 
INVARIANT AbortsExplained
INVARIANT ReleasedForCause
PROPERTY PartialPacketHangs
INVARIANT HeadsInsideRing
