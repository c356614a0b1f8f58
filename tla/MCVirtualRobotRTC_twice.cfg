\* VirtualRobotRTC::getConnectedRtcs over connectors made and removed at will.
CONSTANTS
    vr = vr
    r1 = r1
    r2 = r2
    r3 = r3
    Self = vr
    RTCs = {r1, r2, r3}
    OutInfos <- MCOutInfos
    InInfos <- MCInInfos
    ExtTrig <- MCExtTrigTwice
    MaxConns = 3
SPECIFICATION Spec
INVARIANT ConnectedRtcsDistinct
