CONSTANTS
    l1 = l1
    l2 = l2
    v1 = v1
    v2 = v2
    decl = decl
    unk = unk
    off = off
    Absent = Absent
    None = None
    Boot = Boot
    Links = {l1, l2}
    Working = {v1, v2}
    Declared = {decl}
    Unknown = {unk}
    Disabled = {off}
    Configs <- LiveConfigs
    Demo <- MCDemo
    Clients = {c1}
    p1 = p1
    LayoutsKept = {a}
    Bad = Bad
    ConfIds = {l1}
    ConfPoints = {p1}
    ConfFiles <- MCFiles
    DemoList <- MCDemoList
    MaxLinks = 2
    IecT1 = 3
    IecT2 = 2
    IecT3 = 4
    IecW = 3
    IecK = 4
    Modulus = 5
    Packets = 2
    JayT1 = 2
    MaxTransfers = 3
SPECIFICATION LiveSpec
PROPERTIES
    ApplyEnds
    KeepsTrying
