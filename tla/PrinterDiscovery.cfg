SPECIFICATION DiscoverySpec
CONSTANTS
    d1 = d1
    d2 = d2
    p1 = p1
    p2 = p2
    ff00 = ff00
    model1 = model1
    model2 = model2
    fw1 = fw1
    model1fw1 = model1fw1
    fw9 = fw9
    status = status
    Blank = Blank
    None = None
    Requests = {r1, r2}
    Devices = {d1, d2}
    Unasked = {status}
    MaxRaw = 3
    Catalogue <- MCCatalogue
    ServiceOf <- MCServiceOf
    ModelOf <- MCModelOf
    FirmwareOf <- MCFirmwareOf
    Advertised <- MCAdvertised
    Named <- MCNamed
    Gatt <- MCGatt
    Writable <- MCWritable
    NotifyCount <- MCNotifyCount
    ModelReply <- MCModelReply
    FirmwareReply <- MCFirmwareReply
    Within <- MCWithin
INVARIANTS
    DiscoveryTypeOK
    VerifiedIsEarned
    GenuinePasses
    LetsGo
PROPERTIES
    RequestsEnd
CHECK_DEADLOCK FALSE
