SPECIFICATION FairSpec
CONSTANTS
    bun1 = bun1
    bun2 = bun2
    link1 = link1
    link2 = link2
    sub1 = sub1
    req1 = req1
    req2 = req2
    dec1 = dec1
    Bundle = {bun1, bun2}
    Subscriber = {sub1}
    Request = {req1, req2}
    Decoder = {dec1}
    Metadata = {link1, link2}
    Applink <- MCApplink
    None = None
CHECK_DEADLOCK FALSE
INVARIANTS
    OpenIsTimed
PROPERTIES
    ImplementsRequests
    RequestEnds
