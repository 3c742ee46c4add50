\* Rings over seven distinct IP:port addresses, every add/remove order.
CONSTANTS
    Address <- IpAddresses
    Probe <- Digests
    MaxK = 3
SPECIFICATION Spec
INVARIANT LookupMatchesReference
