SPECIFICATION Spec
CONSTANTS
    URIs <- MCURIs
    Stou64 <- MCStou64
    DNs <- MCDNs
INVARIANTS
    
    RouteAgrees
    
    AuthFromDn
