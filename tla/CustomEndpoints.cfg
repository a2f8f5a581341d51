\* A resource with a custom endpoint, in a spec that is parsed first or not.
CONSTANTS
    Published <- MCPublished
    Plural <- MCPlural
    Irregular = {}
    Subsets = {{"list", "read"}}
    Extras <- MCExtras
    Relatable <- MCRelatable
    MaxSettings = 2
SPECIFICATION Spec
INVARIANT CustomEndpointsMounted
CHECK_DEADLOCK FALSE
