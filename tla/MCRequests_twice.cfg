\* Two suggestions for one run beside each other.
CONSTANTS
    Providers = {"aws", "azure", "gcp"}
    Dollar = 1
    ControlPlane <- MCControlPlane
    Rules <- MCRules
    Suggesters = {s1, s2}
    Costers = {}
    Runs = {"q", "r"}
    Designs <- MCDesigns
    NodeCounts = {0, 2}
    Simulated <- MCSimulated
    Catalogs <- MCCatalogs
    Questions <- MCQuestions
    Faults = FALSE
    MaxRows = 3
SPECIFICATION Spec
INVARIANT OneRowPerRun
CHECK_DEADLOCK FALSE
