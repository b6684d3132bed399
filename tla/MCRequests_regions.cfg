\* Costs of all providers, for prices of two regions.
CONSTANTS
    Providers = {"aws", "azure", "gcp"}
    Dollar = 1
    ControlPlane <- MCControlPlane
    Rules <- MCRules
    Suggesters = {s1}
    Costers = {c1}
    Runs = {"q", "r"}
    Designs <- MCDesigns
    NodeCounts = {0, 2}
    Simulated <- MCSimulated
    Catalogs <- MCCatalogs
    Questions <- MCAllCosts
    Faults = FALSE
    MaxRows = 2
SPECIFICATION Spec
INVARIANT CostsAreSold
CHECK_DEADLOCK FALSE
