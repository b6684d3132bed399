\* A recommendation is computed while a suggestion replaces the row.
CONSTANTS
    Providers = {"aws", "azure", "gcp"}
    Dollar = 1
    ControlPlane <- MCControlPlane
    Rules <- MCRules
    Suggesters = {s1}
    Costers = {c1}
    Runs = {"q", "r"}
    Designs <- MCDesigns
    NodeCounts = {0, 2}
    Simulated <- MCSimulated
    Catalogs <- MCCatalogs
    Questions <- MCQuestions
    Faults = FALSE
    MaxRows = 2
SPECIFICATION Spec
INVARIANT RecommendationOfRow
CHECK_DEADLOCK FALSE
