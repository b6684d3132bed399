\* Two suggestions and a request for costs beside each other and one after another.
CONSTANTS
    Providers = {"aws", "azure", "gcp"}
    Dollar = 1
    ControlPlane <- MCControlPlane
    Rules <- MCRules
    Suggesters = {s1, s2}
    Costers = {c1}
    Runs = {"q", "r"}
    Designs <- MCDesigns
    NodeCounts = {0, 2}
    Simulated <- MCSimulated
    Catalogs <- MCCatalogs
    Questions <- MCQuestions
    Faults = TRUE
    MaxRows = 2
SPECIFICATION Spec
INVARIANTS TypeOK BestMeetsTarget PlansCoverSpec PlansAreSold BudgetHonoured
PROPERTY NodesOnceStored
SYMMETRY Symmetry
CHECK_DEADLOCK FALSE
