\* Nothing fails, one callback: what best_scenario.yaml holds at the end.
CONSTANTS
    c1 = c1
    c2 = c2
    Procs = {p1, p2}
    Cands = {c1, c2}
    NoCand = NoCand
    Self = Self
    Batches <- MCBatches
    ParentYamls = {"parent"}
    Faults = FALSE
    MaxCallbacks = 1
SPECIFICATION Spec
INVARIANT BestScenarioIsBest
CHECK_DEADLOCK FALSE
