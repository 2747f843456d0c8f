\* The runner and an operator; two providers and a node that changes hands.
SPECIFICATION Spec
CONSTANTS
    n1 = n1
    n2 = n2
    Nodes = {n1, n2}
    Runner = runner
    Operators = {operator}
    OwnersOf <- MCOwnersOf
    ModelsOf <- MCModelsOf
    TiersOf <- MCTiersOf
    RunnerAsk <- MCRunnerAsk
    Asks <- MCAsks
INVARIANT RightProviderJudged
PROPERTIES
    TakesTurns
    EveryCandidateChallenged
