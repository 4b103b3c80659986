CONSTANTS
    b1 = b1
    c1 = c1
    Chain = {c1}
    Project = {}
    NSteps = 3
    StepTask <- MCStepTask
    Task <- MCTask
    MaxCrashes = 2
SPECIFICATION FairChainSpec
INVARIANTS RunningHasWorker OneStepAtATime PlanMatchesTasks ClearedPlanNeverRuns
PROPERTIES OneWorkerPerTask FinalStaysFinal EveryTaskReported StepsInOrder EveryChainEnds
CHECK_DEADLOCK FALSE
