SPECIFICATION FairSpec
CONSTANTS
    e1 = e1
    q1 = q1
    ExecReqs = {e1}
    Questions = {q1}
    PlanReqs = {1}
    PlanIds = {1, 2}
    Answers = {"allow", "deny"}
    PlanAnswers = {"approve", "reject", "revise"}
    NSurfaces = 2
    Window = 1
CHECK_DEADLOCK FALSE
INVARIANTS PlansTypeOK RunsApproved
PROPERTIES TurnsGoOn DecisionKept NoLateCard
