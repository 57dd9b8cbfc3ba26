CONSTANTS
    f1 = f1  f2 = f2  p1 = p1  n1 = n1  t1 = t1  q1 = q1  u1 = u1  u2 = u2
    Callers = {u1, u2}
    Findings = {f1, f2}
    Remarks = {r1}
    Targets = {t1}
    Gaps = {g1}
    PatchPaths = {p1}
    NewPaths = {n1}
    PatchOf <- MCPatchOf
    QuestionOf <- MCQuestionOf
    None = None
    MaxCommands = 4
    MaxEvents = 1
SYMMETRY MCSymmetry
SPECIFICATION Spec
INVARIANTS SectionOnce FindingKept AppliedClosesGap
CHECK_DEADLOCK FALSE
