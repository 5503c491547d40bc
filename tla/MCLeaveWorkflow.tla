-------------------------- MODULE MCLeaveWorkflow --------------------------
(* Instances of LeaveWorkflow for TLC.  Day 3 is a Saturday.               *)
EXTENDS LeaveWorkflow, TLC

CONSTANTS r1, r2, r3, t1, t2

MCWeekend == {3}
OneDay == [first |-> 1, last |-> 1]
TwoDays == [first |-> 2, last |-> 3]
Overlapping == [first |-> 1, last |-> 2]
Inverted == [first |-> 3, last |-> 2]
MCSpans == {OneDay, TwoDays, Overlapping}
MCSpans2 == {OneDay, TwoDays}
MCSpans1 == {TwoDays}
MCSpansAnyOrder == {TwoDays, Inverted}
MCAdjustments == {[allocated |-> -1, used |-> 1]}
NoAdjustments == {}

Workflow == {"create", "approve", "hr_approve", "reject", "cancel"}
WorkflowAndAdjust == Workflow \cup {"adjust"}
RowCallsAndCreate == RowCalls \cup {"create"}
BalanceCalls == {"create", "approve", "hr_approve", "cancel", "adjust",
                 "ai_adjust", "carryover"}
NoStatuses == {}
NoColumns == {{}}
MCColumns == {{"dates"}, {"leave_type"}, {"status"}}
Approved == {"approved"}

RequestSymmetry == Permutations(Requests)
ThreadSymmetry == Permutations(Requests) \cup Permutations(Threads)
=============================================================================
