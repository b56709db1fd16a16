------------------------------ MODULE MCPwmHandoff ------------------------------
(* Small values for the constants of PwmHandoff that a cfg cannot write.       *)
EXTENDS PwmHandoff

\* One duty at full and two at zero, as 12000, 0, 0 is in the source.
MCStartDuty == [p \in Phases |-> IF p = 0 THEN 4 ELSE 0]

\* Below the lower clamp, above the upper one, and inside; the phases differ.
MCDutyRequests == {[p \in Phases |-> 20], [p \in Phases |-> 3 * p]}

\* For liveness, where the values of the duties do not matter.
MCOneRequest == {[p \in Phases |-> 3 * p]}
=============================================================================
