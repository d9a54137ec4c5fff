-------------------------------- MODULE MCGate --------------------------------
(***************************************************************************)
(* The catalogue of MCAssessment seen from the gate: one virtual machine,  *)
(* one snapshot, deviations of each weight and category, no exemption, one *)
(* exemption or an exemption of everything that lapses.                    *)
(***************************************************************************)
EXTENDS MCAssessment, Gate

MCGateInventories ==
    {Collected([r \in MCResources |->
                   CASE r = "vm1" -> p1 [] r = "vm2" -> Missing [] r = "snap1" -> p2
                     [] r = "gp" -> [Missing EXCEPT !.here = TRUE]],
               unread) :
        p1 \in Profiles({Given, Unsought}, {Unexposed, Unsought}),
        p2 \in Profiles({Given}, {Given, Unsought}),
        unread \in {{}, {"vm"}}}

MCGateFindings == {"open port", "no link", "no expiry", "no label", "abroad", "unsure"}
MCGateCodeOf == [f \in MCGateFindings |->
    CASE f \in {"open port", "unsure"} -> "gated" [] f = "no link" -> "correlated"
      [] f = "no expiry" -> "expiry" [] f = "no label" -> "tags" [] f = "abroad" -> "sovereign"]
MCGateSubjectOf == [f \in MCGateFindings |->
    CASE f = "abroad" -> "gp" [] f = "unsure" -> "group" [] f \notin {"abroad", "unsure"} -> "vm1"]
MCSeverityOf == [f \in MCGateFindings |->
    CASE f \in {"open port", "unsure"} -> "critical" [] f \in {"no link", "no expiry"} -> "high"
      [] f = "abroad" -> "medium" [] f = "no label" -> "low"]
MCCategoryOf == [f \in MCGateFindings |->
    CASE f \in {"open port", "unsure"} -> "security" [] f = "no link" -> "compliance"
      [] f = "no expiry" -> "unlabelled" [] f = "no label" -> "hygiene"
      [] f = "abroad" -> "sovereignty"]
MCConfidenceOf == [f \in MCGateFindings |->
    IF f = "no expiry" THEN "contextual" ELSE "confirmed"]

Waiver(c, day) == [control |-> c, resource |-> "any", expires |-> day]
MCGatePolicies ==
    {<<>>, <<Waiver("gated", 2)>>, <<Waiver("gated", 2), Waiver("correlated", 2), Waiver("expiry", 1)>>}
MCGates == {"all", "security", "sovereignty"}
=============================================================================
