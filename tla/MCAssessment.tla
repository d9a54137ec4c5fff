---------------------------- MODULE MCAssessment ----------------------------
(***************************************************************************)
(* A small provider: one control of each kind the tables of Pepin hold,    *)
(* two virtual machines, one snapshot and the synthetic governance         *)
(* resource, observed in every way that tells the properties apart.        *)
(***************************************************************************)
EXTENDS Assessment

MCControls == {"gated", "correlated", "both", "plain", "expiry", "located",
               "sovereign", "tags", "unsupported", "foreign"}
MCTypes == {"vm", "snapshot", "gov", "lb"}
MCAttrs == {"a", "b"}

MCPrimaryType == [c \in MCControls |->
    CASE c \in {"gated", "correlated", "expiry", "foreign"} -> "vm"
      [] c \in {"both", "plain"} -> "snapshot"
      [] c = "unsupported" -> "lb"
      [] c \in {"located", "sovereign", "tags"} -> "no type"]

MCExtraTypes == [c \in MCControls |->
    CASE c = "correlated" -> {"snapshot"}
      [] c = "located" -> {"vm", "snapshot"}
      [] c = "sovereign" -> {"gov"}
      [] c \notin {"correlated", "located", "sovereign"} -> {}]

MCDeciding == [c \in MCControls |->
    CASE c \in {"gated", "located"} -> [u \in {"main"} |-> {"a"}]
      [] c = "correlated" -> [u \in {"main", "snapshot"} |-> IF u = "main" THEN {"a"} ELSE {"b"}]
      [] c = "both" -> [u \in {"main"} |-> {"a", "b"}]
      [] c \notin {"gated", "located", "correlated", "both"} -> [u \in {} |-> {}]]

MCAbsenceDeciders == [c \in MCControls |->
    IF c = "expiry" THEN [t \in {"vm"} |-> {"b"}] ELSE [t \in {} |-> {}]]

MCGovernance == {"located", "sovereign", "tags"}
MCTypeEtat == [t \in MCTypes |-> IF t = "lb" THEN "absent" ELSE "verifie"]
MCImplemented == MCControls \ {"foreign"}

MCResources == {"vm1", "vm2", "snap1", "gp"}
MCTypeOf == [r \in MCResources |->
    CASE r \in {"vm1", "vm2"} -> "vm" [] r = "snap1" -> "snapshot" [] r = "gp" -> "gov"]

\* How one attribute of one resource was collected.
Ways == [state : AttrState, sought : BOOLEAN]
Way(s, b) == [state |-> s, sought |-> b]
Given == Way("value", TRUE)
Null == Way("null", TRUE)
Unexposed == Way("absent", TRUE)
Unsought == Way("absent", FALSE)

\* What was collected of one resource: nothing, or one way per attribute.
Missing == [here |-> FALSE, ways |-> [x \in MCAttrs |-> Unsought]]
Profiles(aWays, bWays) ==
    {[here |-> TRUE, ways |-> [x \in MCAttrs |-> IF x = "a" THEN wa ELSE wb]] :
        wa \in aWays, wb \in bWays} \cup {Missing}

Collected(p, unread) ==
    [present    |-> {r \in MCResources : p[r].here},
     value      |-> [r \in MCResources |-> [x \in MCAttrs |-> p[r].ways[x].state]],
     sought     |-> [r \in MCResources |-> {x \in MCAttrs : p[r].ways[x].sought}],
     incomplete |-> unread]

MCInventories ==
    {Collected([r \in MCResources |->
                   CASE r = "vm1" -> p1 [] r = "vm2" -> p2 [] r = "snap1" -> p3
                     [] r = "gp" -> [Missing EXCEPT !.here = TRUE]],
               unread) :
        p1 \in Profiles({Given, Null, Unexposed, Unsought}, {Given, Unexposed, Unsought}),
        p2 \in Profiles({Given, Unsought}, {Given, Unsought}),
        p3 \in Profiles({Given, Unsought}, {Given, Null, Unexposed, Unsought}),
        unread \in SUBSET {"vm", "snapshot"}}

MCFindings == {"f1", "f2", "f3", "f4", "f5"}
MCCodes == MCControls \cup {"external"}
MCCodeOf == [f \in MCFindings |->
    CASE f = "f1" -> "gated" [] f = "f2" -> "gated" [] f = "f3" -> "correlated"
      [] f = "f4" -> "expiry" [] f = "f5" -> "external"]
MCSubjectOf == [f \in MCFindings |->
    CASE f = "f1" -> "vm1" [] f = "f2" -> "vm2" [] f = "f3" -> "vm2"
      [] f = "f4" -> "vm1" [] f = "f5" -> "group"]
MCInconclusive == {"f2"}
MCSubjects == MCResources \cup {"target", "group", "gone"}

\* A named exemption before a general one, one that lapses, an exemption of an unknown
\* resource and one of a code outside the referential.
MCPolicies ==
    {<<[control |-> "gated", resource |-> "vm1", expires |-> 1],
       [control |-> "gated", resource |-> "any", expires |-> 2],
       [control |-> "expiry", resource |-> "any", expires |-> 1],
       [control |-> "correlated", resource |-> "gone", expires |-> 2],
       [control |-> "external", resource |-> "any", expires |-> 2]>>}

MCInstants == {1, 2}
=============================================================================
