------------------------------ MODULE MCLiveScan ------------------------------
(***************************************************************************)
(* A scan over four tasks: the snapshots of two owners are a join, two     *)
(* tasks feed one unit of virtual machines, and a number is published.     *)
(* Pages of one and a bound of two pages: the list of three machines is    *)
(* cut, the one of two ends exactly at the bound, and the API of the       *)
(* machines may be deaf.  One control of each way to read: a type, a type  *)
(* and a correlated one, several types, the types of the configuration.    *)
(***************************************************************************)
EXTENDS LiveScan

MCControls == {"snapshot", "correlated", "located", "quota", "tags", "sovereign"}
MCTypes == {"vm", "snapshot", "quota", "gov"}
MCPrimaryType == [c \in MCControls |->
    CASE c = "snapshot" -> "snapshot" [] c = "correlated" -> "vm" [] c = "quota" -> "quota"
      [] c \in {"located", "tags", "sovereign"} -> "no type"]
MCExtraTypes == [c \in MCControls |->
    CASE c = "correlated" -> {"snapshot"} [] c = "located" -> {"vm", "snapshot"}
      [] c = "sovereign" -> {"gov"} [] c \notin {"correlated", "located", "sovereign"} -> {}]
MCDeciding == [c \in MCControls |->
    IF c \in {"located", "snapshot"} THEN [u \in {"main"} |-> {"a"}] ELSE [u \in {} |-> {}]]
MCAbsenceDeciders == [c \in MCControls |-> [t \in {} |-> {}]]
MCTypeEtat == [t \in MCTypes |-> "verifie"]

MCResources == {"s1", "s2", "wrong", "v1", "v2", "v3", "v4", "number", "gp"}
MCTypeOf == [r \in MCResources |->
    CASE r \in {"s1", "s2", "wrong"} -> "snapshot" [] r \in {"v1", "v2", "v3", "v4"} -> "vm"
      [] r = "number" -> "quota" [] r = "gp" -> "gov"]

\* All that was sought was given, or the second snapshot was not asked for it.
MCValues == {[r \in MCResources |-> [x \in {"a"} |-> IF r \in blind THEN "absent" ELSE "value"]] :
                blind \in {{}, {"s2"}}}
MCSought == {[r \in MCResources |-> IF r \in blind THEN {} ELSE {"a"}] : blind \in {{}, {"s2"}}}
MCObservations == {o \in [value : MCValues, sought : MCSought] :
                      \A r \in MCResources : o.sought[r] = {} <=> o.value[r]["a"] = "absent"}
MCInventories == [present : SUBSET MCResources, value : MCValues, sought : MCSought,
                  incomplete : SUBSET {"vm", "snapshot", "quota"}]

MCFindings == {"open", "old"}
MCCodeOf == [f \in MCFindings |-> IF f = "open" THEN "correlated" ELSE "snapshot"]
MCSubjectOf == [f \in MCFindings |-> IF f = "open" THEN "v1" ELSE "s1"]
MCSeverityOf == [f \in MCFindings |-> IF f = "open" THEN "critical" ELSE "low"]
MCCategoryOf == [f \in MCFindings |-> "security"]
MCConfidenceOf == [f \in MCFindings |-> "confirmed"]
MCSubjects == MCResources \cup {"target"}
MCPolicies == {<<>>, <<[control |-> "correlated", resource |-> "any", expires |-> 1]>>}

TaskOf(kind, unit, type, style) ==
    [kind |-> kind, unit |-> unit, type |-> type, parentStyle |-> "single",
     style |-> style, aggregate |-> FALSE, enabled |-> TRUE]
MCTasks == << TaskOf("joined", "snapshots", "snapshot", "single"),
              TaskOf("listed", "machines", "vm", "page"),
              TaskOf("listed", "machines", "vm", "single"),
              [TaskOf("listed", "quotas", "quota", "single") EXCEPT !.aggregate = TRUE] >>

MCItems == {"p", "q", "i", "j", "k"}
MCListed == (MCItems \cup {"root"}) \X MCItems
MCMade == << [pair \in MCListed |-> CASE pair = <<"p", "i">> -> "s1" [] pair = <<"q", "j">> -> "s2"
                                      [] pair \notin {<<"p", "i">>, <<"q", "j">>} -> "wrong"],
             [pair \in MCListed |-> CASE pair[2] = "i" -> "v1" [] pair[2] = "j" -> "v2"
                                      [] pair[2] \notin {"i", "j"} -> "v3"],
             [pair \in MCListed |-> "v4"],
             [pair \in MCListed |-> "number"] >>
MCCounted == <<"wrong", "v1", "v4", "number">>

Lists(f) == [o \in MCItems \cup {"root"} |-> IF o \in DOMAIN f THEN f[o] ELSE <<>>]
Account(parents, p, q, machines, others, number) ==
    << [parents |-> parents, groups |-> <<>>, of |-> Lists([p |-> p, q |-> q])],
       [parents |-> <<>>, groups |-> <<>>, of |-> Lists([root |-> machines])],
       [parents |-> <<>>, groups |-> <<>>, of |-> Lists([root |-> others])],
       [parents |-> <<>>, groups |-> <<>>, of |-> Lists([root |-> number])] >>
MCListings == { Account(<<"p", "q">>, <<"i">>, <<"j">>, <<"i">>, <<"k">>, <<"i">>),
                Account(<<"p", "q">>, <<>>, <<"j">>, <<"i", "j", "k">>, <<>>, <<"i">>),
                Account(<<>>, <<>>, <<>>, <<>>, <<>>, <<>>) }

Http(status, code) == [kind |-> "http", status |-> status, code |-> code]
MCRefusals == << {Http(401, "none")}, {Http(400, "none")}, {}, {Http(401, "none")} >>
=============================================================================
