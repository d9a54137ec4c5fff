-------------------------------- MODULE MCLive --------------------------------
(***************************************************************************)
(* A collection of seven tasks: two of them feed one unit, two units feed  *)
(* the type "policy", one is not offered by the provider.  Pages of two    *)
(* and a bound of two pages make every list end, be cut, or end exactly at *)
(* the bound.                                                              *)
(***************************************************************************)
EXTENDS Live

TaskOf(kind, unit, type, parentStyle, style) ==
    [kind |-> kind, unit |-> unit, type |-> type, parentStyle |-> parentStyle,
     style |-> style, aggregate |-> FALSE, enabled |-> TRUE]

MCTasks == <<
    TaskOf("joined", "rule", "rule", "offset", "page"),
    TaskOf("listed", "rule", "rule", "single", "token"),
    [TaskOf("listed", "quota", "quota", "single", "page") EXCEPT !.aggregate = TRUE],
    TaskOf("listed", "policy", "policy", "single", "single"),
    TaskOf("listed", "bucket", "bucket", "single", "marker"),
    TaskOf("inline", "inline policy", "policy", "single", "offset"),
    [TaskOf("listed", "cluster", "cluster", "single", "single") EXCEPT !.enabled = FALSE] >>

MCItems == {"p", "q", "g", "i", "j", "k"}

\* `o \in DOMAIN f` lists f[o], the others nothing.
Lists(f) == [o \in MCItems \cup {"root"} |-> IF o \in DOMAIN f THEN f[o] ELSE <<>>]

OnlyRoot(list) == [parents |-> <<>>, groups |-> <<>>, of |-> Lists([root |-> list])]

Http(status, code) == [kind |-> "http", status |-> status, code |-> code]
Sdk(status, code) == [kind |-> "sdk", status |-> status, code |-> code]

MCRefusals == << {Http(401, "denied_authentication")},
                 {Http(400, "none")},
                 {Http(302, "none")},
                 {Http(400, "outscale 4120")},
                 {Sdk(503, "SlowDown")},
                 {Http(401, "none")},
                 {} >>

\* No call is refused: what does not end, does not end for another reason.
MCNoRefusal == [t \in DOMAIN MCTasks |-> {}]

Inlined(groups, of) == [parents |-> <<"p", "q">>, groups |-> groups, of |-> Lists(of)]

MCListings == {
    << [parents |-> <<"p", "q", "g">>, groups |-> <<>>,
        of |-> Lists([p |-> <<"i", "j">>, q |-> <<>>, g |-> <<"i">>])],
       OnlyRoot(<<"i", "j">>), OnlyRoot(<<"i", "j", "k">>), OnlyRoot(<<"i">>),
       OnlyRoot(<<"i", "j", "k">>),
       Inlined(<<"g">>, [p |-> <<"i", "j", "k">>, q |-> <<>>, g |-> <<"i">>]),
       OnlyRoot(<<"i">>) >>,
    << [parents |-> <<"p", "q">>, groups |-> <<>>,
        of |-> Lists([p |-> <<"i", "j", "k", "p">>, q |-> <<"i">>])],
       OnlyRoot(<<>>), OnlyRoot(<<"i", "j", "k", "p">>), OnlyRoot(<<>>),
       OnlyRoot(<<>>),
       Inlined(<<>>, [p |-> <<>>, q |-> <<"i">>]),
       OnlyRoot(<<>>) >> }

=============================================================================
