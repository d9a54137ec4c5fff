------------------------------- MODULE LiveScan -------------------------------
(***************************************************************************)
(* A live scan, from its first call to its exit code (cmd/scan.go over     *)
(* GenericProvider.Collect and collectkit.Run): the collection of Live,    *)
(* then the assessment and the gate of Gate.                               *)
(*                                                                         *)
(* The two halves meet in one document.  loadInput waits for the end of    *)
(* the collection, and puts in the envelope the resources it kept and, NEXT *)
(* to them, the state of its units; withGovernance adds what the           *)
(* descriptor declares.  The properties relate the two ends: what the APIs *)
(* hold, page by page, and what the report and the exit code say.          *)
(***************************************************************************)
EXTENDS Gate, Live

CONSTANTS
    Made,          \* Made[t][<<owner, item>>]: the resource that task t makes of an item
    Counted,       \* Counted[t]: the resource that carries the number of an aggregate
    Declared,      \* the resources of the descriptor, that no call gives
    Observations   \* what the APIs may tell of the attributes of the resources

Listed == (Items \cup {Root}) \X Items

ASSUME LiveScanAssumption ==
    /\ TypeNames \subseteq Types
    /\ Made \in [DOMAIN Tasks -> [Listed -> Resources]]
    /\ Counted \in [DOMAIN Tasks -> Resources]
    /\ \A t \in DOMAIN Tasks : /\ \A p \in Listed : TypeOf[Made[t][p]] = Tasks[t].type
                               /\ TypeOf[Counted[t]] = Tasks[t].type
    /\ Declared \subseteq Resources
    /\ Observations \subseteq [value  : [Resources -> [Attrs -> AttrState]],
                               sought : [Resources -> SUBSET Attrs]]

liveScanVars == <<gateVars, liveVars>>

----------------------------------------------------------------------------
(* The document.                                                            *)

MadeOf(t, pairs) == {Made[t][p] : p \in pairs}

Published == {Counted[t] : t \in {t \in DOMAIN Tasks : counts[t] # NoCount}}

CollectedResources == Declared \cup Published \cup UNION {MadeOf(t, read[t]) : t \in DOMAIN Tasks}

DocumentOf(kept, unread) ==
    {[present |-> kept, value |-> o.value, sought |-> o.sought, incomplete |-> unread] :
        o \in Observations}

\* (mutant) the state of the collection stays in memory: the document holds resources only.
DocumentsWithoutCollection == DocumentOf(CollectedResources, {})

Documents == DocumentOf(CollectedResources, IncompleteTypes)

----------------------------------------------------------------------------
(* The scan.                                                                *)

LiveScanInit == GateInit /\ LiveInit

\* A policy that is refused, credentials that are missing: nothing was called yet.
RefuseToStart ==
    /\ pc = "load" /\ task = 1 /\ stage = "begin"
    /\ Abort
    /\ UNCHANGED liveVars

Collecting ==
    /\ pc = "load" /\ exit = NoExit /\ ~Finished
    /\ LiveNext
    /\ UNCHANGED gateVars

LoadInput ==
    /\ Finished /\ exit = NoExit
    /\ \E doc \in Documents : inv' = doc /\ Load
    /\ UNCHANGED <<settings, exit, headline, liveVars>>

Judging ==
    /\ pc # "load" \/ exit # NoExit
    /\ GateNext
    /\ UNCHANGED liveVars

LiveScanNext == RefuseToStart \/ Collecting \/ LoadInput \/ Judging

LiveScanSpec == LiveScanInit /\ [][LiveScanNext]_liveScanVars

----------------------------------------------------------------------------
(* Properties.                                                              *)

\* What a control reads: the tag control, the types its configuration names.
Reads(c) == IF c = TagControl THEN TaggedTypes ELSE ControlTypes(c)

\* The tasks that feed it, of APIs whose documents are of the expected shape.
Feeding(ofTypes) ==
    {t \in DOMAIN Tasks : Tasks[t].enabled /\ t \notin Strangers /\ Tasks[t].type \in ofTypes}

\* All that the API holds for a task is a resource of the document, or its exact number is.
AllThere(t) ==
    IF Tasks[t].aggregate THEN counts[t] = Number(t) /\ Counted[t] \in inv.present
                          ELSE MadeOf(t, Whole(t)) \subseteq inv.present

\* Whatever the pages, the joins, the bounds and the refusals: a code 0 or 4, or the
\* headline "compliant", says that all that the account holds of the types the controls
\* in scope read was in the document that was judged (ADR-0005, scan.go:372-435).
GreenIsWhole ==
    exit \in {0, 4} \/ headline = "compliant" =>
        \A c \in ScanScope : \A t \in Feeding(Reads(c)) : AllThere(t)

\* A pass is about the account and not about what could be read of it: every item its
\* APIs hold was judged, and the attributes that decide were observed on every one of
\* them.  It takes an item of the last page, of the last parent, next to others that were
\* read, to violate it (ADR-0006; engine.go:137-305 with scan.go:929-1061).
PassIsOnTheAccount ==
    pc \in {"exempt", "done"} =>
        \A c \in Controls : results[c].status = "pass" =>
            \A t \in Feeding(Reads(c)) :
                /\ AllThere(t)
                /\ ~Tasks[t].aggregate /\ NeededOn(c, Tasks[t].type) # {} =>
                      \A r \in MadeOf(t, Whole(t)) :
                          IF c \in RequireAll
                          THEN \A a \in NeededOn(c, Tasks[t].type) : SeenOn(r, a)
                          ELSE \E a \in NeededOn(c, Tasks[t].type) : SeenOn(r, a)

\* "No resource of this type" is said of an account that has none, and never of an API
\* that refused to list them, of a list that was cut at its first page, or of one of two
\* units that feed the type (assess.go:503-560, collection.go:108-113).
NoResourceIsTrue ==
    pc = "done" =>
        \A c \in ScanScope : results[c].status = "not-evaluated" /\ results[c].why = "no resource" =>
            \A t \in Feeding(IF PrimaryType[c] = NoType THEN ControlTypes(c) ELSE {PrimaryType[c]}) :
                ~Tasks[t].aggregate /\ Whole(t) = {}

\* A failure is never silent: when a call of a unit has failed, no control that reads one
\* of its types passes, one that cannot conclude says that the collection is incomplete,
\* and the exit code is neither 0 nor 4 (ADR-0005: incomplete is
\* code 3, where neither 3 nor 4 is worth a conformity).
FailureIsSaid ==
    \A t \in DOMAIN Tasks : \A c \in ScanScope :
        Tasks[t].enabled /\ Tasks[t].type \in Reads(c) /\ causes[Tasks[t].unit] # NoFailure =>
            /\ pc = "done" /\ results[c].status \in {"pass", "not-evaluated"} =>
                  results[c] = NotEvaluated("incomplete")
            /\ exit \notin {0, 4}

\* Nothing is invented: a resource that is judged is one that the descriptor declares or
\* that the account holds, of the owner it is attributed to, even when an API serves the
\* same page again; and a number that is judged is the exact one.
InventoryIsReal ==
    \A r \in inv.present :
        \/ r \in Declared
        \/ \E t \in DOMAIN Tasks : r \in MadeOf(t, Whole(t))
        \/ \E t \in DOMAIN Tasks : r = Counted[t] /\ (counts[t] = Number(t) \/ t \in Strangers)

=============================================================================
