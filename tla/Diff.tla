--------------------------------- MODULE Diff ---------------------------------
(***************************************************************************)
(* pepin diff: two bundles that verify, compared line by line.  A line is  *)
(* identified by its control and its subject, and a scan that uses the     *)
(* same pair twice is refused.                                             *)
(***************************************************************************)
EXTENDS Bundle

Kinds == {"added", "removed", "unchanged", "fixed", "regressed",
          "visibility-lost", "visibility-restored", "status-changed"}

Key(l) == <<l.control, l.subject>>

Keys(lines) == {Key(l) : l \in lines}

\* indexResults.
Indexable(lines) == \A l, m \in lines : Key(l) = Key(m) => l = m

StatusAt(lines, k) == (CHOOSE l \in lines : Key(l) = k).status

Visible(status) == status # "not-evaluated"

\* (mutant) what no longer fails is fixed.
KindOfNotFail(before, after) ==
    CASE before = after -> "unchanged"
      [] before = "fail" /\ after # "fail" -> "fixed"
      [] before = "pass" /\ after = "fail" -> "regressed"
      [] OTHER -> "status-changed"

ResultChangeKind(before, after) ==
    CASE before = after -> "unchanged"
      [] before = "fail" /\ after = "pass" -> "fixed"
      [] before = "pass" /\ after = "fail" -> "regressed"
      [] Visible(before) /\ ~Visible(after) -> "visibility-lost"
      [] ~Visible(before) /\ Visible(after) -> "visibility-restored"
      [] OTHER -> "status-changed"

\* compareResults: one kind per line of either side.
CompareResults(before, after) ==
    [k \in Keys(before) \cup Keys(after) |->
        IF k \notin Keys(before) THEN "added"
        ELSE IF k \notin Keys(after) THEN "removed"
        ELSE ResultChangeKind(StatusAt(before, k), StatusAt(after, k))]

CompareResources(before, after) ==
    [added |-> after \ before, removed |-> before \ after]

\* readDiffBundle: the manifest and the assessment agree on the target (and on the tool,
\* the rules and the source, which all scans share here), not on the instant.
Readable(files) ==
    /\ VerifyBundle(files)
    /\ files["manifest.json"].value.run.target = files["assessment.json"].value.run.target

\* DiffBundles answers instead of refusing.
Comparable(before, after) ==
    /\ Readable(before) /\ Readable(after)
    /\ before["manifest.json"].value.run.target = after["manifest.json"].value.run.target
    /\ Indexable(before["assessment.json"].value.lines)
    /\ Indexable(after["assessment.json"].value.lines)

ResourcesIn(files) == files["input.json"].value.present

\* One counter per kind of change.
DiffSummary(changes) ==
    [kind \in Kinds |-> Cardinality({k \in DOMAIN changes : changes[k] = kind})]

DiffBundles(before, after) ==
    LET changes == CompareResults(before["assessment.json"].value.lines,
                                  after["assessment.json"].value.lines)
    IN  [results   |-> changes,
         summary   |-> DiffSummary(changes),
         resources |-> CompareResources(ResourcesIn(before), ResourcesIn(after))]

=============================================================================
