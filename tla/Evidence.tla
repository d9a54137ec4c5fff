------------------------------- MODULE Evidence -------------------------------
(***************************************************************************)
(* Scans that seal bundles into directories, one after the other, and what *)
(* verify and diff make of these directories at any moment.  A scan writes *)
(* its files one by one and may stop anywhere; a later scan may write into *)
(* the same directory; a bundle may lose a file or have it altered; the    *)
(* operator signs checksums.txt.  verify and diff change nothing: they are *)
(* operators over the directories.                                         *)
(***************************************************************************)
EXTENDS Diff

CONSTANTS
    Dirs,
    Tenants,      \* what a live scan or an import may find
    Policies,     \* the policy files: [given, config, exemptions]
    Requests,     \* the scans an operator runs: [tenant, policy, redact, external, lang]
    NoScan,
    MaxScans, MaxTime, MaxFaults     \* bounds of the exploration

\* A rule reports on a resource it reads in the inventory, or on the tenant as a whole.
FactsArePlaced(in) == \A f \in in.facts : FactResource[f] \in in.present \cup {Target}

ASSUME EvidenceAssumption ==
    /\ \A t \in Tenants : /\ t.facts \subseteq Facts /\ t.present \subseteq Resources
                          /\ t.incomplete \in BOOLEAN /\ FactsArePlaced(t)
    /\ \A p \in Policies : /\ p.given \in BOOLEAN /\ p.config \in Configs
                           /\ \A i \in DOMAIN p.exemptions : p.exemptions[i].expires \in Nat
                           /\ ~p.given => p.config = DefaultConfig /\ p.exemptions = <<>>
    /\ \A q \in Requests : /\ q.tenant \in Tenants /\ q.policy \in Policies /\ q.lang \in Langs
                           /\ q.redact \in BOOLEAN /\ q.external \in BOOLEAN
    /\ MaxScans \in Nat /\ MaxTime \in Nat \ {0} /\ MaxFaults \in Nat

VARIABLES
    disk,         \* [Dirs -> files]
    writing,      \* the bundle being written, or NoScan
    clock,        \* scanTimestamp of a scan that starts now
    scans, faults,
    tried,        \* history: what every scan into a directory had to seal
    made          \* history: the last scan, when it ended well and nothing came since

vars == <<disk, writing, clock, scans, faults, tried, made>>

----------------------------------------------------------------------------
(* What a scan evaluates and seals.                                         *)

Fresh(q) == [facts |-> q.tenant.facts, present |-> q.tenant.present,
             incomplete |-> q.tenant.incomplete, redacted |-> FALSE,
             evaluated_at |-> clock, config |-> q.policy.config]

\* (mutant) a replay takes the instant of the day.
CarvedAnew(in) == [in EXCEPT !.evaluated_at = clock]

\* evaluated_at and config are kept when the document already carries them.
Carved(in) == in

\* (mutant) the run is not dated.
RunUndated(q, at) == [timestamp |-> 0, target |-> q.tenant.target]

Run(q, at) == [timestamp |-> at, target |-> q.tenant.target]

\* (mutant) the inventory alone is redacted.
AssessmentOfInput(q, in, lines, at) == [run |-> Run(q, at), lines |-> lines, lang |-> q.lang]

AssessmentOf(q, in, lines, at) ==
    [run |-> Run(q, at), lang |-> q.lang,
     lines |-> IF q.redact THEN RedactSubjects(lines, in) ELSE lines]

\* config.json is there when a policy file was given, relaxed or not.
ConfigSealed(q) == IF q.policy.given THEN {"config.json"} ELSE {}

\* exemptions.json is there when the policy has exemptions, applied or not.
ExemptionsSealed(q) == IF q.policy.exemptions # <<>> THEN {"exemptions.json"} ELSE {}

Sealed(q, in, at) ==
    LET lines == Lines(in, q.policy.exemptions, at, q.external)
        asmt  == AssessmentOf(q, in, lines, at)
        names == {"input.json", "assessment.json", "assessment-oscal.json"}
                    \cup ConfigSealed(q) \cup ExemptionsSealed(q)
    IN  [n \in names |->
            CASE n = "input.json" -> IF q.redact THEN RedactInventory(in) ELSE in
              [] n = "assessment.json" -> asmt
              [] n = "assessment-oscal.json" -> Oscal(asmt)
              [] n = "config.json" -> in.config
              [] n = "exemptions.json" -> q.policy.exemptions]

----------------------------------------------------------------------------
(* WriteBundle, file by file.                                               *)

Init ==
    /\ disk = [d \in Dirs |-> <<>>]
    /\ writing = NoScan
    /\ clock = 1 /\ scans = 0 /\ faults = 0
    /\ tried = [d \in Dirs |-> {}]
    /\ made = [d \in Dirs |-> NoScan]

\* The passes are over; the directory exists and holds the temporary rendering.
Seal(d, q, in, origin) ==
    /\ writing = NoScan /\ scans < MaxScans
    /\ scans' = scans + 1
    /\ writing' = [dir |-> d, sealed |-> Sealed(q, in, clock), next |-> 0, request |-> q,
                   origin |-> origin]
    /\ disk' = [disk EXCEPT ![d] = Put(@, ".oscal", Whole("rendering"))]
    /\ tried' = [tried EXCEPT ![d] = @ \cup {Sealed(q, in, clock)}]
    /\ made' = [made EXCEPT ![d] = NoScan]
    /\ UNCHANGED <<clock, faults>>

\* scan --live or --terraform: the inventory of the day.
ScanTenant(d, q) == Seal(d, q, Fresh(q), NoScan)

\* scan <provider> <bundle>/input.json: a sealed inventory is evaluated again.
ScanSealed(d, from, q) ==
    /\ Holds(disk[from], "input.json")
    /\ Seal(d, q, Carved(disk[from]["input.json"].value),
            IF made[from] = NoScan THEN NoScan ELSE [made[from] EXCEPT !.origin = NoScan])

Names == Artifacts(writing.sealed)

\* What the next write puts on the disk.
NextName ==
    CASE writing.next \in 1 .. Len(Names) -> Names[writing.next]
      [] writing.next = Len(Names) + 1 -> "manifest.json"
      [] writing.next = Len(Names) + 2 -> "checksums.txt"

NextValue ==
    CASE writing.next \in 1 .. Len(Names) -> writing.sealed[Names[writing.next]]
      [] writing.next = Len(Names) + 1 -> Manifest(writing.sealed)
      [] writing.next = Len(Names) + 2 -> Checksums(writing.sealed)

RenderOscal ==
    /\ writing # NoScan /\ writing.next = 0
    /\ disk' = [disk EXCEPT ![writing.dir] = Drop(@, ".oscal")]
    /\ writing' = [writing EXCEPT !.next = 1]
    /\ UNCHANGED <<clock, scans, faults, tried, made>>

WriteFile ==
    /\ writing # NoScan /\ writing.next \in 1 .. Len(Names) + 1
    /\ disk' = [disk EXCEPT ![writing.dir] = Put(@, NextName, Whole(NextValue))]
    /\ writing' = [writing EXCEPT !.next = @ + 1]
    /\ UNCHANGED <<clock, scans, faults, tried, made>>

\* checksums.txt is the last file: the scan says where it is.
WriteChecksums ==
    /\ writing # NoScan /\ writing.next = Len(Names) + 2
    /\ disk' = [disk EXCEPT ![writing.dir] = Put(@, NextName, Whole(NextValue))]
    /\ made' = [made EXCEPT ![writing.dir] = [sealed |-> writing.sealed,
                                              request |-> writing.request,
                                              origin |-> writing.origin]]
    /\ writing' = NoScan
    /\ UNCHANGED <<clock, scans, faults, tried>>

\* The scan is killed, or a write is refused (a full disk): WriteBundle returns at
\* once and cleans nothing.
Interrupt ==
    /\ writing # NoScan /\ faults < MaxFaults
    /\ writing' = NoScan
    /\ faults' = faults + 1
    /\ \/ UNCHANGED disk
       \/ /\ writing.next \in 1 .. Len(Names) + 1
          /\ disk' = [disk EXCEPT ![writing.dir] = Put(@, NextName, Torn(NextValue))]
       \/ /\ writing.next = Len(Names) + 2
          /\ \E k \in 0 .. Len(Names), whole \in BOOLEAN :
                disk' = [disk EXCEPT ![writing.dir] =
                            Put(@, NextName, [value |-> SubSeq(NextValue, 1, k), whole |-> whole])]
    /\ UNCHANGED <<clock, scans, tried, made>>

----------------------------------------------------------------------------
(* Around the scans.                                                        *)

\* A scan takes its instant when it starts: the clock matters between two scans.
Tick == /\ writing = NoScan /\ clock < MaxTime /\ clock' = clock + 1
        /\ UNCHANGED <<disk, writing, scans, faults, tried, made>>

\* cosign sign-blob checksums.txt.
Sign(d) ==
    /\ writing = NoScan /\ made[d] # NoScan
    /\ disk' = [disk EXCEPT ![d] = Put(@, "checksums.txt.bundle", @["checksums.txt"])]
    /\ UNCHANGED <<writing, clock, scans, faults, tried, made>>

\* A file of the bundle is altered, or lost on the way.
Damage(d, n) ==
    /\ writing = NoScan /\ faults < MaxFaults /\ n \in DOMAIN disk[d]
    /\ faults' = faults + 1
    /\ \/ disk' = [disk EXCEPT ![d] = Put(@, n, Torn(@[n].value))]
       \/ disk' = [disk EXCEPT ![d] = Drop(@, n)]
    /\ made' = [made EXCEPT ![d] = NoScan]
    /\ UNCHANGED <<writing, clock, scans, tried>>

Next ==
    \/ \E d \in Dirs, q \in Requests : ScanTenant(d, q)
    \/ \E d, from \in Dirs, q \in Requests : ScanSealed(d, from, q)
    \/ RenderOscal \/ WriteFile \/ WriteChecksums \/ Interrupt
    \/ Tick
    \/ \E d \in Dirs : Sign(d)
    \/ \E d \in Dirs, n \in FileNames : Damage(d, n)

Spec == Init /\ [][Next]_vars

----------------------------------------------------------------------------
(* Properties.                                                              *)

WellFormed(sealed) ==
    /\ DOMAIN sealed \subseteq ArtifactNames
    /\ sealed["input.json"] \in Input
    /\ sealed["assessment.json"].run.timestamp \in 1 .. MaxTime
    /\ sealed["assessment-oscal.json"] = Oscal(sealed["assessment.json"])
    /\ \A l \in sealed["assessment.json"].lines : l.status \in Status

\* The directories hold files of a bundle, and what was sealed is well formed.
EvidenceTypeOK ==
    /\ DOMAIN disk = Dirs
    /\ \A d \in Dirs :
          /\ DOMAIN disk[d] \subseteq FileNames
          /\ \A s \in tried[d] : WellFormed(s)
          /\ made[d] # NoScan => made[d].sealed \in tried[d]
    /\ writing # NoScan => writing.sealed \in tried[writing.dir]
    /\ clock \in 1 .. MaxTime /\ scans \in 0 .. MaxScans /\ faults \in 0 .. MaxFaults

\* What verify accepts comes from ONE scan: the inventory, the assessment and every
\* file it declares are there as that scan sealed them, and the two lists agree.  Where
\* checksums.txt lists the manifest, the bundle is the whole of that scan.  Scans that
\* were stopped over earlier bundles, files lost or altered never verify together
\* (bundle.go:160-260 writes, bundle.go:269-360 reads).
VerifiedIsOneScan ==
    \A d \in Dirs : VerifyBundle(disk[d]) =>
        \E s \in tried[d] :
            /\ {"input.json", "assessment.json", "assessment-oscal.json"} \subseteq Listed(disk[d])
            /\ Declared(disk[d]) = Listed(disk[d]) \cup {"manifest.json"}
            /\ \A n \in Listed(disk[d]) \ {"manifest.json"} :
                  n \in DOMAIN s /\ disk[d][n] = Whole(s[n])
            /\ "manifest.json" \in Listed(disk[d]) =>
                  /\ Declared(disk[d]) = DOMAIN s \cup {"manifest.json"}
                  /\ disk[d]["manifest.json"] = Whole(Manifest(s))

\* A scan that said it sealed its bundle left a bundle that verifies, whatever the
\* directory held before it.
SuccessVerifies == \A d \in Dirs : made[d] # NoScan => VerifyBundle(disk[d])

\* A live or imported inventory, evaluated by the embedded rules: input and run
\* carry the same instant, and nothing the rules read was redacted.
Replayable(sealed, request) ==
    LET in == sealed["input.json"] IN
    /\ in.evaluated_at = sealed["assessment.json"].run.timestamp
    /\ ~request.external \/ in.facts \cap External = {}
    /\ ~in.redacted

\* ADR-0018 and docs/guides/evidence-bundles.md: "a false accusation of falsification
\* is the worst verdict a verifier can return".  An honest bundle is re-derived
\* whenever it is read and in whatever language: its exemptions are judged at the
\* sealed instant, its settings are its own.  Left out, and stated by Replayable: a
\* replayed inventory (its instant is not the one of the run), external rules,
\* redaction; and an exemptions.json an earlier scan left in the directory.
HonestReDerives ==
    \A d \in Dirs :
        (/\ made[d] # NoScan
         /\ Replayable(made[d].sealed, made[d].request)
         /\ "exemptions.json" \in DOMAIN disk[d] =>
               "exemptions.json" \in DOMAIN made[d].sealed)
        => Verify(disk[d], FALSE, FALSE, TRUE, clock)

\* "un bundle rejoue doit rendre le meme verdict que le jour de son scellement"
\* (scan.go:577).  A sealed inventory evaluated again finds the same facts, on the
\* same subjects, under the same settings, whatever the day and the policy file of
\* the replay; only exemptions move, because they are judged at the instant of the
\* replay.
ReplayMovesOnlyWaivers ==
    \A d \in Dirs :
        (/\ made[d] # NoScan /\ made[d].origin # NoScan
         /\ ~made[d].request.external /\ ~made[d].origin.request.external
         /\ ~made[d].request.redact /\ ~made[d].origin.request.redact)
        => LET old == made[d].origin.sealed["assessment.json"]
               new == made[d].sealed["assessment.json"]
               shape(l) == [l EXCEPT !.status = IF @ = "exempted" THEN "fail" ELSE @]
           IN  /\ {shape(l) : l \in old.lines} = {shape(l) : l \in new.lines}
               /\ (/\ made[d].request.policy.exemptions = made[d].origin.request.policy.exemptions
                   /\ \A i \in DOMAIN made[d].request.policy.exemptions :
                         new.run.timestamp <= made[d].request.policy.exemptions[i].expires)
                  => old.lines = new.lines

\* --redact: no line of the sealed assessment and no resource of the sealed
\* inventory names a person, and both sides call the resource the same.
RedactionIsConsistent ==
    \A d \in Dirs : (made[d] # NoScan /\ made[d].request.redact) =>
        LET in    == made[d].sealed["input.json"]
            lines == made[d].sealed["assessment.json"].lines IN
        /\ in.redacted
        /\ \A l \in lines : \A r \in in.present :
              NameOf[r] # StableOf[r] => l.subject # NameOf[r]
        /\ \A l \in lines : l.fact # NoFact => l.subject = Named(in, FactResource[l.fact])

Before(b, a) == Comparable(disk[b], disk[a])

AssessedIn(d) == disk[d]["assessment.json"].value

\* The deviations of the tenant behind a sealed inventory, redacted or not.
Deviations(in) == Findings([in EXCEPT !.redacted = FALSE], TRUE)

\* Whether the control was measured on the inventory of a bundle, and found clean.
\* A fact redaction hid is not asked for: a redacted inventory that is evaluated
\* again cannot show it, and docs/guides/evidence-bundles.md says so.
MeasuredClean(in, c) ==
    /\ in.present # {} /\ ~in.incomplete
    /\ \A f \in Findings(in, TRUE) : FactControl[f] # c

\* "La perte de visibilite n'est jamais presentee comme une correction"
\* (cmd/diff.go:21).  A deviation of the first bundle that is not one of the second
\* is in the diff; it is called fixed only when the control was measured again and
\* nothing was found, never because the collection failed, because an exemption
\* covers it or because the resource is gone from view; a regression is a deviation
\* the rules do find in the second inventory.
DiffIsFaithful ==
    \A b, a \in Dirs : Before(b, a) =>
        LET kind == DiffBundles(disk[b], disk[a]).results
            in   == disk[a]["input.json"].value IN
        /\ \A l \in AssessedIn(b).lines :
              (l.status = "fail" /\ kind[Key(l)] = "unchanged") =>
                  \E m \in AssessedIn(a).lines : Key(m) = Key(l) /\ m.status = "fail"
        /\ \A k \in DOMAIN kind :
              /\ kind[k] = "fixed" => MeasuredClean(in, k[1])
              /\ kind[k] = "regressed" => \E f \in Deviations(in) : FactControl[f] = k[1]

Mirror(kind) ==
    CASE kind = "added" -> "removed"
      [] kind = "removed" -> "added"
      [] kind = "fixed" -> "regressed"
      [] kind = "regressed" -> "fixed"
      [] kind = "visibility-lost" -> "visibility-restored"
      [] kind = "visibility-restored" -> "visibility-lost"
      [] OTHER -> kind

\* Compared the other way round, two bundles give the mirror of the same changes, and
\* the counts of the summary with them (diff.go:236-302).
DiffIsMirrored ==
    \A b, a \in Dirs : Before(b, a) =>
        LET there == DiffBundles(disk[b], disk[a])
            back  == DiffBundles(disk[a], disk[b]) IN
        /\ Before(a, b)
        /\ \A k \in DOMAIN there.results : back.results[k] = Mirror(there.results[k])
        /\ back.resources.added = there.resources.removed
        /\ \A k \in Kinds : back.summary[Mirror(k)] = there.summary[k]

\* cmd/verify.go:286: "Le fichier est un artefact du bundle, donc couvert par
\* checksums.txt et par la signature".  The exemptions a signed and re-derived
\* bundle is judged with are listed in checksums.txt.
SealedPolicyIsCovered ==
    \A d \in Dirs :
        /\ Verify(disk[d], TRUE, TRUE, TRUE, clock)
        /\ "exemptions.json" \in DOMAIN disk[d]
        => "exemptions.json" \in Listed(disk[d])

=============================================================================
