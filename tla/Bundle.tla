-------------------------------- MODULE Bundle --------------------------------
(***************************************************************************)
(* The files of an evidence bundle and what a third party establishes from *)
(* them: VerifyBundle, the cosign signature of checksums.txt, and the      *)
(* re-derivation.  A directory is a function from the names of its files   *)
(* to what they hold.  A file is whole, or it is the beginning of what was *)
(* being written when the scan stopped.  A digest stands for the content   *)
(* it was computed on: two contents with the same digest are the same.     *)
(***************************************************************************)
EXTENDS Verdict

CONSTANTS Langs      \* the language a scan words its results in

\* The documents of every bundle, in the order WriteBundle writes them.
Documents == <<"input.json", "assessment.json", "assessment-oscal.json">>

ArtifactNames == {"input.json", "assessment.json", "assessment-oscal.json",
                  "config.json", "exemptions.json"}

FileNames == ArtifactNames \cup {"manifest.json", "checksums.txt", "checksums.txt.bundle", ".oscal"}

Whole(value) == [value |-> value, whole |-> TRUE]

Torn(value) == [value |-> value, whole |-> FALSE]

Put(files, name, content) == [n \in DOMAIN files \cup {name} |->
                                 IF n = name THEN content ELSE files[n]]

Drop(files, name) == [n \in DOMAIN files \ {name} |-> files[n]]

Holds(files, name) == name \in DOMAIN files /\ files[name].whole

----------------------------------------------------------------------------
(* What WriteBundle computes from what the scan hands it.  `sealed` maps    *)
(* each artifact to its content; config.json and exemptions.json may be     *)
(* missing from it.                                                         *)

Extra(sealed, name) == IF name \in DOMAIN sealed THEN <<name>> ELSE <<>>

Artifacts(sealed) ==
    Documents \o Extra(sealed, "config.json") \o Extra(sealed, "exemptions.json")

\* The normative rendering of an assessment.
Oscal(assessment) == [rendering |-> assessment]

\* (mutant) the manifest lists the documents of every bundle, and not the extras.
ManifestOfFixed(sealed) ==
    [run       |-> sealed["assessment.json"].run,
     summary   |-> SummaryOf(sealed["assessment.json"].lines),
     artifacts |-> DOMAIN sealed \ {"config.json", "exemptions.json"}]

Manifest(sealed) ==
    [run       |-> sealed["assessment.json"].run,
     summary   |-> SummaryOf(sealed["assessment.json"].lines),
     artifacts |-> DOMAIN sealed]

Digest(name, value) == [name |-> name, sum |-> value]

\* One line per artifact, then the manifest.
Checksums(sealed) ==
    LET names == Artifacts(sealed)
    IN  [i \in 1 .. Len(names) |-> Digest(names[i], sealed[names[i]])]
            \o <<Digest("manifest.json", Manifest(sealed))>>

----------------------------------------------------------------------------
(* VerifyBundle.                                                            *)

Listed(files) == {files["checksums.txt"].value[i].name :
                     i \in DOMAIN files["checksums.txt"].value}

Declared(files) == files["manifest.json"].value.artifacts \cup {"manifest.json"}

\* Every artifact of the manifest has a digest, and every digest is declared.
CoversTheManifest(files) ==
    /\ files["manifest.json"].value.artifacts \subseteq Listed(files)
    /\ Listed(files) \subseteq Declared(files)

\* (mutant) a listed file that is there passes.
DigestsOfPresence(files) == \A n \in Listed(files) : n \in DOMAIN files

DigestsMatch(files) ==
    \A i \in DOMAIN files["checksums.txt"].value :
        LET line == files["checksums.txt"].value[i]
        IN  line.name \in DOMAIN files /\ files[line.name] = Whole(line.sum)

SummaryMatches(files) ==
    files["manifest.json"].value.summary = SummaryOf(files["assessment.json"].value.lines)

\* A line cut in the middle is refused: unreadable, or of another digest or name.
VerifyBundle(files) ==
    /\ Holds(files, "checksums.txt") /\ files["checksums.txt"].value # <<>>
    /\ Holds(files, "manifest.json")
    /\ CoversTheManifest(files)
    /\ DigestsMatch(files)
    /\ SummaryMatches(files)

----------------------------------------------------------------------------
(* The signature, and verify --re-derive.                                   *)

\* cosign verify-blob: the signature is of checksums.txt as it is now.
VerifyCosign(files) ==
    /\ "checksums.txt.bundle" \in DOMAIN files
    /\ files["checksums.txt.bundle"] = files["checksums.txt"]

\* Read from the directory, listed or not.
SealedExemptions(files) ==
    IF "exemptions.json" \in DOMAIN files THEN files["exemptions.json"].value ELSE <<>>

\* (mutant) the exemptions are judged at the instant of the verifier.
ReplayNow(files, lang, now) ==
    LET asmt == files["assessment.json"].value IN
    [asmt EXCEPT !.lines = Lines(files["input.json"].value, SealedExemptions(files), now, FALSE),
                 !.lang = lang]

\* The assessment the verifier builds, in one language, at the sealed instant.
Replay(files, lang, now) ==
    LET asmt == files["assessment.json"].value IN
    [asmt EXCEPT !.lines = Lines(files["input.json"].value, SealedExemptions(files),
                                 asmt.run.timestamp, FALSE),
                 !.lang = lang]

\* checkProvenance: one instant, carved in both documents.
OneInstant(files) ==
    files["input.json"].value.evaluated_at = files["assessment.json"].value.run.timestamp

ReDerive(files, now) ==
    /\ \A n \in {"assessment.json", "input.json"} : Holds(files, n)
    /\ "exemptions.json" \in DOMAIN files => files["exemptions.json"].whole
    /\ \E lang \in Langs :
          /\ Replay(files, lang, now) = files["assessment.json"].value
          /\ "assessment-oscal.json" \in DOMAIN files =>
                files["assessment-oscal.json"] = Whole(Oscal(Replay(files, lang, now)))
    /\ OneInstant(files)

\* The verify command with its three flags.
Verify(files, pubkey, require, rederive, now) ==
    /\ VerifyBundle(files)
    /\ IF pubkey THEN VerifyCosign(files) ELSE ~require
    /\ rederive => ReDerive(files, now)

=============================================================================
