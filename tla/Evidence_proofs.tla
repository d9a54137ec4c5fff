---------------------------- MODULE Evidence_proofs ----------------------------
(***************************************************************************)
(* What verify and diff make of the directories of Evidence, proved for    *)
(* any tenants, policies, requests and directories, and any number of      *)
(* scans, days and faults.  The proofs rest on two invariants: what a file *)
(* may hold, stopped scan or not (SealsInv), and how far the scan in       *)
(* progress went (ProgressInv).                                            *)
(***************************************************************************)
EXTENDS Evidence, TLAPS, SequenceTheorems

----------------------------------------------------------------------------
(* The inductive invariants.                                                *)

\* What a rule engine may be given.
Inventory == {in \in Input : FactsArePlaced(in)}

\* What a scan that started at `now` or before may have sealed.
IsSealed(s, now) == \E q \in Requests, in \in Inventory, t \in 1 .. now : s = Sealed(q, in, t)

\* A scan that found its inventory in the bundle of an earlier one.
IsOrigin(origin, in, now) ==
    \E q \in Requests, old \in Inventory, t \in 1 .. now :
        /\ origin = [sealed |-> Sealed(q, old, t), request |-> q, origin |-> NoScan]
        /\ in = Sealed(q, old, t)["input.json"]

IsScan(sealed, request, origin, now) ==
    /\ request \in Requests
    /\ \E in \in Inventory, t \in 1 .. now :
          /\ sealed = Sealed(request, in, t)
          /\ origin # NoScan => IsOrigin(origin, in, t)

\* What the file n holds, whole or not, when the scans `tr` wrote into its directory.
ContentOK(n, value, tr) ==
    /\ n = "input.json" => value \in Inventory
    /\ n = "manifest.json" => \E s \in tr : value = Manifest(s)
    /\ n = "checksums.txt" => \E s \in tr : \E k \in 0 .. Len(Checksums(s)) :
                                 value = SubSeq(Checksums(s), 1, k)

FilesOK(files, tr) ==
    /\ DOMAIN files \subseteq FileNames
    /\ \A n \in DOMAIN files : ContentOK(n, files[n].value, tr)

MadeOK(d) ==
    made[d] # NoScan =>
        /\ made[d] = [sealed |-> made[d].sealed, request |-> made[d].request,
                      origin |-> made[d].origin]
        /\ IsScan(made[d].sealed, made[d].request, made[d].origin, clock)
        /\ made[d].sealed \in tried[d]

WritingOK ==
    writing # NoScan =>
        /\ writing = [dir |-> writing.dir, sealed |-> writing.sealed, next |-> writing.next,
                      request |-> writing.request, origin |-> writing.origin]
        /\ IsScan(writing.sealed, writing.request, writing.origin, clock)
        /\ writing.dir \in Dirs /\ writing.sealed \in tried[writing.dir]
        /\ writing.next \in 0 .. Len(Names) + 2

SealsInv ==
    /\ clock \in 1 .. MaxTime /\ scans \in 0 .. MaxScans /\ faults \in 0 .. MaxFaults
    /\ DOMAIN disk = Dirs /\ DOMAIN tried = Dirs /\ DOMAIN made = Dirs
    /\ \A d \in Dirs : /\ FilesOK(disk[d], tried[d])
                       /\ \A s \in tried[d] : IsSealed(s, clock)
                       /\ MadeOK(d)
    /\ WritingOK

\* The files the scan in progress is done with are whole.
Written(files, s, next) ==
    /\ \A i \in 1 .. Len(Artifacts(s)) : i < next =>
          LET n == Artifacts(s)[i] IN n \in DOMAIN files /\ files[n] = Whole(s[n])
    /\ next = Len(Artifacts(s)) + 2 =>
          "manifest.json" \in DOMAIN files /\ files["manifest.json"] = Whole(Manifest(s))

\* What a scan that ended well leaves.
Finished(files, s) ==
    /\ \A n \in DOMAIN s : n \in DOMAIN files /\ files[n] = Whole(s[n])
    /\ "manifest.json" \in DOMAIN files /\ files["manifest.json"] = Whole(Manifest(s))
    /\ "checksums.txt" \in DOMAIN files /\ files["checksums.txt"] = Whole(Checksums(s))

ProgressInv ==
    /\ writing # NoScan => /\ made[writing.dir] = NoScan
                           /\ Written(disk[writing.dir], writing.sealed, writing.next)
    /\ \A d \in Dirs : made[d] # NoScan => Finished(disk[d], made[d].sealed)

----------------------------------------------------------------------------
(* What is sealed.                                                          *)

\* What a scan makes of its inventory: the documents, and the two files of the policy.
LEMMA SealedHas ==
    ASSUME NEW q \in Requests, NEW in, NEW t
    PROVE  LET s    == Sealed(q, in, t)
               asmt == AssessmentOf(q, in, Lines(in, q.policy.exemptions, t, q.external), t)
           IN /\ {"input.json", "assessment.json", "assessment-oscal.json"} \subseteq DOMAIN s
              /\ DOMAIN s \subseteq ArtifactNames
              /\ s["input.json"] = IF q.redact THEN RedactInventory(in) ELSE in
              /\ s["assessment.json"] = asmt
              /\ s["assessment-oscal.json"] = Oscal(asmt)
              /\ "exemptions.json" \in DOMAIN s <=> q.policy.exemptions # <<>>
              /\ "exemptions.json" \in DOMAIN s => s["exemptions.json"] = q.policy.exemptions
<1> DEFINE s == Sealed(q, in, t)
           asmt == AssessmentOf(q, in, Lines(in, q.policy.exemptions, t, q.external), t)
           names == {"input.json", "assessment.json", "assessment-oscal.json"}
                       \cup ConfigSealed(q) \cup ExemptionsSealed(q)
<1>1. s = [n \in names |->
             CASE n = "input.json" -> IF q.redact THEN RedactInventory(in) ELSE in
               [] n = "assessment.json" -> asmt
               [] n = "assessment-oscal.json" -> Oscal(asmt)
               [] n = "config.json" -> in.config
               [] n = "exemptions.json" -> q.policy.exemptions]
  BY DEF Sealed
<1> HIDE DEF s, asmt
<1>2. /\ DOMAIN s = names
      /\ "exemptions.json" \in names <=> q.policy.exemptions # <<>>
      /\ names \subseteq ArtifactNames
  BY <1>1 DEF ConfigSealed, ExemptionsSealed, ArtifactNames
<1>3. {"input.json", "assessment.json", "assessment-oscal.json"} \subseteq names
  OBVIOUS
<1>4. s["input.json"] = IF q.redact THEN RedactInventory(in) ELSE in
  BY <1>1, <1>3
<1>5. s["assessment.json"] = asmt
  BY <1>1, <1>3
<1>6. s["assessment-oscal.json"] = Oscal(asmt)
  BY <1>1, <1>3
<1>7. "exemptions.json" \in names => s["exemptions.json"] = q.policy.exemptions
  BY <1>1
<1> HIDE DEF names
<1> QED
  BY <1>2, <1>3, <1>4, <1>5, <1>6, <1>7 DEF s, asmt

\* An inventory whose redaction is changed keeps its other fields.
LEMMA Redacted ==
    ASSUME NEW in, NEW value,
           in = [facts |-> in.facts, present |-> in.present, incomplete |-> in.incomplete,
                 redacted |-> in.redacted, evaluated_at |-> in.evaluated_at, config |-> in.config]
    PROVE  [in EXCEPT !.redacted = value] =
             [facts |-> in.facts, present |-> in.present, incomplete |-> in.incomplete,
              redacted |-> value, evaluated_at |-> in.evaluated_at, config |-> in.config]
OBVIOUS

\* The redacted inventory is an inventory.
LEMMA RedactKeepsType ==
    ASSUME NEW in \in Inventory
    PROVE  /\ RedactInventory(in) \in Inventory
           /\ RedactInventory(in) = [facts |-> in.facts, present |-> in.present,
                                     incomplete |-> in.incomplete, redacted |-> TRUE,
                                     evaluated_at |-> in.evaluated_at, config |-> in.config]
<1>1. RedactInventory(in) = [facts |-> in.facts, present |-> in.present,
                             incomplete |-> in.incomplete, redacted |-> TRUE,
                             evaluated_at |-> in.evaluated_at, config |-> in.config]
  <2>1. in = [facts |-> in.facts, present |-> in.present, incomplete |-> in.incomplete,
              redacted |-> in.redacted, evaluated_at |-> in.evaluated_at, config |-> in.config]
    BY DEF Inventory, Input
  <2> QED
    BY <2>1, Redacted DEF RedactInventory
<1> QED
  BY <1>1 DEF Inventory, Input, FactsArePlaced

\* The files a scan writes are the artifacts it sealed, each of them.
LEMMA ArtifactsOf ==
    ASSUME NEW s, {"input.json", "assessment.json", "assessment-oscal.json"} \subseteq DOMAIN s,
           DOMAIN s \subseteq ArtifactNames
    PROVE  /\ Len(Artifacts(s)) \in 3 .. 5 /\ DOMAIN Artifacts(s) = 1 .. Len(Artifacts(s))
           /\ \A i \in 1 .. Len(Artifacts(s)) : Artifacts(s)[i] \in DOMAIN s
           /\ \A n \in DOMAIN s : \E i \in 1 .. Len(Artifacts(s)) : Artifacts(s)[i] = n
<1> DEFINE c == IF "config.json" \in DOMAIN s THEN <<"config.json">> ELSE <<>>
           e == IF "exemptions.json" \in DOMAIN s THEN <<"exemptions.json">> ELSE <<>>
           d == <<"input.json", "assessment.json", "assessment-oscal.json">>
<1>1. Artifacts(s) = d \o c \o e
  BY DEF Artifacts, Extra, Documents
<1>2. /\ d \in Seq(ArtifactNames) /\ c \in Seq(ArtifactNames) /\ e \in Seq(ArtifactNames)
      /\ Len(d) = 3 /\ Len(c) \in 0 .. 1 /\ Len(e) \in 0 .. 1
  <2>1. {"input.json", "assessment.json", "assessment-oscal.json", "config.json",
         "exemptions.json"} \subseteq ArtifactNames
    BY DEF ArtifactNames
  <2>2. d \in Seq(ArtifactNames) /\ Len(d) = 3
    BY <2>1
  <2>3. c \in Seq(ArtifactNames) /\ Len(c) \in 0 .. 1
    BY <2>1
  <2>4. e \in Seq(ArtifactNames) /\ Len(e) \in 0 .. 1
    BY <2>1
  <2> QED
    BY <2>2, <2>3, <2>4
<1>3. /\ Len(d \o c) = 3 + Len(c) /\ d \o c \in Seq(ArtifactNames)
      /\ Len((d \o c) \o e) = 3 + Len(c) + Len(e) /\ (d \o c) \o e \in Seq(ArtifactNames)
  BY <1>2
<1>4. DOMAIN Artifacts(s) = 1 .. Len(Artifacts(s)) /\ Len(Artifacts(s)) \in 3 .. 5
  BY <1>1, <1>2, <1>3
<1>5. /\ \A i \in 1 .. 3 : ((d \o c) \o e)[i] = d[i]
      /\ Len(c) = 1 => ((d \o c) \o e)[4] = c[1]
      /\ Len(e) = 1 => ((d \o c) \o e)[4 + Len(c)] = e[1]
  BY <1>2, <1>3
<1>6. d[1] = "input.json" /\ d[2] = "assessment.json" /\ d[3] = "assessment-oscal.json"
  OBVIOUS
<1>7. /\ "config.json" \in DOMAIN s => Len(c) = 1 /\ c[1] = "config.json"
      /\ "config.json" \notin DOMAIN s => Len(c) = 0
      /\ "exemptions.json" \in DOMAIN s => Len(e) = 1 /\ e[1] = "exemptions.json"
      /\ "exemptions.json" \notin DOMAIN s => Len(e) = 0
  OBVIOUS
<1> HIDE DEF c, d, e
<1>8. Len(Artifacts(s)) = 3 + Len(c) + Len(e)
  BY <1>1, <1>3
<1>9. ASSUME NEW i \in 1 .. Len(Artifacts(s)) PROVE Artifacts(s)[i] \in DOMAIN s
  <2>1. CASE i \in 1 .. 3
    <3>1. i = 1 \/ i = 2 \/ i = 3
      BY <2>1
    <3> QED
      BY <1>1, <1>5, <1>6, <2>1, <3>1
  <2>2. CASE i > 3
    <3>1. (i = 4 /\ Len(c) = 1) \/ (i = 4 + Len(c) /\ Len(e) = 1)
      <4>1. Len(c) \in 0 .. 1 /\ Len(e) \in 0 .. 1 /\ i \in 4 .. 3 + Len(c) + Len(e)
        BY <1>2, <1>8, <2>2
      <4>2. ASSUME NEW x \in {0, 1}, NEW y \in {0, 1}, NEW j \in 4 .. 3 + x + y
            PROVE  (j = 4 /\ x = 1) \/ (j = 4 + x /\ y = 1)
        OBVIOUS
      <4>3. Len(c) \in {0, 1} /\ Len(e) \in {0, 1}
        BY <4>1
      <4> QED
        BY <4>1, <4>2, <4>3
    <3> QED
      BY <1>1, <1>5, <1>7, <3>1
  <2> QED
    BY <1>4, <2>1, <2>2
<1>10. ASSUME NEW n \in DOMAIN s PROVE \E i \in 1 .. Len(Artifacts(s)) : Artifacts(s)[i] = n
  <2>1. CASE n \in {"input.json", "assessment.json", "assessment-oscal.json"}
    <3>1. 1 \in 1 .. Len(Artifacts(s)) /\ 2 \in 1 .. Len(Artifacts(s)) /\ 3 \in 1 .. Len(Artifacts(s))
      BY <1>4
    <3> QED
      BY <1>1, <1>5, <1>6, <2>1, <3>1
  <2>2. CASE n = "config.json"
    <3>1. 4 \in 1 .. Len(Artifacts(s)) /\ Artifacts(s)[4] = n
      BY <1>1, <1>2, <1>5, <1>7, <1>8, <2>2
    <3> QED
      BY <3>1
  <2>3. CASE n = "exemptions.json"
    <3>1. 4 + Len(c) \in 1 .. Len(Artifacts(s)) /\ Artifacts(s)[4 + Len(c)] = n
      BY <1>1, <1>2, <1>5, <1>7, <1>8, <2>3
    <3> QED
      BY <3>1
  <2> QED
    BY <2>1, <2>2, <2>3 DEF ArtifactNames
<1> QED
  BY <1>4, <1>9, <1>10

\* checksums.txt has the line of each artifact, and the line of the manifest after them.
LEMMA ChecksumsOf ==
    ASSUME NEW s, {"input.json", "assessment.json", "assessment-oscal.json"} \subseteq DOMAIN s,
           DOMAIN s \subseteq ArtifactNames
    PROVE  LET names == Artifacts(s)
               sums  == Checksums(s)
           IN /\ Len(sums) = Len(names) + 1 /\ Len(sums) \in Nat /\ DOMAIN sums = 1 .. Len(sums)
              /\ \A i \in 1 .. Len(names) : sums[i] = Digest(names[i], s[names[i]])
              /\ sums[Len(names) + 1] = Digest("manifest.json", Manifest(s))
              /\ SubSeq(sums, 1, Len(sums)) = sums
              /\ \A k \in 0 .. Len(sums) :
                    /\ DOMAIN SubSeq(sums, 1, k) = 1 .. k
                    /\ \A i \in 1 .. k : SubSeq(sums, 1, k)[i] = sums[i]
<1> DEFINE names == Artifacts(s)
           T == {Digest(names[i], s[names[i]]) : i \in 1 .. Len(names)}
                   \cup {Digest("manifest.json", Manifest(s))}
           lines == [i \in 1 .. Len(names) |-> Digest(names[i], s[names[i]])]
           last == <<Digest("manifest.json", Manifest(s))>>
<1>1. Len(names) \in Nat
  BY ArtifactsOf
<1> HIDE DEF names
<1>2. lines \in Seq(T) /\ Len(lines) = Len(names)
  BY <1>1
<1>3. last \in Seq(T) /\ Len(last) = 1 /\ last[1] = Digest("manifest.json", Manifest(s))
  OBVIOUS
<1>4. \A i \in 1 .. Len(names) : lines[i] = Digest(names[i], s[names[i]])
  OBVIOUS
<1>5. Checksums(s) = lines \o last
  BY DEF Checksums, names
<1> HIDE DEF lines, last, T
<1>6. /\ lines \o last \in Seq(T) /\ Len(lines \o last) = Len(names) + 1
      /\ \A i \in 1 .. Len(names) : (lines \o last)[i] = lines[i]
      /\ (lines \o last)[Len(names) + 1] = last[1]
  <2>1. /\ lines \o last \in Seq(T) /\ Len(lines \o last) = Len(lines) + Len(last)
        /\ \A i \in 1 .. Len(lines) + Len(last) :
              (lines \o last)[i] = IF i <= Len(lines) THEN lines[i] ELSE last[i - Len(lines)]
    BY <1>2, <1>3, ConcatProperties
  <2>2. ASSUME NEW i \in 1 .. Len(names) PROVE (lines \o last)[i] = lines[i]
    BY <1>1, <1>2, <1>3, <2>1, <2>2
  <2>3. (Len(names) + 1) - Len(names) = 1 /\ ~(Len(names) + 1 <= Len(names))
    BY <1>1
  <2>4. (lines \o last)[Len(names) + 1] = last[1]
    BY <1>1, <1>2, <1>3, <2>1, <2>3
  <2> QED
    BY <1>2, <1>3, <2>1, <2>2, <2>4
<1>7. DOMAIN (lines \o last) = 1 .. Len(lines \o last)
  BY <1>6
<1>8. ASSUME NEW r \in Seq(T), NEW k \in 0 .. Len(r)
      PROVE  /\ DOMAIN SubSeq(r, 1, k) = 1 .. k
             /\ \A i \in 1 .. k : SubSeq(r, 1, k)[i] = r[i]
             /\ k = Len(r) => SubSeq(r, 1, k) = r
  OBVIOUS
<1> QED
  BY <1>1, <1>3, <1>4, <1>5, <1>6, <1>7, <1>8 DEF names

----------------------------------------------------------------------------
(* What a file holds.                                                       *)

\* What is sealed holds the three documents of a scan, and no other than artifacts.
LEMMA SealedIsFit ==
    ASSUME NEW s, NEW now, IsSealed(s, now)
    PROVE  /\ {"input.json", "assessment.json", "assessment-oscal.json"} \subseteq DOMAIN s
           /\ DOMAIN s \subseteq ArtifactNames
           /\ s["input.json"] \in Inventory
<1>1. PICK q \in Requests, in \in Inventory, t \in 1 .. now : s = Sealed(q, in, t)
  BY DEF IsSealed
<1> QED
  BY <1>1, SealedHas, RedactKeepsType

\* A scan is sealed.
LEMMA ScanIsSealed ==
    ASSUME NEW sealed, NEW request, NEW origin, NEW now, IsScan(sealed, request, origin, now)
    PROVE  IsSealed(sealed, now)
BY DEF IsScan, IsSealed

\* What is sealed remains so as time passes.
LEMMA StillSealed ==
    ASSUME NEW now \in Nat, NEW later \in Nat, now <= later
    PROVE  /\ \A s : IsSealed(s, now) => IsSealed(s, later)
           /\ \A s, q, o : IsScan(s, q, o, now) => IsScan(s, q, o, later)
<1>1. 1 .. now \subseteq 1 .. later
  OBVIOUS
<1> QED
  BY <1>1 DEF IsSealed, IsScan

\* A directory remains in order when a file that is in order is put in it.
LEMMA PutOK ==
    ASSUME NEW files, NEW tr, NEW n \in FileNames, NEW content,
           FilesOK(files, tr), ContentOK(n, content.value, tr)
    PROVE  FilesOK(Put(files, n, content), tr)
BY DEF FilesOK, Put

\* A directory remains in order when it loses a file.
LEMMA DropOK ==
    ASSUME NEW files, NEW tr, NEW n, FilesOK(files, tr)
    PROVE  FilesOK(Drop(files, n), tr)
BY DEF FilesOK, Drop

\* A directory remains in order when more scans were tried in it.
LEMMA MoreScansOK ==
    ASSUME NEW files, NEW tr, NEW more, tr \subseteq more, FilesOK(files, tr)
    PROVE  FilesOK(files, more)
BY DEF FilesOK, ContentOK

\* The files that are not read back may hold anything.
LEMMA OtherContent ==
    ASSUME NEW n, n \notin {"input.json", "manifest.json", "checksums.txt"}, NEW value, NEW tr
    PROVE  ContentOK(n, value, tr)
BY DEF ContentOK

\* What the scan writes next is a file of its bundle, and what that file may hold.
LEMMA NextContent ==
    ASSUME SealsInv, writing # NoScan, writing.next \in 1 .. Len(Names) + 2
    PROVE  /\ NextName \in FileNames
           /\ ContentOK(NextName, NextValue, tried[writing.dir])
           /\ NextName = "checksums.txt" <=> writing.next = Len(Names) + 2
           /\ NextName = "checksums.txt" =>
                 \A k \in 0 .. Len(Names) :
                    ContentOK("checksums.txt", SubSeq(NextValue, 1, k), tried[writing.dir])
<1> DEFINE s == writing.sealed
<1>1. IsSealed(s, clock) /\ s \in tried[writing.dir]
  BY ScanIsSealed DEF SealsInv, WritingOK
<1>2. /\ {"input.json", "assessment.json", "assessment-oscal.json"} \subseteq DOMAIN s
      /\ DOMAIN s \subseteq ArtifactNames /\ s["input.json"] \in Inventory
  BY <1>1, SealedIsFit
<1>3. Names = Artifacts(s) /\ Len(Names) \in Nat
  BY <1>2, ArtifactsOf DEF Names
<1> HIDE DEF s
<1>4. CASE writing.next \in 1 .. Len(Names)
  <2>1. NextName = Names[writing.next] /\ NextValue = s[Names[writing.next]]
    BY <1>4 DEF NextName, NextValue, s
  <2>2. Names[writing.next] \in DOMAIN s
    BY <1>2, <1>3, <1>4, ArtifactsOf
  <2>3. NextName \in ArtifactNames /\ (NextName = "input.json" => NextValue \in Inventory)
    BY <1>2, <2>1, <2>2
  <2>4. NextName # "manifest.json" /\ NextName # "checksums.txt" /\ NextName \in FileNames
    BY <2>3 DEF ArtifactNames, FileNames
  <2>5. writing.next # Len(Names) + 2
    BY <1>3, <1>4
  <2> QED
    BY <2>3, <2>4, <2>5 DEF ContentOK
<1>5. CASE writing.next = Len(Names) + 1
  <2>1. writing.next \notin 1 .. Len(Names) /\ writing.next # Len(Names) + 2
    BY <1>3, <1>5
  <2>2. NextName = "manifest.json" /\ NextValue = Manifest(s)
    BY <1>5, <2>1 DEF NextName, NextValue, s
  <2> QED
    BY <1>1, <2>1, <2>2 DEF ContentOK, FileNames, s
<1>6. CASE writing.next = Len(Names) + 2
  <2>1. writing.next \notin 1 .. Len(Names) /\ writing.next # Len(Names) + 1
    BY <1>3, <1>6
  <2>2. NextName = "checksums.txt" /\ NextValue = Checksums(s)
    BY <1>6, <2>1 DEF NextName, NextValue, s
  <2>3. /\ Len(Checksums(s)) = Len(Names) + 1
        /\ SubSeq(Checksums(s), 1, Len(Checksums(s))) = Checksums(s)
    BY <1>2, <1>3, ChecksumsOf
  <2>4. ASSUME NEW k \in 0 .. Len(Checksums(s))
        PROVE  ContentOK("checksums.txt", SubSeq(NextValue, 1, k), tried[writing.dir])
    BY <1>1, <2>2 DEF ContentOK, s
  <2>5. Len(Checksums(s)) \in 0 .. Len(Checksums(s)) /\ 0 .. Len(Names) \subseteq 0 .. Len(Checksums(s))
    BY <1>3, <2>3
  <2>6. ContentOK("checksums.txt", NextValue, tried[writing.dir])
    BY <2>2, <2>3, <2>4, <2>5
  <2>7. "checksums.txt" \in FileNames
    BY DEF FileNames
  <2> QED
    BY <1>6, <2>2, <2>4, <2>5, <2>6, <2>7
<1> QED
  BY <1>3, <1>4, <1>5, <1>6

----------------------------------------------------------------------------
(* SealsInv is kept.                                                        *)

\* A step that touches the files of one directory at most.
LEMMA OneDirectory ==
    ASSUME SealsInv, NEW d \in Dirs, NEW files, FilesOK(files, tried[d]),
           disk' = [disk EXCEPT ![d] = files], UNCHANGED <<clock, scans, tried>>,
           faults' \in 0 .. MaxFaults, WritingOK', \A e \in Dirs : MadeOK(e)', DOMAIN made' = Dirs
    PROVE  SealsInv'
<1>1. DOMAIN disk' = Dirs /\ \A e \in Dirs : disk'[e] = IF e = d THEN files ELSE disk[e]
  BY DEF SealsInv
<1>2. \A e \in Dirs : FilesOK(disk'[e], tried[e])
  BY <1>1 DEF SealsInv
<1>3. /\ clock' \in 1 .. MaxTime /\ scans' \in 0 .. MaxScans /\ DOMAIN tried' = Dirs
      /\ \A e \in Dirs : \A s \in tried'[e] : IsSealed(s, clock')
  BY DEF SealsInv
<1> QED
  BY <1>1, <1>2, <1>3 DEF SealsInv

\* The inventory that a request draws is an inventory.
LEMMA FreshIsInventory == ASSUME SealsInv, NEW q \in Requests PROVE Fresh(q) \in Inventory
<1>1. clock \in Nat
  BY DEF SealsInv
<1>2. /\ q.tenant.facts \subseteq Facts /\ q.tenant.present \subseteq Resources
      /\ q.tenant.incomplete \in BOOLEAN /\ FactsArePlaced(q.tenant) /\ q.policy.config \in Configs
  BY EvidenceAssumption
<1>3. Fresh(q) \in Input
  BY <1>1, <1>2 DEF Fresh, Input
<1>4. FactsArePlaced(Fresh(q))
  BY <1>2 DEF Fresh, FactsArePlaced
<1> QED
  BY <1>3, <1>4 DEF Inventory

\* Seal keeps what the directories hold sealed.
LEMMA SealSeals ==
    ASSUME SealsInv, NEW d \in Dirs, NEW q \in Requests, NEW in \in Inventory, NEW origin,
           origin # NoScan => IsOrigin(origin, in, clock), Seal(d, q, in, origin)
    PROVE  SealsInv'
<1> DEFINE s == Sealed(q, in, clock)
<1>1. /\ scans < MaxScans /\ scans' = scans + 1
      /\ writing' = [dir |-> d, sealed |-> s, next |-> 0, request |-> q, origin |-> origin]
      /\ disk' = [disk EXCEPT ![d] = Put(@, ".oscal", Whole("rendering"))]
      /\ tried' = [tried EXCEPT ![d] = @ \cup {s}]
      /\ made' = [made EXCEPT ![d] = NoScan]
      /\ UNCHANGED <<clock, faults>>
  BY DEF Seal
<1>2. clock \in 1 .. clock
  BY DEF SealsInv
<1>3. IsScan(s, q, origin, clock) /\ IsSealed(s, clock)
  BY <1>2 DEF IsScan, IsSealed
<1>4. /\ {"input.json", "assessment.json", "assessment-oscal.json"} \subseteq DOMAIN s
      /\ DOMAIN s \subseteq ArtifactNames
  BY <1>3, SealedIsFit
<1>5. Len(Artifacts(s)) \in Nat
  BY <1>4, ArtifactsOf
<1> HIDE DEF s
<1>6. /\ DOMAIN disk' = Dirs /\ DOMAIN tried' = Dirs /\ DOMAIN made' = Dirs
      /\ \A e \in Dirs : disk'[e] = IF e = d THEN Put(disk[d], ".oscal", Whole("rendering")) ELSE disk[e]
      /\ \A e \in Dirs : tried'[e] = IF e = d THEN tried[d] \cup {s} ELSE tried[e]
      /\ \A e \in Dirs : made'[e] = IF e = d THEN NoScan ELSE made[e]
  BY <1>1 DEF SealsInv
<1>7. ASSUME NEW e \in Dirs
      PROVE  /\ FilesOK(disk'[e], tried'[e])
             /\ \A x \in tried'[e] : IsSealed(x, clock')
             /\ MadeOK(e)'
  <2>1. FilesOK(disk[e], tried[e]) /\ (\A x \in tried[e] : IsSealed(x, clock)) /\ MadeOK(e)
    BY DEF SealsInv
  <2>2. tried[e] \subseteq tried'[e] /\ \A x \in tried'[e] : x = s \/ x \in tried[e]
    BY <1>6
  <2>3. FilesOK(disk[e], tried'[e])
    BY <2>1, <2>2, MoreScansOK
  <2>4. ".oscal" \in FileNames /\ ContentOK(".oscal", Whole("rendering").value, tried'[e])
    BY OtherContent DEF FileNames
  <2>5. FilesOK(disk'[e], tried'[e])
    BY <1>6, <2>3, <2>4, PutOK
  <2>6. MadeOK(e)'
    BY <1>1, <1>6, <2>1, <2>2 DEF MadeOK
  <2> QED
    BY <1>1, <1>3, <2>1, <2>2, <2>5, <2>6
<1>8. WritingOK'
  <2>1. /\ writing'.dir = d /\ writing'.sealed = s /\ writing'.next = 0
        /\ writing'.request = q /\ writing'.origin = origin
    BY <1>1
  <2>2. Names' = Artifacts(s)
    BY <2>1 DEF Names
  <2>3. 0 \in 0 .. Len(Artifacts(s)) + 2 /\ s \in tried'[d]
    BY <1>5, <1>6
  <2> QED
    BY <1>1, <1>3, <2>1, <2>2, <2>3 DEF WritingOK
<1>9. scans' \in 0 .. MaxScans /\ clock' \in 1 .. MaxTime /\ faults' \in 0 .. MaxFaults
  BY <1>1, EvidenceAssumption DEF SealsInv
<1> QED
  BY <1>6, <1>7, <1>8, <1>9 DEF SealsInv

\* A replay reads a document that was sealed, and where its bundle is still as its scan
\* left it, the very one that scan sealed.
LEMMA ScanSealedSeals ==
    ASSUME SealsInv, ProgressInv, NEW d \in Dirs, NEW from \in Dirs, NEW q \in Requests,
           ScanSealed(d, from, q)
    PROVE  SealsInv'
<1> DEFINE in     == disk[from]["input.json"].value
           origin == IF made[from] = NoScan THEN NoScan ELSE [made[from] EXCEPT !.origin = NoScan]
<1>1. /\ "input.json" \in DOMAIN disk[from]
      /\ Seal(d, q, in, origin)
  BY DEF ScanSealed, Holds, Carved
<1>2. in \in Inventory
  BY <1>1 DEF SealsInv, FilesOK, ContentOK
<1>3. ASSUME made[from] # NoScan PROVE IsOrigin(origin, in, clock)
  <2>1. /\ made[from] = [sealed |-> made[from].sealed, request |-> made[from].request,
                         origin |-> made[from].origin]
        /\ IsScan(made[from].sealed, made[from].request, made[from].origin, clock)
    BY <1>3 DEF SealsInv, MadeOK
  <2>2. PICK old \in Inventory, t \in 1 .. clock :
               made[from].sealed = Sealed(made[from].request, old, t) /\ made[from].request \in Requests
    BY <2>1 DEF IsScan
  <2>3. origin = [sealed |-> made[from].sealed, request |-> made[from].request, origin |-> NoScan]
    BY <1>3, <2>1
  <2>4. "input.json" \in DOMAIN made[from].sealed
    BY <2>1, ScanIsSealed, SealedIsFit
  <2>5. disk[from]["input.json"] = Whole(made[from].sealed["input.json"])
    BY <1>3, <2>4 DEF ProgressInv, Finished
  <2>6. in = made[from].sealed["input.json"]
    BY <2>5 DEF Whole
  <2> HIDE DEF origin, in
  <2> QED
    BY <2>2, <2>3, <2>6 DEF IsOrigin
<1>4. origin # NoScan => IsOrigin(origin, in, clock)
  BY <1>3
<1> HIDE DEF origin, in
<1> QED
  BY <1>1, <1>2, <1>4, SealSeals

\* Write keeps what the directories hold sealed.
LEMMA WriteSeals ==
    ASSUME SealsInv, RenderOscal \/ WriteFile
    PROVE  SealsInv'
<1>1. writing # NoScan /\ writing.next \in 0 .. Len(Names) + 1 /\ UNCHANGED <<clock, scans, faults, tried, made>>
  <2>1. CASE RenderOscal
    <3>1. Len(Names) \in Nat
      BY <2>1, ScanIsSealed, SealedIsFit, ArtifactsOf DEF RenderOscal, SealsInv, WritingOK, Names
    <3> QED
      BY <2>1, <3>1 DEF RenderOscal
  <2>2. CASE WriteFile
    BY <2>2 DEF WriteFile
  <2> QED
    BY <2>1, <2>2
<1>2. /\ WritingOK /\ writing.dir \in Dirs /\ Len(Names) \in Nat
  BY <1>1, ScanIsSealed, SealedIsFit, ArtifactsOf DEF SealsInv, WritingOK, Names
<1> DEFINE files == IF writing.next = 0 THEN Drop(disk[writing.dir], ".oscal")
                    ELSE Put(disk[writing.dir], NextName, Whole(NextValue))
<1>3. /\ disk' = [disk EXCEPT ![writing.dir] = files]
      /\ writing' = [writing EXCEPT !.next = writing.next + 1]
  <2>1. CASE RenderOscal
    BY <2>1, <1>2 DEF RenderOscal
  <2>2. CASE WriteFile
    <3>1. writing.next # 0
      BY <1>2, <2>2 DEF WriteFile
    <3> QED
      BY <2>2, <3>1 DEF WriteFile
  <2> QED
    BY <2>1, <2>2
<1>4. FilesOK(files, tried[writing.dir])
  <2>1. FilesOK(disk[writing.dir], tried[writing.dir])
    BY <1>2 DEF SealsInv
  <2>2. CASE writing.next = 0
    BY <2>1, <2>2, DropOK
  <2>3. CASE writing.next # 0
    <3>1. writing.next \in 1 .. Len(Names) + 2
      BY <1>1, <1>2, <2>3
    <3>2. NextName \in FileNames /\ ContentOK(NextName, NextValue, tried[writing.dir])
      BY <1>1, <3>1, NextContent
    <3>3. Whole(NextValue).value = NextValue
      BY DEF Whole
    <3> QED
      BY <2>1, <2>3, <3>2, <3>3, PutOK
  <2> QED
    BY <2>2, <2>3
<1> HIDE DEF files
<1>5. WritingOK'
  <2>1. /\ writing = [dir |-> writing.dir, sealed |-> writing.sealed, next |-> writing.next,
                      request |-> writing.request, origin |-> writing.origin]
        /\ IsScan(writing.sealed, writing.request, writing.origin, clock)
        /\ writing.sealed \in tried[writing.dir]
    BY <1>1, <1>2 DEF WritingOK
  <2>2. writing' = [dir |-> writing.dir, sealed |-> writing.sealed, next |-> writing.next + 1,
                    request |-> writing.request, origin |-> writing.origin]
    BY <1>3, <2>1
  <2>3. /\ writing'.dir = writing.dir /\ writing'.sealed = writing.sealed
        /\ writing'.next = writing.next + 1
        /\ writing'.request = writing.request /\ writing'.origin = writing.origin
    BY <2>2
  <2>4. Names' = Names
    BY <2>3 DEF Names
  <2>5. writing.next + 1 \in 0 .. Len(Names) + 2
    BY <1>1, <1>2
  <2> QED
    BY <1>1, <1>2, <2>1, <2>2, <2>3, <2>4, <2>5 DEF WritingOK
<1>6. faults' \in 0 .. MaxFaults /\ DOMAIN made' = Dirs /\ \A e \in Dirs : MadeOK(e)'
  BY <1>1 DEF SealsInv, MadeOK
<1> QED
  BY <1>1, <1>2, <1>3, <1>4, <1>5, <1>6, OneDirectory

\* WriteChecksums keeps what the directories hold sealed.
LEMMA WriteChecksumsSeals == ASSUME SealsInv, WriteChecksums PROVE SealsInv'
<1>1. /\ writing # NoScan /\ writing.next = Len(Names) + 2
      /\ disk' = [disk EXCEPT ![writing.dir] = Put(disk[writing.dir], NextName, Whole(NextValue))]
      /\ made' = [made EXCEPT ![writing.dir] = [sealed |-> writing.sealed,
                                                request |-> writing.request,
                                                origin |-> writing.origin]]
      /\ writing' = NoScan
      /\ UNCHANGED <<clock, scans, faults, tried>>
  BY DEF WriteChecksums, SealsInv, WritingOK
<1>2. /\ writing.dir \in Dirs /\ Len(Names) \in Nat /\ writing.sealed \in tried[writing.dir]
      /\ IsScan(writing.sealed, writing.request, writing.origin, clock)
  BY <1>1, ScanIsSealed, SealedIsFit, ArtifactsOf DEF SealsInv, WritingOK, Names
<1>3. FilesOK(Put(disk[writing.dir], NextName, Whole(NextValue)), tried[writing.dir])
  <2>1. NextName \in FileNames /\ ContentOK(NextName, NextValue, tried[writing.dir])
    BY <1>1, <1>2, NextContent
  <2>2. Whole(NextValue).value = NextValue
    BY DEF Whole
  <2> QED
    BY <1>2, <2>1, <2>2, PutOK DEF SealsInv
<1>4. DOMAIN made' = Dirs /\ \A e \in Dirs : MadeOK(e)'
  <2>1. /\ DOMAIN made' = Dirs
        /\ \A e \in Dirs : made'[e] = IF e = writing.dir
                                      THEN [sealed |-> writing.sealed, request |-> writing.request,
                                            origin |-> writing.origin]
                                      ELSE made[e]
    BY <1>1, <1>2 DEF SealsInv
  <2>2. ASSUME NEW e \in Dirs PROVE MadeOK(e)'
    <3>1. CASE e = writing.dir
      <4>1. /\ made'[e].sealed = writing.sealed /\ made'[e].request = writing.request
            /\ made'[e].origin = writing.origin
            /\ made'[e] = [sealed |-> writing.sealed, request |-> writing.request,
                           origin |-> writing.origin]
        BY <2>1, <3>1
      <4> QED
        BY <1>1, <1>2, <3>1, <4>1 DEF MadeOK
    <3>2. CASE e # writing.dir
      BY <1>1, <2>1, <3>2 DEF SealsInv, MadeOK
    <3> QED
      BY <3>1, <3>2
  <2> QED
    BY <2>1, <2>2
<1>5. WritingOK' /\ faults' \in 0 .. MaxFaults
  BY <1>1 DEF WritingOK, SealsInv
<1> QED
  BY <1>1, <1>2, <1>3, <1>4, <1>5, OneDirectory

\* Interrupt keeps what the directories hold sealed.
LEMMA InterruptSeals == ASSUME SealsInv, Interrupt PROVE SealsInv'
<1>1. /\ writing # NoScan /\ faults < MaxFaults /\ writing' = NoScan /\ faults' = faults + 1
      /\ UNCHANGED <<clock, scans, tried, made>>
  BY DEF Interrupt
<1>2. /\ writing.dir \in Dirs /\ Len(Names) \in Nat
      /\ FilesOK(disk[writing.dir], tried[writing.dir])
  BY <1>1, ScanIsSealed, SealedIsFit, ArtifactsOf DEF SealsInv, WritingOK, Names
<1>3. /\ WritingOK' /\ faults' \in 0 .. MaxFaults /\ DOMAIN made' = Dirs
      /\ \A e \in Dirs : MadeOK(e)'
  BY <1>1, EvidenceAssumption DEF WritingOK, SealsInv, MadeOK
<1>4. CASE UNCHANGED disk
  BY <1>1, <1>3, <1>4 DEF SealsInv
<1>5. ASSUME ~ UNCHANGED disk
      PROVE  \E files : /\ disk' = [disk EXCEPT ![writing.dir] = files]
                        /\ FilesOK(files, tried[writing.dir])
  <2>1. CASE /\ writing.next \in 1 .. Len(Names) + 1
             /\ disk' = [disk EXCEPT ![writing.dir] = Put(@, NextName, Torn(NextValue))]
    <3>1. writing.next \in 1 .. Len(Names) + 2
      BY <1>2, <2>1
    <3>2. NextName \in FileNames /\ ContentOK(NextName, NextValue, tried[writing.dir])
      BY <1>1, <3>1, NextContent
    <3>3. Torn(NextValue).value = NextValue
      BY DEF Torn
    <3>4. FilesOK(Put(disk[writing.dir], NextName, Torn(NextValue)), tried[writing.dir])
      BY <1>2, <3>2, <3>3, PutOK
    <3>5. disk' = [disk EXCEPT ![writing.dir] = Put(disk[writing.dir], NextName, Torn(NextValue))]
      BY <1>2, <2>1 DEF SealsInv
    <3> QED
      BY <3>4, <3>5
  <2>2. CASE /\ writing.next = Len(Names) + 2
             /\ \E k \in 0 .. Len(Names), whole \in BOOLEAN :
                   disk' = [disk EXCEPT ![writing.dir] =
                              Put(@, NextName, [value |-> SubSeq(NextValue, 1, k), whole |-> whole])]
    <3>1. PICK k \in 0 .. Len(Names), whole \in BOOLEAN :
             disk' = [disk EXCEPT ![writing.dir] =
                        Put(disk[writing.dir], NextName, [value |-> SubSeq(NextValue, 1, k), whole |-> whole])]
      BY <1>2, <2>2 DEF SealsInv
    <3> DEFINE content == [value |-> SubSeq(NextValue, 1, k), whole |-> whole]
    <3>2. writing.next \in 1 .. Len(Names) + 2
      BY <1>2, <2>2
    <3>3. NextName \in FileNames /\ ContentOK(NextName, content.value, tried[writing.dir])
      BY <1>1, <2>2, <3>2, NextContent
    <3> HIDE DEF content
    <3>4. FilesOK(Put(disk[writing.dir], NextName, content), tried[writing.dir])
      BY <1>2, <3>3, PutOK
    <3> QED
      BY <3>1, <3>4 DEF content
  <2> QED
    BY <1>5, <2>1, <2>2 DEF Interrupt
<1> QED
  BY <1>1, <1>2, <1>3, <1>4, <1>5, OneDirectory

\* Tick keeps what the directories hold sealed.
LEMMA TickSeals == ASSUME SealsInv, Tick PROVE SealsInv'
<1>1. /\ clock' = clock + 1 /\ clock < MaxTime /\ clock \in 1 .. MaxTime /\ writing' = NoScan
      /\ UNCHANGED <<disk, scans, faults, tried, made>>
  BY DEF Tick, SealsInv
<1>2. clock' \in 1 .. MaxTime /\ clock \in Nat /\ clock' \in Nat /\ clock <= clock'
  BY <1>1, EvidenceAssumption
<1>3. /\ \A s : IsSealed(s, clock) => IsSealed(s, clock')
      /\ \A s, q, o : IsScan(s, q, o, clock) => IsScan(s, q, o, clock')
  BY <1>2, StillSealed
<1>4. ASSUME NEW d \in Dirs
      PROVE  FilesOK(disk'[d], tried'[d]) /\ (\A s \in tried'[d] : IsSealed(s, clock')) /\ MadeOK(d)'
  BY <1>1, <1>3 DEF SealsInv, MadeOK
<1> QED
  BY <1>1, <1>2, <1>4 DEF SealsInv, WritingOK

\* Sign keeps what the directories hold sealed.
LEMMA SignSeals == ASSUME SealsInv, NEW d \in Dirs, Sign(d) PROVE SealsInv'
<1>1. /\ disk' = [disk EXCEPT ![d] = Put(disk[d], "checksums.txt.bundle", disk[d]["checksums.txt"])]
      /\ UNCHANGED <<writing, clock, scans, faults, tried, made>>
  BY DEF Sign, SealsInv
<1>2. "checksums.txt.bundle" \in FileNames
      /\ ContentOK("checksums.txt.bundle", disk[d]["checksums.txt"].value, tried[d])
  BY OtherContent DEF FileNames
<1>3. FilesOK(Put(disk[d], "checksums.txt.bundle", disk[d]["checksums.txt"]), tried[d])
  BY <1>2, PutOK DEF SealsInv
<1>4. WritingOK' /\ faults' \in 0 .. MaxFaults /\ DOMAIN made' = Dirs /\ \A e \in Dirs : MadeOK(e)'
  BY <1>1 DEF SealsInv, WritingOK, MadeOK, Names
<1> QED
  BY <1>1, <1>3, <1>4, OneDirectory

\* Damage keeps what the directories hold sealed.
LEMMA DamageSeals ==
    ASSUME SealsInv, NEW d \in Dirs, NEW n \in FileNames, Damage(d, n)
    PROVE  SealsInv'
<1>1. /\ writing = NoScan /\ faults < MaxFaults /\ faults' = faults + 1 /\ n \in DOMAIN disk[d]
      /\ made' = [made EXCEPT ![d] = NoScan] /\ UNCHANGED <<writing, clock, scans, tried>>
  BY DEF Damage
<1>2. PICK files : disk' = [disk EXCEPT ![d] = files] /\ FilesOK(files, tried[d])
  <2>1. FilesOK(disk[d], tried[d])
    BY DEF SealsInv
  <2>2. CASE disk' = [disk EXCEPT ![d] = Put(@, n, Torn(@[n].value))]
    <3>1. disk' = [disk EXCEPT ![d] = Put(disk[d], n, Torn(disk[d][n].value))]
      BY <2>2 DEF SealsInv
    <3>2. ContentOK(n, Torn(disk[d][n].value).value, tried[d])
      BY <1>1, <2>1 DEF FilesOK, Torn
    <3> QED
      BY <2>1, <3>1, <3>2, PutOK
  <2>3. CASE disk' = [disk EXCEPT ![d] = Drop(@, n)]
    <3>1. disk' = [disk EXCEPT ![d] = Drop(disk[d], n)]
      BY <2>3 DEF SealsInv
    <3> QED
      BY <2>1, <3>1, DropOK
  <2> QED
    BY <2>2, <2>3 DEF Damage
<1>3. WritingOK' /\ faults' \in 0 .. MaxFaults
  BY <1>1, EvidenceAssumption DEF SealsInv, WritingOK
<1>4. DOMAIN made' = Dirs /\ \A e \in Dirs : MadeOK(e)'
  <2>1. DOMAIN made' = Dirs /\ \A e \in Dirs : made'[e] = IF e = d THEN NoScan ELSE made[e]
    BY <1>1 DEF SealsInv
  <2> QED
    BY <1>1, <2>1 DEF SealsInv, MadeOK
<1> QED
  BY <1>1, <1>2, <1>3, <1>4, OneDirectory

\* A step that changes nothing keeps what is sealed.
LEMMA StutterSeals == ASSUME SealsInv, UNCHANGED vars PROVE SealsInv'
<1>1. /\ disk' = disk /\ writing' = writing /\ clock' = clock /\ scans' = scans
      /\ faults' = faults /\ tried' = tried /\ made' = made
  BY DEF vars
<1>2. WritingOK' /\ \A d \in Dirs : MadeOK(d)'
  BY <1>1 DEF SealsInv, WritingOK, MadeOK, Names
<1> QED
  BY <1>1, <1>2 DEF SealsInv

\* Every step keeps what the directories hold sealed.
LEMMA StepSeals == ASSUME SealsInv, ProgressInv, [Next]_vars PROVE SealsInv'
<1>1. CASE \E d \in Dirs, q \in Requests : ScanTenant(d, q)
  BY <1>1, FreshIsInventory, SealSeals DEF ScanTenant
<1>2. CASE \E d, from \in Dirs, q \in Requests : ScanSealed(d, from, q)
  BY <1>2, ScanSealedSeals
<1>3. CASE RenderOscal \/ WriteFile
  BY <1>3, WriteSeals
<1>4. CASE WriteChecksums
  BY <1>4, WriteChecksumsSeals
<1>5. CASE Interrupt
  BY <1>5, InterruptSeals
<1>6. CASE Tick
  BY <1>6, TickSeals
<1>7. CASE \E d \in Dirs : Sign(d)
  BY <1>7, SignSeals
<1>8. CASE \E d \in Dirs, n \in FileNames : Damage(d, n)
  BY <1>8, DamageSeals
<1>9. CASE UNCHANGED vars
  BY <1>9, StutterSeals
<1> QED
  BY <1>1, <1>2, <1>3, <1>4, <1>5, <1>6, <1>7, <1>8, <1>9 DEF Next

----------------------------------------------------------------------------
(* ProgressInv is kept.                                                     *)

\* What is known of the scan in progress.
LEMMA InProgress ==
    ASSUME SealsInv, writing # NoScan
    PROVE  LET s == writing.sealed IN
           /\ {"input.json", "assessment.json", "assessment-oscal.json"} \subseteq DOMAIN s
           /\ DOMAIN s \subseteq ArtifactNames
           /\ Names = Artifacts(s) /\ Len(Names) \in 3 .. 5
           /\ writing.dir \in Dirs /\ writing.next \in 0 .. Len(Names) + 2
BY ScanIsSealed, SealedIsFit, ArtifactsOf DEF SealsInv, WritingOK, Names

\* Writing into one directory leaves the finished bundles of the others alone.
LEMMA OthersFinished ==
    ASSUME SealsInv, ProgressInv, NEW d \in Dirs,
           \A e \in Dirs : e # d => disk'[e] = disk[e] /\ made'[e] = made[e],
           made'[d] # NoScan => Finished(disk'[d], made'[d].sealed)
    PROVE  \A e \in Dirs : made'[e] # NoScan => Finished(disk'[e], made'[e].sealed)
BY DEF ProgressInv

\* Seal starts a bundle of which nothing is written.
LEMMA SealProgress ==
    ASSUME SealsInv, ProgressInv, NEW d \in Dirs, NEW q, NEW in, NEW origin,
           IsSealed(Sealed(q, in, clock), clock), Seal(d, q, in, origin)
    PROVE  ProgressInv'
<1> DEFINE s == Sealed(q, in, clock)
<1>1. Len(Artifacts(s)) \in Nat
  BY SealedIsFit, ArtifactsOf
<1>2. /\ writing'.dir = d /\ writing'.sealed = s /\ writing'.next = 0 /\ made'[d] = NoScan
      /\ \A e \in Dirs : e # d => disk'[e] = disk[e] /\ made'[e] = made[e]
  BY DEF Seal, SealsInv
<1> HIDE DEF s
<1>3. Written(disk'[d], s, 0)
  BY <1>1 DEF Written
<1>4. \A e \in Dirs : made'[e] # NoScan => Finished(disk'[e], made'[e].sealed)
  BY <1>2, OthersFinished
<1> QED
  BY <1>2, <1>3, <1>4 DEF ProgressInv

\* Render keeps the progress of the writer.
LEMMA RenderProgress == ASSUME SealsInv, ProgressInv, RenderOscal PROVE ProgressInv'
<1> DEFINE s == writing.sealed
           d == writing.dir
<1>1. /\ writing # NoScan /\ d \in Dirs /\ Len(Artifacts(s)) \in 3 .. 5 /\ made[d] = NoScan
  BY InProgress DEF RenderOscal, ProgressInv
<1>2. /\ writing'.dir = d /\ writing'.sealed = s /\ writing'.next = 1 /\ made' = made
      /\ \A e \in Dirs : e # d => disk'[e] = disk[e]
  BY <1>1 DEF RenderOscal, SealsInv, WritingOK
<1>3. Written(disk'[d], s, 1)
  BY <1>1 DEF Written
<1>4. \A e \in Dirs : made'[e] # NoScan => Finished(disk'[e], made'[e].sealed)
  BY <1>1, <1>2, OthersFinished
<1> QED
  BY <1>1, <1>2, <1>3, <1>4 DEF ProgressInv

\* Write keeps the progress of the writer.
LEMMA WriteProgress == ASSUME SealsInv, ProgressInv, WriteFile PROVE ProgressInv'
<1> DEFINE s == writing.sealed
           d == writing.dir
           k == writing.next
<1>1. /\ writing # NoScan /\ d \in Dirs /\ Len(Artifacts(s)) \in 3 .. 5 /\ Names = Artifacts(s)
      /\ k \in 1 .. Len(Artifacts(s)) + 1
      /\ made[d] = NoScan /\ Written(disk[d], s, k)
      /\ {"input.json", "assessment.json", "assessment-oscal.json"} \subseteq DOMAIN s
      /\ DOMAIN s \subseteq ArtifactNames
  BY InProgress DEF WriteFile, ProgressInv
<1>2. /\ writing'.dir = d /\ writing'.sealed = s /\ writing'.next = k + 1 /\ made' = made
      /\ disk'[d] = Put(disk[d], NextName, Whole(NextValue))
      /\ \A e \in Dirs : e # d => disk'[e] = disk[e]
  BY <1>1 DEF WriteFile, SealsInv, WritingOK
<1>3. /\ k \in 1 .. Len(Names) => NextName = Names[k] /\ NextValue = s[Names[k]]
      /\ k = Len(Names) + 1 => NextName = "manifest.json" /\ NextValue = Manifest(s)
  <2>1. k = Len(Names) + 1 => k \notin 1 .. Len(Names) /\ k # Len(Names) + 2
    BY <1>1
  <2> QED
    BY <2>1 DEF NextName, NextValue
<1> HIDE DEF s, d, k
<1>4. /\ NextName \in DOMAIN disk'[d] /\ disk'[d][NextName] = Whole(NextValue)
      /\ \A n \in DOMAIN disk[d] : n # NextName => n \in DOMAIN disk'[d] /\ disk'[d][n] = disk[d][n]
  BY <1>2 DEF Put
<1>5. Written(disk'[d], s, k + 1)
  <2>1. ASSUME NEW i \in 1 .. Len(Artifacts(s)), i < k + 1
        PROVE  Artifacts(s)[i] \in DOMAIN disk'[d] /\ disk'[d][Artifacts(s)[i]] = Whole(s[Artifacts(s)[i]])
    <3>1. Artifacts(s)[i] \in DOMAIN s /\ Artifacts(s)[i] # "manifest.json"
      BY <1>1, ArtifactsOf DEF ArtifactNames
    <3>2. CASE i = k
      BY <1>1, <1>2, <1>3, <3>2, <1>4
    <3>3. CASE i < k /\ NextName = Artifacts(s)[i]
      <4>1. k \in 1 .. Len(Names)
        BY <1>1, <1>3, <3>1, <3>3
      <4> QED
        BY <1>1, <1>2, <1>3, <3>3, <4>1, <1>4
    <3>4. CASE i < k /\ NextName # Artifacts(s)[i]
      BY <1>1, <1>2, <3>4, <1>4 DEF Written
    <3> QED
      BY <1>1, <2>1, <3>2, <3>3, <3>4
  <2>2. ASSUME k + 1 = Len(Artifacts(s)) + 2
        PROVE  "manifest.json" \in DOMAIN disk'[d] /\ disk'[d]["manifest.json"] = Whole(Manifest(s))
    <3>1. k = Len(Names) + 1
      BY <1>1, <2>2
    <3> QED
      BY <1>2, <1>3, <3>1, <1>4
  <2> QED
    BY <2>1, <2>2 DEF Written
<1>6. \A e \in Dirs : made'[e] # NoScan => Finished(disk'[e], made'[e].sealed)
  BY <1>1, <1>2, OthersFinished
<1> QED
  BY <1>1, <1>2, <1>5, <1>6 DEF ProgressInv

\* WriteChecksums keeps the progress of the writer.
LEMMA WriteChecksumsProgress == ASSUME SealsInv, ProgressInv, WriteChecksums PROVE ProgressInv'
<1> DEFINE s == writing.sealed
           d == writing.dir
<1>1. /\ writing # NoScan /\ d \in Dirs /\ Len(Artifacts(s)) \in 3 .. 5 /\ Names = Artifacts(s)
      /\ writing.next = Len(Artifacts(s)) + 2
      /\ Written(disk[d], s, Len(Artifacts(s)) + 2)
      /\ {"input.json", "assessment.json", "assessment-oscal.json"} \subseteq DOMAIN s
      /\ DOMAIN s \subseteq ArtifactNames
  BY InProgress DEF WriteChecksums, ProgressInv
<1>2. NextName = "checksums.txt" /\ NextValue = Checksums(s)
  <2>1. writing.next \notin 1 .. Len(Names) /\ writing.next # Len(Names) + 1
    BY <1>1
  <2> QED
    BY <1>1, <2>1 DEF NextName, NextValue
<1>3. /\ disk'[d] = Put(disk[d], "checksums.txt", Whole(Checksums(s)))
      /\ made'[d].sealed = s /\ writing' = NoScan
      /\ \A e \in Dirs : e # d => disk'[e] = disk[e] /\ made'[e] = made[e]
  BY <1>1, <1>2 DEF WriteChecksums, SealsInv
<1> HIDE DEF s, d
<1>4. /\ "checksums.txt" \in DOMAIN disk'[d] /\ disk'[d]["checksums.txt"] = Whole(Checksums(s))
      /\ \A n \in DOMAIN disk[d] : n # "checksums.txt" =>
            n \in DOMAIN disk'[d] /\ disk'[d][n] = disk[d][n]
  BY <1>3 DEF Put
<1>5. Finished(disk'[d], s)
  <2>1. ASSUME NEW n \in DOMAIN s PROVE n \in DOMAIN disk'[d] /\ disk'[d][n] = Whole(s[n])
    <3>1. PICK i \in 1 .. Len(Artifacts(s)) : Artifacts(s)[i] = n
      BY <1>1, ArtifactsOf
    <3>2. i < Len(Artifacts(s)) + 2
      BY <1>1
    <3>3. n \in DOMAIN disk[d] /\ disk[d][n] = Whole(s[n])
      BY <1>1, <3>1, <3>2 DEF Written
    <3>4. n # "checksums.txt"
      BY <1>1 DEF ArtifactNames
    <3> QED
      BY <1>3, <3>3, <3>4, <1>4
  <2>2. "manifest.json" \in DOMAIN disk[d] /\ disk[d]["manifest.json"] = Whole(Manifest(s))
    BY <1>1 DEF Written
  <2>3. "manifest.json" \in DOMAIN disk'[d] /\ disk'[d]["manifest.json"] = Whole(Manifest(s))
    BY <1>3, <2>2, <1>4
  <2> QED
    BY <1>3, <2>1, <2>3, <1>4 DEF Finished
<1>6. \A e \in Dirs : made'[e] # NoScan => Finished(disk'[e], made'[e].sealed)
  BY <1>1, <1>3, <1>5, OthersFinished
<1> QED
  BY <1>3, <1>6 DEF ProgressInv

\* Interrupt keeps the progress of the writer.
LEMMA InterruptProgress == ASSUME SealsInv, ProgressInv, Interrupt PROVE ProgressInv'
<1>1. /\ writing # NoScan /\ writing.dir \in Dirs /\ made[writing.dir] = NoScan
      /\ writing' = NoScan /\ made' = made
  BY InProgress DEF Interrupt, ProgressInv
<1>2. \A e \in Dirs : e # writing.dir => disk'[e] = disk[e]
  BY DEF Interrupt, SealsInv
<1>3. \A e \in Dirs : made'[e] # NoScan => Finished(disk'[e], made'[e].sealed)
  BY <1>1, <1>2, OthersFinished
<1> QED
  BY <1>1, <1>3 DEF ProgressInv

\* Sign keeps the progress of the writer.
LEMMA SignProgress == ASSUME SealsInv, ProgressInv, NEW d \in Dirs, Sign(d) PROVE ProgressInv'
<1>1. /\ writing' = NoScan /\ made' = made /\ made[d] # NoScan
      /\ disk'[d] = Put(disk[d], "checksums.txt.bundle", disk[d]["checksums.txt"])
      /\ \A e \in Dirs : e # d => disk'[e] = disk[e]
  BY DEF Sign, SealsInv
<1>2. \A n \in DOMAIN disk[d] : n # "checksums.txt.bundle" =>
         n \in DOMAIN disk'[d] /\ disk'[d][n] = disk[d][n]
  BY <1>1 DEF Put
<1>3. DOMAIN made[d].sealed \subseteq ArtifactNames
  BY <1>1, ScanIsSealed, SealedIsFit DEF SealsInv, MadeOK
<1>4. Finished(disk[d], made[d].sealed)
  BY <1>1 DEF ProgressInv
<1>5. /\ "checksums.txt.bundle" \notin DOMAIN made[d].sealed
      /\ "checksums.txt.bundle" # "manifest.json" /\ "checksums.txt.bundle" # "checksums.txt"
  BY <1>3 DEF ArtifactNames
<1>6. Finished(disk'[d], made[d].sealed)
  BY <1>1, <1>4, <1>5, <1>2 DEF Finished
<1>7. \A e \in Dirs : made'[e] # NoScan => Finished(disk'[e], made'[e].sealed)
  BY <1>1, <1>6, OthersFinished
<1> QED
  BY <1>1, <1>7 DEF ProgressInv

\* Damage keeps the progress of the writer.
LEMMA DamageProgress ==
    ASSUME SealsInv, ProgressInv, NEW d \in Dirs, NEW n, Damage(d, n)
    PROVE  ProgressInv'
<1>1. /\ writing' = NoScan /\ made'[d] = NoScan
      /\ \A e \in Dirs : e # d => disk'[e] = disk[e] /\ made'[e] = made[e]
  BY DEF Damage, SealsInv
<1>2. \A e \in Dirs : made'[e] # NoScan => Finished(disk'[e], made'[e].sealed)
  BY <1>1, OthersFinished
<1> QED
  BY <1>1, <1>2 DEF ProgressInv

\* Every step keeps the progress of the writer.
LEMMA StepProgress == ASSUME SealsInv, ProgressInv, [Next]_vars PROVE ProgressInv'
<1>1. clock \in 1 .. clock
  BY DEF SealsInv
<1>2. ASSUME NEW q \in Requests, NEW in \in Inventory PROVE IsSealed(Sealed(q, in, clock), clock)
  BY <1>1 DEF IsSealed
<1>3. CASE \E d \in Dirs, q \in Requests : ScanTenant(d, q)
  BY <1>2, <1>3, FreshIsInventory, SealProgress DEF ScanTenant
<1>4. CASE \E d, from \in Dirs, q \in Requests : ScanSealed(d, from, q)
  <2>1. PICK d \in Dirs, from \in Dirs, q \in Requests : ScanSealed(d, from, q)
    BY <1>4
  <2>2. "input.json" \in DOMAIN disk[from]
    BY <2>1 DEF ScanSealed, Holds
  <2>3. disk[from]["input.json"].value \in Inventory
    BY <2>2 DEF SealsInv, FilesOK, ContentOK
  <2> QED
    BY <1>2, <2>1, <2>3, SealProgress DEF ScanSealed, Carved
<1>5. CASE RenderOscal
  BY <1>5, RenderProgress
<1>6. CASE WriteFile
  BY <1>6, WriteProgress
<1>7. CASE WriteChecksums
  BY <1>7, WriteChecksumsProgress
<1>8. CASE Interrupt
  BY <1>8, InterruptProgress
<1>9. CASE Tick \/ UNCHANGED vars
  BY <1>9 DEF Tick, vars, ProgressInv
<1>10. CASE \E d \in Dirs : Sign(d)
  BY <1>10, SignProgress
<1>11. CASE \E d \in Dirs, n \in FileNames : Damage(d, n)
  BY <1>11, DamageProgress
<1> QED
  BY <1>3, <1>4, <1>5, <1>6, <1>7, <1>8, <1>9, <1>10, <1>11 DEF Next

\* The initial states.
LEMMA InitSeals == Init => SealsInv /\ ProgressInv
<1> SUFFICES ASSUME Init PROVE SealsInv /\ ProgressInv
  OBVIOUS
<1>1. /\ DOMAIN disk = Dirs /\ DOMAIN tried = Dirs /\ DOMAIN made = Dirs
      /\ \A d \in Dirs : disk[d] = <<>> /\ tried[d] = {} /\ made[d] = NoScan
      /\ writing = NoScan /\ clock = 1 /\ scans = 0 /\ faults = 0
  BY DEF Init
<1>2. DOMAIN <<>> = {}
  OBVIOUS
<1>3. \A d \in Dirs : FilesOK(disk[d], tried[d])
  BY <1>1, <1>2 DEF FilesOK
<1>4. clock \in 1 .. MaxTime /\ scans \in 0 .. MaxScans /\ faults \in 0 .. MaxFaults
  BY <1>1, EvidenceAssumption
<1> QED
  BY <1>1, <1>3, <1>4 DEF SealsInv, ProgressInv, MadeOK, WritingOK

\* What the files may hold, and how far a scan went, at every moment of every run.
THEOREM SealsHold == Spec => [](SealsInv /\ ProgressInv)
<1>1. SealsInv /\ ProgressInv /\ [Next]_vars => (SealsInv /\ ProgressInv)'
  BY StepSeals, StepProgress
<1> QED
  BY <1>1, InitSeals, PTL DEF Spec

----------------------------------------------------------------------------
(* The files are those of one scan.                                         *)

\* A line of an assessment is a record of its fields.
LEMMA LineIsRecord ==
    ASSUME NEW in, NEW exemptions, NEW at, NEW external,
           NEW l \in Lines(in, exemptions, at, external)
    PROVE  l = [fact |-> l.fact, control |-> l.control, subject |-> l.subject,
                status |-> l.status, relaxed |-> l.relaxed]
BY DEF Lines, FindingLine, QuietLine, Line

\* A line that is renamed keeps its other fields.
LEMMA RenamedLine ==
    ASSUME NEW l, l = [fact |-> l.fact, control |-> l.control, subject |-> l.subject,
                       status |-> l.status, relaxed |-> l.relaxed],
           NEW name
    PROVE  [l EXCEPT !.subject = name] =
             [fact |-> l.fact, control |-> l.control, subject |-> name,
              status |-> l.status, relaxed |-> l.relaxed]
OBVIOUS

\* What a scan seals is well formed, redacted or not.
LEMMA SealedIsWellFormed ==
    ASSUME SealsInv, NEW s, IsSealed(s, clock)
    PROVE  WellFormed(s)
<1>1. PICK q \in Requests, in \in Inventory, t \in 1 .. clock : s = Sealed(q, in, t)
  BY DEF IsSealed
<1> DEFINE lines == Lines(in, q.policy.exemptions, t, q.external)
<1>2. /\ DOMAIN s \subseteq ArtifactNames
      /\ s["assessment.json"] = AssessmentOf(q, in, lines, t)
      /\ s["assessment-oscal.json"] = Oscal(s["assessment.json"])
  BY <1>1, SealedHas
<1>3. s["input.json"] \in Input
  BY SealedIsFit DEF Inventory
<1>4. \A l \in lines : l.status \in Status
  BY DEF Lines, FindingLine, QuietLine, Line, Status
<1>5. \A l \in RedactSubjects(lines, in) : l.status \in Status
  <2>1. ASSUME NEW l \in lines, NEW name PROVE [l EXCEPT !.subject = name].status = l.status
    <3>1. l = [fact |-> l.fact, control |-> l.control, subject |-> l.subject,
               status |-> l.status, relaxed |-> l.relaxed]
      BY LineIsRecord
    <3> HIDE DEF lines
    <3> QED
      BY <3>1
  <2> HIDE DEF lines
  <2>2. ASSUME NEW m \in RedactSubjects(lines, in) PROVE m.status \in Status
    <3>1. PICK l \in lines : m = [l EXCEPT !.subject = Replaced(in, l.subject)]
      BY DEF RedactSubjects
    <3>2. [l EXCEPT !.subject = Replaced(in, l.subject)].status = l.status
      BY <2>1
    <3> QED
      BY <1>4, <3>1, <3>2
  <2> QED
    BY <2>2
<1> HIDE DEF lines
<1>6. /\ s["assessment.json"].run.timestamp = t
      /\ s["assessment.json"].lines = IF q.redact THEN RedactSubjects(lines, in) ELSE lines
  BY <1>2 DEF AssessmentOf, Run
<1>7. t \in 1 .. MaxTime
  BY EvidenceAssumption DEF SealsInv
<1> QED
  BY <1>2, <1>3, <1>4, <1>5, <1>6, <1>7 DEF WellFormed

\* The directories hold files of a bundle, and what was sealed is well formed
\* (bundle.go:160-260).
THEOREM EvidenceTypesHold == Spec => []EvidenceTypeOK
<1>1. SealsInv => EvidenceTypeOK
  <2> SUFFICES ASSUME SealsInv PROVE EvidenceTypeOK
    OBVIOUS
  <2>1. ASSUME NEW d \in Dirs
        PROVE  /\ DOMAIN disk[d] \subseteq FileNames
               /\ \A s \in tried[d] : WellFormed(s)
               /\ made[d] # NoScan => made[d].sealed \in tried[d]
    BY SealedIsWellFormed DEF SealsInv, FilesOK, MadeOK
  <2>2. writing # NoScan => writing.sealed \in tried[writing.dir]
    BY DEF SealsInv, WritingOK
  <2> QED
    BY <2>1, <2>2 DEF SealsInv, EvidenceTypeOK
<1> QED
  BY <1>1, SealsHold, PTL

\* What a bundle that verifies lists: the first lines of checksums.txt of one scan.
LEMMA VerifiedLists ==
    ASSUME SealsInv, NEW d \in Dirs, VerifyBundle(disk[d])
    PROVE  \E s \in tried[d] :
              /\ \A n \in Listed(disk[d]) \ {"manifest.json"} :
                    n \in DOMAIN s /\ n \in DOMAIN disk[d] /\ disk[d][n] = Whole(s[n])
              /\ "manifest.json" \in Listed(disk[d]) => disk[d]["manifest.json"] = Whole(Manifest(s))
<1> DEFINE sums == disk[d]["checksums.txt"].value
<1>1. "checksums.txt" \in DOMAIN disk[d] /\ DigestsMatch(disk[d])
  BY DEF VerifyBundle, Holds
<1>2. PICK s \in tried[d] : \E k \in 0 .. Len(Checksums(s)) : sums = SubSeq(Checksums(s), 1, k)
  BY <1>1 DEF SealsInv, FilesOK, ContentOK
<1>3. PICK k \in 0 .. Len(Checksums(s)) : sums = SubSeq(Checksums(s), 1, k)
  BY <1>2
<1>4. /\ {"input.json", "assessment.json", "assessment-oscal.json"} \subseteq DOMAIN s
      /\ DOMAIN s \subseteq ArtifactNames
  BY SealedIsFit DEF SealsInv
<1> DEFINE names == Artifacts(s)
<1>5. /\ Len(names) \in Nat /\ \A i \in 1 .. Len(names) : names[i] \in DOMAIN s
      /\ "manifest.json" \notin DOMAIN s
  <2>1. Len(names) \in Nat /\ \A i \in 1 .. Len(names) : names[i] \in DOMAIN s
    BY <1>4, ArtifactsOf
  <2>2. "manifest.json" \notin DOMAIN s
    BY <1>4 DEF ArtifactNames
  <2> QED
    BY <2>1, <2>2
<1>6. /\ Len(Checksums(s)) = Len(names) + 1
      /\ \A i \in 1 .. Len(names) : Checksums(s)[i] = Digest(names[i], s[names[i]])
      /\ Checksums(s)[Len(names) + 1] = Digest("manifest.json", Manifest(s))
      /\ DOMAIN sums = 1 .. k /\ \A i \in 1 .. k : sums[i] = Checksums(s)[i]
  BY <1>3, <1>4, ChecksumsOf
<1>7. Listed(disk[d]) = {sums[i].name : i \in DOMAIN sums}
  BY DEF Listed
<1>8. \A i \in DOMAIN sums : sums[i].name \in DOMAIN disk[d] /\ disk[d][sums[i].name] = Whole(sums[i].sum)
  BY <1>1 DEF DigestsMatch
<1> HIDE DEF names, sums
<1>9. ASSUME NEW i \in DOMAIN sums
      PROVE  \/ /\ sums[i].name \in DOMAIN s /\ sums[i].name # "manifest.json"
                /\ sums[i].sum = s[sums[i].name]
             \/ sums[i].name = "manifest.json" /\ sums[i].sum = Manifest(s)
  <2>1. i \in 1 .. Len(names) \/ i = Len(names) + 1
    BY <1>5, <1>6
  <2>2. CASE i \in 1 .. Len(names)
    <3>1. sums[i] = Digest(names[i], s[names[i]]) /\ names[i] \in DOMAIN s
      BY <1>5, <1>6, <2>2
    <3>2. sums[i].name = names[i] /\ sums[i].sum = s[names[i]]
      BY <3>1 DEF Digest
    <3> QED
      BY <1>5, <3>1, <3>2
  <2>3. CASE i = Len(names) + 1
    <3>1. sums[i] = Digest("manifest.json", Manifest(s))
      BY <1>6, <2>3
    <3> QED
      BY <3>1 DEF Digest
  <2> QED
    BY <2>1, <2>2, <2>3
<1>10. ASSUME NEW n \in Listed(disk[d]), n # "manifest.json"
       PROVE  n \in DOMAIN s /\ n \in DOMAIN disk[d] /\ disk[d][n] = Whole(s[n])
  BY <1>7, <1>8, <1>9, <1>10
<1>11. ASSUME "manifest.json" \in Listed(disk[d])
       PROVE  disk[d]["manifest.json"] = Whole(Manifest(s))
  BY <1>5, <1>7, <1>8, <1>9, <1>11
<1> QED
  BY <1>10, <1>11

\* What verify accepts comes from one scan, whatever the scans that were stopped in the
\* directory left in it (bundle.go:160-260, 269-360).
LEMMA OneScan ==
    ASSUME SealsInv, NEW d \in Dirs, VerifyBundle(disk[d])
    PROVE  \E s \in tried[d] :
              /\ {"input.json", "assessment.json", "assessment-oscal.json"} \subseteq Listed(disk[d])
              /\ Declared(disk[d]) = Listed(disk[d]) \cup {"manifest.json"}
              /\ \A n \in Listed(disk[d]) \ {"manifest.json"} :
                    n \in DOMAIN s /\ n \in DOMAIN disk[d] /\ disk[d][n] = Whole(s[n])
              /\ "manifest.json" \in Listed(disk[d]) =>
                    /\ Declared(disk[d]) = DOMAIN s \cup {"manifest.json"}
                    /\ disk[d]["manifest.json"] = Whole(Manifest(s))
<1> DEFINE declares == disk[d]["manifest.json"].value.artifacts
<1>1. PICK s \in tried[d] :
         /\ \A n \in Listed(disk[d]) \ {"manifest.json"} :
               n \in DOMAIN s /\ n \in DOMAIN disk[d] /\ disk[d][n] = Whole(s[n])
         /\ "manifest.json" \in Listed(disk[d]) => disk[d]["manifest.json"] = Whole(Manifest(s))
  BY VerifiedLists
<1>2. /\ declares \subseteq Listed(disk[d])
      /\ Listed(disk[d]) \subseteq declares \cup {"manifest.json"}
      /\ "manifest.json" \in DOMAIN disk[d]
  BY DEF VerifyBundle, CoversTheManifest, Declared, Holds
<1>3. PICK m \in tried[d] : disk[d]["manifest.json"].value = Manifest(m)
  BY <1>2 DEF SealsInv, FilesOK, ContentOK
<1>4. declares = DOMAIN m
  BY <1>3 DEF Manifest
<1>5. /\ {"input.json", "assessment.json", "assessment-oscal.json"} \subseteq DOMAIN m
      /\ DOMAIN m \subseteq ArtifactNames
  BY SealedIsFit DEF SealsInv
<1>6. Declared(disk[d]) = declares \cup {"manifest.json"}
  BY DEF Declared
<1>7. Whole(Manifest(s)).value.artifacts = DOMAIN s
  BY DEF Whole, Manifest
<1>8. "manifest.json" \in Listed(disk[d]) => declares = DOMAIN s
  BY <1>1, <1>7
<1> HIDE DEF declares
<1>9. Declared(disk[d]) = Listed(disk[d]) \cup {"manifest.json"}
  BY <1>2, <1>6
<1>10. {"input.json", "assessment.json", "assessment-oscal.json"} \subseteq Listed(disk[d])
  BY <1>2, <1>4, <1>5
<1> QED
  BY <1>1, <1>6, <1>8, <1>9, <1>10

\* What verify accepts comes from one scan: no interleaving of scans that are stopped, of
\* files lost or altered, makes two of them verify together (bundle.go:160-360).
THEOREM VerifiedHolds == Spec => []VerifiedIsOneScan
<1>1. SealsInv => VerifiedIsOneScan
  BY OneScan DEF VerifiedIsOneScan
<1> QED
  BY <1>1, SealsHold, PTL

\* What a finished scan leaves verifies.
LEMMA FinishedVerifies ==
    ASSUME NEW files, NEW s, Finished(files, s), NEW now, IsSealed(s, now)
    PROVE  VerifyBundle(files)
<1> DEFINE names == Artifacts(s)
           sums  == Checksums(s)
<1>1. /\ {"input.json", "assessment.json", "assessment-oscal.json"} \subseteq DOMAIN s
      /\ DOMAIN s \subseteq ArtifactNames
  BY SealedIsFit
<1>2. /\ Len(names) \in 3 .. 5 /\ \A i \in 1 .. Len(names) : names[i] \in DOMAIN s
      /\ \A n \in DOMAIN s : \E i \in 1 .. Len(names) : names[i] = n
  BY <1>1, ArtifactsOf
<1>3. /\ Len(sums) = Len(names) + 1 /\ DOMAIN sums = 1 .. Len(sums)
      /\ \A i \in 1 .. Len(names) : sums[i] = Digest(names[i], s[names[i]])
      /\ sums[Len(names) + 1] = Digest("manifest.json", Manifest(s))
  BY <1>1, ChecksumsOf
<1>4. /\ files["checksums.txt"].value = sums /\ files["checksums.txt"].whole
      /\ files["manifest.json"].value = Manifest(s) /\ files["manifest.json"].whole
      /\ "checksums.txt" \in DOMAIN files /\ "manifest.json" \in DOMAIN files
  BY DEF Finished, Whole
<1> HIDE DEF names, sums
<1>5. sums # <<>>
  <2>1. DOMAIN <<>> = {} /\ 1 \in DOMAIN sums
    BY <1>2, <1>3
  <2> QED
    BY <2>1
<1>6. ASSUME NEW i \in DOMAIN sums
      PROVE  \/ /\ i \in 1 .. Len(names) /\ sums[i].name = names[i] /\ sums[i].sum = s[names[i]]
             \/ i = Len(names) + 1 /\ sums[i].name = "manifest.json" /\ sums[i].sum = Manifest(s)
  <2>1. i \in 1 .. Len(names) \/ i = Len(names) + 1
    <3>1. i \in 1 .. Len(names) + 1 /\ Len(names) \in Nat
      BY <1>2, <1>3
    <3> QED
      BY <3>1
  <2>2. CASE i \in 1 .. Len(names)
    <3>1. sums[i] = Digest(names[i], s[names[i]])
      BY <1>3, <2>2
    <3> QED
      BY <2>2, <3>1 DEF Digest
  <2>3. CASE i = Len(names) + 1
    <3>1. sums[i] = Digest("manifest.json", Manifest(s))
      BY <1>3, <2>3
    <3> QED
      BY <2>3, <3>1 DEF Digest
  <2> QED
    BY <2>1, <2>2, <2>3
<1>7. DigestsMatch(files)
  <2>1. ASSUME NEW i \in DOMAIN sums
        PROVE  sums[i].name \in DOMAIN files /\ files[sums[i].name] = Whole(sums[i].sum)
    BY <1>2, <1>6 DEF Finished
  <2> QED
    BY <1>4, <2>1 DEF DigestsMatch
<1>8. Listed(files) = DOMAIN s \cup {"manifest.json"}
  <2>1. Listed(files) = {sums[i].name : i \in DOMAIN sums}
    BY <1>4 DEF Listed
  <2>2. \A n \in Listed(files) : n \in DOMAIN s \cup {"manifest.json"}
    BY <1>2, <1>6, <2>1
  <2>3. ASSUME NEW n \in DOMAIN s PROVE n \in Listed(files)
    <3>1. PICK i \in 1 .. Len(names) : names[i] = n
      BY <1>2
    <3>2. i \in DOMAIN sums /\ i # Len(names) + 1
      BY <1>2, <1>3
    <3>3. sums[i].name = n
      BY <1>6, <3>1, <3>2
    <3> QED
      BY <2>1, <3>2, <3>3
  <2>4. "manifest.json" \in Listed(files)
    <3>1. Len(names) + 1 \in DOMAIN sums /\ Len(names) + 1 \notin 1 .. Len(names)
      BY <1>2, <1>3
    <3>2. sums[Len(names) + 1].name = "manifest.json"
      BY <1>6, <3>1
    <3> QED
      BY <2>1, <3>1, <3>2
  <2> QED
    BY <2>2, <2>3, <2>4
<1>9. CoversTheManifest(files)
  <2>1. files["manifest.json"].value.artifacts = DOMAIN s
    BY <1>4 DEF Manifest
  <2> QED
    BY <1>8, <2>1 DEF CoversTheManifest, Declared
<1>10. SummaryMatches(files)
  <2>1. files["assessment.json"].value = s["assessment.json"]
    <3>1. files["assessment.json"] = Whole(s["assessment.json"])
      BY <1>1 DEF Finished
    <3> QED
      BY <3>1 DEF Whole
  <2>2. files["manifest.json"].value.summary = SummaryOf(s["assessment.json"].lines)
    BY <1>4 DEF Manifest
  <2> QED
    BY <2>1, <2>2 DEF SummaryMatches
<1> QED
  BY <1>4, <1>5, <1>7, <1>9, <1>10 DEF VerifyBundle, Holds

\* A scan that said it sealed its bundle left one that verifies, whatever the directory
\* held before it and whatever was signed since (bundle.go:160-360).
THEOREM SuccessHolds == Spec => []SuccessVerifies
<1>1. SealsInv /\ ProgressInv => SuccessVerifies
  <2> SUFFICES ASSUME SealsInv, ProgressInv, NEW d \in Dirs, made[d] # NoScan
               PROVE  VerifyBundle(disk[d])
    BY DEF SuccessVerifies
  <2>1. Finished(disk[d], made[d].sealed) /\ IsSealed(made[d].sealed, clock)
    BY ScanIsSealed DEF SealsInv, MadeOK, ProgressInv
  <2> QED
    BY <2>1, FinishedVerifies
<1> QED
  BY <1>1, SealsHold, PTL

----------------------------------------------------------------------------
(* The re-derivation.                                                       *)

\* The lines of an inventory depend on the external rules by its findings alone.
LEMMA SameFindings ==
    ASSUME NEW in, NEW exemptions, NEW at, NEW external, NEW other,
           Findings(in, external) = Findings(in, other)
    PROVE  Lines(in, exemptions, at, external) = Lines(in, exemptions, at, other)
BY DEF Lines

\* An inventory without facts of external rules has the same findings without those rules.
LEMMA NoExternalFact ==
    ASSUME NEW in, NEW external \in BOOLEAN, ~external \/ in.facts \cap External = {}
    PROVE  Findings(in, external) = Findings(in, FALSE)
<1>1. ASSUME NEW f \in in.facts PROVE (f \in External => external) <=> (f \in External => FALSE)
  OBVIOUS
<1> QED
  BY <1>1 DEF Findings

\* An honest bundle is re-derived in the language of its scan.
LEMMA Rederived ==
    ASSUME NEW q \in Requests, NEW in \in Inventory, NEW t, NEW s, s = Sealed(q, in, t),
           Replayable(s, q), NEW files, Finished(files, s), NEW now,
           "exemptions.json" \in DOMAIN files => "exemptions.json" \in DOMAIN s
    PROVE  ReDerive(files, now)
<1> DEFINE lines == Lines(in, q.policy.exemptions, t, q.external)
           asmt  == [run |-> [timestamp |-> t, target |-> q.tenant.target],
                     lang |-> q.lang, lines |-> lines]
<1>1. /\ {"input.json", "assessment.json", "assessment-oscal.json"} \subseteq DOMAIN s
      /\ s["input.json"] = IF q.redact THEN RedactInventory(in) ELSE in
      /\ s["assessment.json"] = AssessmentOf(q, in, lines, t)
      /\ s["assessment-oscal.json"] = Oscal(AssessmentOf(q, in, lines, t))
      /\ "exemptions.json" \in DOMAIN s <=> q.policy.exemptions # <<>>
      /\ "exemptions.json" \in DOMAIN s => s["exemptions.json"] = q.policy.exemptions
  BY SealedHas
<1>2. ~ q.redact
  <2>1. RedactInventory(in).redacted = TRUE
    BY RedactKeepsType
  <2>2. s["input.json"].redacted # TRUE
    BY DEF Replayable
  <2> QED
    BY <1>1, <2>1, <2>2
<1>3. s["input.json"] = in /\ s["assessment.json"] = asmt /\ s["assessment-oscal.json"] = Oscal(asmt)
  BY <1>1, <1>2 DEF AssessmentOf, Run
<1>4. /\ "input.json" \in DOMAIN files /\ files["input.json"] = Whole(in)
      /\ "assessment.json" \in DOMAIN files /\ files["assessment.json"] = Whole(asmt)
      /\ "assessment-oscal.json" \in DOMAIN files
      /\ files["assessment-oscal.json"] = Whole(Oscal(asmt))
  BY <1>1, <1>3 DEF Finished
<1>5. asmt.run.timestamp = t /\ in.evaluated_at = t
  BY <1>3 DEF Replayable
<1>6. /\ "exemptions.json" \in DOMAIN files => files["exemptions.json"].whole
      /\ SealedExemptions(files) = q.policy.exemptions
  <2>1. CASE "exemptions.json" \in DOMAIN files
    <3>1. files["exemptions.json"] = Whole(q.policy.exemptions)
      BY <1>1, <2>1 DEF Finished
    <3> QED
      BY <2>1, <3>1 DEF SealedExemptions, Whole
  <2>2. CASE "exemptions.json" \notin DOMAIN files
    <3>1. q.policy.exemptions = <<>>
      BY <1>1, <2>2 DEF Finished
    <3> QED
      BY <2>2, <3>1 DEF SealedExemptions
  <2> QED
    BY <2>1, <2>2
<1>7. Lines(in, q.policy.exemptions, t, FALSE) = lines
  <2>1. q.external \in BOOLEAN /\ (~q.external \/ in.facts \cap External = {})
    BY <1>3, EvidenceAssumption DEF Replayable
  <2>2. Findings(in, q.external) = Findings(in, FALSE)
    BY <2>1, NoExternalFact
  <2> QED
    BY <2>2, SameFindings
<1> HIDE DEF lines
<1>8. files["input.json"].value = in /\ files["assessment.json"].value = asmt
  BY <1>4 DEF Whole
<1>9. Replay(files, q.lang, now) = asmt
  <2>1. Replay(files, q.lang, now) = [asmt EXCEPT !.lines = lines, !.lang = q.lang]
    BY <1>5, <1>6, <1>7, <1>8 DEF Replay
  <2> QED
    BY <2>1
<1>10. OneInstant(files)
  BY <1>5, <1>8 DEF OneInstant
<1>11. q.lang \in Langs
  BY EvidenceAssumption
<1>12. files["input.json"].whole /\ files["assessment.json"].whole
  BY <1>4 DEF Whole
<1> HIDE DEF asmt
<1> QED
  BY <1>4, <1>6, <1>8, <1>9, <1>10, <1>11, <1>12 DEF ReDerive, Holds

\* An honest bundle is never called forged, whenever it is read (cmd/verify.go:95-330,
\* ADR-0018).
THEOREM HonestHolds == Spec => []HonestReDerives
<1>1. SealsInv /\ ProgressInv => HonestReDerives
  <2> SUFFICES ASSUME SealsInv, ProgressInv, NEW d \in Dirs, made[d] # NoScan,
                      Replayable(made[d].sealed, made[d].request),
                      "exemptions.json" \in DOMAIN disk[d] =>
                          "exemptions.json" \in DOMAIN made[d].sealed
               PROVE  Verify(disk[d], FALSE, FALSE, TRUE, clock)
    BY DEF HonestReDerives
  <2>1. /\ Finished(disk[d], made[d].sealed) /\ IsSealed(made[d].sealed, clock)
        /\ IsScan(made[d].sealed, made[d].request, made[d].origin, clock)
    BY ScanIsSealed DEF SealsInv, MadeOK, ProgressInv
  <2>2. PICK in \in Inventory, t \in 1 .. clock :
           made[d].sealed = Sealed(made[d].request, in, t) /\ made[d].request \in Requests
    BY <2>1 DEF IsScan
  <2>3. VerifyBundle(disk[d])
    BY <2>1, FinishedVerifies
  <2>4. ReDerive(disk[d], clock)
    BY <2>1, <2>2, Rederived
  <2> QED
    BY <2>3, <2>4 DEF Verify
<1> QED
  BY <1>1, SealsHold, PTL

----------------------------------------------------------------------------
(* A sealed inventory evaluated again.                                      *)

\* Before any of them expires, the waivers of a policy are in force as they were.
LEMMA LaterWaivers ==
    ASSUME NEW p \in Policies, NEW t0 \in Nat, NEW t \in Nat, t0 <= t,
           \A i \in DOMAIN p.exemptions : t <= p.exemptions[i].expires,
           NEW c, NEW subject
    PROVE  InForce(p.exemptions, c, subject, t0) <=> InForce(p.exemptions, c, subject, t)
<1>1. ASSUME NEW i \in DOMAIN p.exemptions
      PROVE  t0 <= p.exemptions[i].expires /\ t <= p.exemptions[i].expires
  <2>1. p.exemptions[i].expires \in Nat
    BY EvidenceAssumption
  <2> QED
    BY <2>1
<1> QED
  BY <1>1 DEF InForce

\* A line, the exemption left out.
Shape(l) == [l EXCEPT !.status = IF @ = "exempted" THEN "fail" ELSE @]

\* Whatever the waivers and the instant, the lines have the same shapes.
LEMMA SameShape ==
    ASSUME NEW in, NEW ex, NEW ex0, NEW t, NEW t0, NEW external,
           NEW l \in Lines(in, ex, t, external)
    PROVE  \E m \in Lines(in, ex0, t0, external) : Shape(m) = Shape(l)
<1>1. CASE \E f \in Findings(in, external) : l = FindingLine(f, in, ex, t)
  <2>1. PICK f \in Findings(in, external) : l = FindingLine(f, in, ex, t)
    BY <1>1
  <2> DEFINE c == FactControl[f]
             s == Named(in, FactResource[f])
             r == c \in RelaxedBy[in.config]
             m == FindingLine(f, in, ex0, t0)
  <2>2. m \in Lines(in, ex0, t0, external)
    BY DEF Lines
  <2>3. ASSUME NEW e, NEW at
        PROVE  Shape(FindingLine(f, in, e, at)) =
                 [fact |-> f, control |-> c, subject |-> s, status |-> "fail", relaxed |-> r]
    <3> DEFINE st == IF c \in Controls /\ InForce(e, c, s, at) THEN "exempted" ELSE "fail"
    <3>1. FindingLine(f, in, e, at) =
             [fact |-> f, control |-> c, subject |-> s, status |-> st, relaxed |-> r]
      BY DEF FindingLine, Line
    <3>2. st = "exempted" \/ st = "fail"
      OBVIOUS
    <3> HIDE DEF st, c, s, r
    <3> QED
      BY <3>1, <3>2 DEF Shape
  <2>4. Shape(m) = Shape(l)
    BY <2>1, <2>3
  <2> QED
    BY <2>2, <2>4
<1>2. CASE \E c \in Controls \ {FactControl[f] : f \in Findings(in, external)} : l = QuietLine(c, in)
  <2>1. l \in Lines(in, ex0, t0, external)
    BY <1>2 DEF Lines
  <2> QED
    BY <2>1
<1> QED
  BY <1>1, <1>2 DEF Lines

\* Under the waivers in force the lines are the same.
LEMMA SameLines ==
    ASSUME NEW in, NEW ex, NEW t, NEW t0, NEW external,
           \A c, subject : InForce(ex, c, subject, t0) <=> InForce(ex, c, subject, t)
    PROVE  Lines(in, ex, t0, external) = Lines(in, ex, t, external)
<1>1. \A f : FindingLine(f, in, ex, t0) = FindingLine(f, in, ex, t)
  BY DEF FindingLine
<1> QED
  BY <1>1 DEF Lines

\* A sealed inventory evaluated again finds the same facts on the same subjects: only
\* the exemptions move, with the instant of the replay (scan.go:154-177, 577).
THEOREM ReplayHolds == Spec => []ReplayMovesOnlyWaivers
<1>1. SealsInv => ReplayMovesOnlyWaivers
  <2> SUFFICES ASSUME SealsInv, NEW d \in Dirs, made[d] # NoScan, made[d].origin # NoScan,
                      ~made[d].request.external, ~made[d].origin.request.external,
                      ~made[d].request.redact, ~made[d].origin.request.redact
               PROVE  LET old == made[d].origin.sealed["assessment.json"]
                          new == made[d].sealed["assessment.json"]
                      IN  /\ {Shape(l) : l \in old.lines} = {Shape(l) : l \in new.lines}
                          /\ (/\ made[d].request.policy.exemptions = made[d].origin.request.policy.exemptions
                              /\ \A i \in DOMAIN made[d].request.policy.exemptions :
                                    new.run.timestamp <= made[d].request.policy.exemptions[i].expires)
                             => old.lines = new.lines
    BY DEF ReplayMovesOnlyWaivers, Shape
  <2> DEFINE q  == made[d].request
             q0 == made[d].origin.request
  <2>1. /\ IsScan(made[d].sealed, q, made[d].origin, clock) /\ q \in Requests
        /\ q.redact \in BOOLEAN /\ q.external \in BOOLEAN /\ q.policy \in Policies
    BY EvidenceAssumption DEF SealsInv, MadeOK, IsScan
  <2>2. PICK in \in Inventory, t \in 1 .. clock :
           made[d].sealed = Sealed(q, in, t) /\ IsOrigin(made[d].origin, in, t)
    BY <2>1 DEF IsScan
  <2>3. PICK r \in Requests, in0 \in Inventory, t0 \in 1 .. t :
           /\ made[d].origin = [sealed |-> Sealed(r, in0, t0), request |-> r, origin |-> NoScan]
           /\ in = Sealed(r, in0, t0)["input.json"]
    BY <2>2 DEF IsOrigin
  <2>4. /\ q0 = r /\ made[d].origin.sealed = Sealed(r, in0, t0)
        /\ r.redact \in BOOLEAN /\ r.external \in BOOLEAN
    BY <2>3, EvidenceAssumption
  <2>5. in = in0
    BY <2>3, <2>4, SealedHas
  <2> DEFINE new == Lines(in, q.policy.exemptions, t, q.external)
             old == Lines(in, r.policy.exemptions, t0, q.external)
  <2>6. /\ made[d].sealed["assessment.json"] = AssessmentOf(q, in, Lines(in, q.policy.exemptions, t, q.external), t)
        /\ made[d].origin.sealed["assessment.json"] =
             AssessmentOf(r, in0, Lines(in0, r.policy.exemptions, t0, r.external), t0)
    BY <2>1, <2>2, <2>4, SealedHas
  <2>7. r.external = q.external /\ ~q.redact /\ ~r.redact
    BY <2>1, <2>4
  <2>8. /\ made[d].sealed["assessment.json"].lines = new
        /\ made[d].sealed["assessment.json"].run.timestamp = t
        /\ made[d].origin.sealed["assessment.json"].lines = old
    <3>1. ASSUME NEW request, ~request.redact, NEW lines, NEW at
          PROVE  /\ AssessmentOf(request, in, lines, at).lines = lines
                 /\ AssessmentOf(request, in, lines, at).run.timestamp = at
      BY <3>1 DEF AssessmentOf, Run
    <3>2. made[d].sealed["assessment.json"] = AssessmentOf(q, in, new, t)
      BY <2>6
    <3>3. made[d].origin.sealed["assessment.json"] = AssessmentOf(r, in, old, t0)
      BY <2>5, <2>6, <2>7
    <3> HIDE DEF new, old, q
    <3> QED
      BY <2>7, <3>1, <3>2, <3>3
  <2>9. t \in Nat /\ t0 \in Nat /\ t0 <= t
    BY DEF SealsInv
  <2>10. /\ \A l \in old : \E m \in new : Shape(m) = Shape(l)
         /\ \A l \in new : \E m \in old : Shape(m) = Shape(l)
    BY SameShape
  <2>11. ASSUME q.policy.exemptions = r.policy.exemptions,
                \A i \in DOMAIN q.policy.exemptions : t <= q.policy.exemptions[i].expires
         PROVE  old = new
    <3>1. \A c, subject : InForce(q.policy.exemptions, c, subject, t0)
                            <=> InForce(q.policy.exemptions, c, subject, t)
      BY <2>1, <2>9, <2>11, LaterWaivers
    <3>2. Lines(in, q.policy.exemptions, t0, q.external) = new
      BY <3>1, SameLines
    <3> QED
      BY <2>11, <3>2
  <2> HIDE DEF new, old
  <2>12. {Shape(l) : l \in old} = {Shape(l) : l \in new}
    BY <2>10
  <2> QED
    BY <2>4, <2>8, <2>11, <2>12
<1> QED
  BY <1>1, SealsHold, PTL

----------------------------------------------------------------------------
(* --redact.                                                                *)

\* What a line is called after redaction: the tenant keeps its name, a resource of the
\* inventory takes its stable identifier, whatever it was called before.
LEMMA ReplacedName ==
    ASSUME NEW in \in Inventory, NEW r \in in.present \cup {Target}
    PROVE  Replaced(in, Named(in, r)) = Named(RedactInventory(in), r)
<1>1. in.present \subseteq Resources /\ RedactInventory(in).redacted
  BY RedactKeepsType DEF Inventory, Input
<1>2. CASE r = Target
  <2>1. Named(in, r) = Target /\ Named(RedactInventory(in), r) = Target
    BY <1>2 DEF Named
  <2>2. ASSUME NEW x \in in.present, Named(in, x) = Target PROVE StableOf[x] = Target
    <3>1. x # Target /\ NameOf[x] # Target
      BY <1>1, VerdictAssumption, NamesAssumption
    <3> QED
      BY <2>2, <3>1 DEF Named
  <2>3. CASE \E x \in in.present : Named(in, x) = Target
    BY <2>1, <2>2, <2>3 DEF Replaced
  <2>4. CASE ~ \E x \in in.present : Named(in, x) = Target
    BY <2>1, <2>4 DEF Replaced
  <2> QED
    BY <2>3, <2>4
<1>3. CASE r # Target
  <2>1. r \in in.present /\ r \in Resources
    BY <1>1, <1>3
  <2>2. Named(RedactInventory(in), r) = StableOf[r]
    BY <1>1, <1>3 DEF Named
  <2>3. ASSUME NEW x \in in.present, Named(in, x) = Named(in, r) PROVE x = r
    <3>1. x \in Resources /\ x # Target
      BY <1>1, VerdictAssumption
    <3>2. IF in.redacted THEN StableOf[x] = StableOf[r] ELSE NameOf[x] = NameOf[r]
      BY <1>3, <2>3, <3>1 DEF Named
    <3> QED
      BY <2>1, <3>1, <3>2, NamesAssumption
  <2>4. (CHOOSE x \in in.present : Named(in, x) = Named(in, r)) = r
    BY <2>1, <2>3
  <2>5. Replaced(in, Named(in, r)) = StableOf[CHOOSE x \in in.present : Named(in, x) = Named(in, r)]
    BY <2>1 DEF Replaced
  <2> QED
    BY <2>2, <2>4, <2>5
<1> QED
  BY <1>2, <1>3

\* The line of a finding is about a resource of the inventory, the line of a control
\* nothing was found on about the tenant.
LEMMA SubjectOfLine ==
    ASSUME NEW in \in Inventory, NEW ex, NEW at, NEW external, NEW l \in Lines(in, ex, at, external)
    PROVE  \E r \in in.present \cup {Target} :
              /\ l.subject = Named(in, r)
              /\ l.fact # NoFact => r = FactResource[l.fact]
<1>1. CASE \E f \in Findings(in, external) : l = FindingLine(f, in, ex, at)
  <2>1. PICK f \in Findings(in, external) : l = FindingLine(f, in, ex, at)
    BY <1>1
  <2>2. l.subject = Named(in, FactResource[f]) /\ l.fact = f
    BY <2>1 DEF FindingLine, Line
  <2>3. FactResource[f] \in in.present \cup {Target}
    BY DEF Findings, Inventory, FactsArePlaced
  <2> QED
    BY <2>2, <2>3
<1>2. CASE \E c \in Controls \ {FactControl[f] : f \in Findings(in, external)} : l = QuietLine(c, in)
  <2>1. l.subject = Target /\ l.fact = NoFact
    BY <1>2 DEF QuietLine, Line
  <2> QED
    BY <2>1 DEF Named
<1> QED
  BY <1>1, <1>2 DEF Lines

\* A redacted bundle names no person, on either side, and a line and its resource still
\* carry the same name (scan.go:463-573, 1785-1852).
THEOREM RedactionHolds == Spec => []RedactionIsConsistent
<1>1. SealsInv => RedactionIsConsistent
  <2> SUFFICES ASSUME SealsInv, NEW d \in Dirs, made[d] # NoScan, made[d].request.redact
               PROVE  LET in    == made[d].sealed["input.json"]
                          lines == made[d].sealed["assessment.json"].lines
                      IN  /\ in.redacted
                          /\ \A l \in lines : \A r \in in.present :
                                NameOf[r] # StableOf[r] => l.subject # NameOf[r]
                          /\ \A l \in lines : l.fact # NoFact =>
                                l.subject = Named(in, FactResource[l.fact])
    BY DEF RedactionIsConsistent
  <2> DEFINE q == made[d].request
  <2>1. PICK in0 \in Inventory, t \in 1 .. clock :
           made[d].sealed = Sealed(q, in0, t) /\ q \in Requests
    BY DEF SealsInv, MadeOK, IsScan
  <2> DEFINE in  == RedactInventory(in0)
             all == Lines(in0, q.policy.exemptions, t, q.external)
  <2>2. /\ made[d].sealed["input.json"] = in
        /\ made[d].sealed["assessment.json"] = AssessmentOf(q, in0, all, t)
    BY <2>1, SealedHas
  <2>3. made[d].sealed["assessment.json"].lines = RedactSubjects(all, in0)
    BY <2>2 DEF AssessmentOf
  <2>4. in \in Inventory /\ in.redacted /\ in.present = in0.present /\ in.present \subseteq Resources
    BY RedactKeepsType DEF Inventory, Input
  <2>5. ASSUME NEW l \in RedactSubjects(all, in0)
        PROVE  \E r \in in.present \cup {Target} :
                  l.subject = Named(in, r) /\ (l.fact # NoFact => r = FactResource[l.fact])
    <3>1. PICK k \in all : l = [k EXCEPT !.subject = Replaced(in0, k.subject)]
      BY DEF RedactSubjects
    <3>2. PICK r \in in0.present \cup {Target} :
             k.subject = Named(in0, r) /\ (k.fact # NoFact => r = FactResource[k.fact])
      BY SubjectOfLine
    <3>3. k = [fact |-> k.fact, control |-> k.control, subject |-> k.subject,
               status |-> k.status, relaxed |-> k.relaxed]
      BY LineIsRecord
    <3>4. l = [fact |-> k.fact, control |-> k.control, subject |-> Replaced(in0, k.subject),
               status |-> k.status, relaxed |-> k.relaxed]
      BY <3>1, <3>3, RenamedLine
    <3>5. l.subject = Replaced(in0, k.subject) /\ l.fact = k.fact
      BY <3>4
    <3>6. Replaced(in0, Named(in0, r)) = Named(in, r)
      BY ReplacedName
    <3> HIDE DEF all, in
    <3> QED
      BY <2>4, <3>2, <3>5, <3>6
  <2>6. ASSUME NEW r \in in.present \cup {Target}, NEW x \in in.present, NameOf[x] # StableOf[x]
        PROVE  Named(in, r) # NameOf[x]
    <3>1. CASE r = Target
      BY <2>4, <3>1, NamesAssumption DEF Named
    <3>2. CASE r # Target
      <4>1. Named(in, r) = StableOf[r] /\ r \in Resources /\ x \in Resources
        BY <2>4, <3>2 DEF Named
      <4> QED
        BY <2>6, <4>1, NamesAssumption
    <3> QED
      BY <3>1, <3>2
  <2> HIDE DEF in, all
  <2>7. \A l \in RedactSubjects(all, in0) : \A x \in in.present :
           NameOf[x] # StableOf[x] => l.subject # NameOf[x]
    BY <2>5, <2>6
  <2>8. \A l \in RedactSubjects(all, in0) : l.fact # NoFact =>
           l.subject = Named(in, FactResource[l.fact])
    BY <2>5
  <2> QED
    BY <2>2, <2>3, <2>4, <2>7, <2>8
<1> QED
  BY <1>1, SealsHold, PTL

----------------------------------------------------------------------------
(* diff.                                                                    *)

\* The kinds of a difference, read in the other direction.
LEMMA KindsMirror ==
    ASSUME NEW before \in Status, NEW after \in Status
    PROVE  /\ ResultChangeKind(after, before) = Mirror(ResultChangeKind(before, after))
           /\ ResultChangeKind(before, after) \in Kinds
BY DEF Status, ResultChangeKind, Visible, Mirror, Kinds

\* A difference read twice in the other direction is itself.
LEMMA MirrorIsInvolution ==
    /\ \A k \in Kinds : Mirror(k) \in Kinds /\ Mirror(Mirror(k)) = k
    /\ Mirror("added") = "removed" /\ Mirror("removed") = "added"
BY DEF Mirror, Kinds

\* The status of a key is that of one of its lines.
LEMMA StatusAtKey ==
    ASSUME NEW lines, \A l \in lines : l.status \in Status, NEW k \in Keys(lines)
    PROVE  /\ StatusAt(lines, k) \in Status
           /\ \E l \in lines : Key(l) = k /\ l.status = StatusAt(lines, k)
<1>1. \E l \in lines : Key(l) = k
  BY DEF Keys
<1> QED
  BY <1>1 DEF StatusAt

\* Compared the other way round, the lines give the mirror of each change.
LEMMA ResultsMirror ==
    ASSUME NEW before, NEW after,
           \A l \in before : l.status \in Status, \A l \in after : l.status \in Status
    PROVE  LET there == CompareResults(before, after)
               back  == CompareResults(after, before)
           IN  /\ DOMAIN back = DOMAIN there
               /\ \A k \in DOMAIN there : there[k] \in Kinds /\ back[k] = Mirror(there[k])
<1>1. /\ DOMAIN CompareResults(before, after) = Keys(before) \cup Keys(after)
      /\ DOMAIN CompareResults(after, before) = Keys(before) \cup Keys(after)
  BY DEF CompareResults
<1>2. ASSUME NEW k \in Keys(before) \cup Keys(after)
      PROVE  /\ CompareResults(before, after)[k] \in Kinds
             /\ CompareResults(after, before)[k] = Mirror(CompareResults(before, after)[k])
  <2>1. CASE k \in Keys(before) \cap Keys(after)
    <3>1. /\ CompareResults(before, after)[k] =
                ResultChangeKind(StatusAt(before, k), StatusAt(after, k))
          /\ CompareResults(after, before)[k] =
                ResultChangeKind(StatusAt(after, k), StatusAt(before, k))
      BY <2>1 DEF CompareResults
    <3>2. StatusAt(before, k) \in Status /\ StatusAt(after, k) \in Status
      BY <2>1, StatusAtKey
    <3> QED
      BY <3>1, <3>2, KindsMirror
  <2>2. CASE k \notin Keys(before)
    <3>1. CompareResults(before, after)[k] = "added" /\ CompareResults(after, before)[k] = "removed"
      BY <1>2, <2>2 DEF CompareResults
    <3> QED
      BY <3>1, MirrorIsInvolution DEF Kinds
  <2>3. CASE k \notin Keys(after)
    <3>1. CompareResults(before, after)[k] = "removed" /\ CompareResults(after, before)[k] = "added"
      BY <1>2, <2>3 DEF CompareResults
    <3> QED
      BY <3>1, MirrorIsInvolution DEF Kinds
  <2> QED
    BY <1>2, <2>1, <2>2, <2>3
<1> QED
  BY <1>1, <1>2

\* What diff reads in a bundle it accepts: the inventory and the assessment of one scan.
LEMMA ReadsOneScan ==
    ASSUME SealsInv, NEW d \in Dirs, VerifyBundle(disk[d])
    PROVE  \E q \in Requests, in \in Inventory, t \in 1 .. clock :
              /\ disk[d]["input.json"].value = Sealed(q, in, t)["input.json"]
              /\ disk[d]["assessment.json"].value = Sealed(q, in, t)["assessment.json"]
<1>1. PICK s \in tried[d] :
         /\ {"input.json", "assessment.json", "assessment-oscal.json"} \subseteq Listed(disk[d])
         /\ \A n \in Listed(disk[d]) \ {"manifest.json"} : disk[d][n] = Whole(s[n])
  BY OneScan
<1>2. disk[d]["input.json"] = Whole(s["input.json"]) /\ disk[d]["assessment.json"] = Whole(s["assessment.json"])
  BY <1>1
<1>3. IsSealed(s, clock)
  BY DEF SealsInv
<1>4. disk[d]["input.json"].value = s["input.json"] /\ disk[d]["assessment.json"].value = s["assessment.json"]
  BY <1>2 DEF Whole
<1> QED
  BY <1>3, <1>4 DEF IsSealed

\* The lines that are read from a bundle that verifies have statuses.
LEMMA ReadStatuses ==
    ASSUME SealsInv, NEW d \in Dirs, VerifyBundle(disk[d])
    PROVE  \A l \in AssessedIn(d).lines : l.status \in Status
<1>1. PICK q \in Requests, in \in Inventory, t \in 1 .. clock :
         disk[d]["assessment.json"].value = Sealed(q, in, t)["assessment.json"]
  BY ReadsOneScan
<1>2. IsSealed(Sealed(q, in, t), clock)
  BY DEF IsSealed
<1>3. WellFormed(Sealed(q, in, t))
  BY <1>2, SealedIsWellFormed
<1> QED
  BY <1>1, <1>3 DEF WellFormed, AssessedIn

\* diff is symmetric: compared the other way round, two bundles give the mirror of the
\* same changes, and as many of them (diff.go:97-126, 236-302).
THEOREM DiffMirrors == Spec => []DiffIsMirrored
<1>1. SealsInv => DiffIsMirrored
  <2> SUFFICES ASSUME SealsInv, NEW b \in Dirs, NEW a \in Dirs, Before(b, a)
               PROVE  LET there == DiffBundles(disk[b], disk[a])
                          back  == DiffBundles(disk[a], disk[b])
                      IN  /\ Before(a, b)
                          /\ \A k \in DOMAIN there.results : back.results[k] = Mirror(there.results[k])
                          /\ back.resources.added = there.resources.removed
                          /\ \A k \in Kinds : back.summary[Mirror(k)] = there.summary[k]
    BY DEF DiffIsMirrored
  <2> DEFINE before  == AssessedIn(b).lines
             after   == AssessedIn(a).lines
             changes == CompareResults(before, after)
             mirrors == CompareResults(after, before)
  <2>1. /\ DiffBundles(disk[b], disk[a]).results = changes
        /\ DiffBundles(disk[a], disk[b]).results = mirrors
        /\ DiffBundles(disk[b], disk[a]).summary = DiffSummary(changes)
        /\ DiffBundles(disk[a], disk[b]).summary = DiffSummary(mirrors)
    BY DEF DiffBundles, AssessedIn
  <2>2. DiffBundles(disk[a], disk[b]).resources.added = DiffBundles(disk[b], disk[a]).resources.removed
    BY DEF DiffBundles, CompareResources
  <2>3. Before(a, b) /\ VerifyBundle(disk[a]) /\ VerifyBundle(disk[b])
    BY DEF Before, Comparable, Readable
  <2>4. (\A l \in before : l.status \in Status) /\ (\A l \in after : l.status \in Status)
    BY <2>3, ReadStatuses
  <2> HIDE DEF before, after
  <2>5. /\ DOMAIN mirrors = DOMAIN changes
        /\ \A k \in DOMAIN changes : changes[k] \in Kinds /\ mirrors[k] = Mirror(changes[k])
    BY <2>4, ResultsMirror
  <2> HIDE DEF changes, mirrors
  <2>6. ASSUME NEW kind \in Kinds
        PROVE  DiffSummary(mirrors)[Mirror(kind)] = DiffSummary(changes)[kind]
    <3>1. \A k \in DOMAIN changes : mirrors[k] = Mirror(kind) <=> changes[k] = kind
      BY <2>5, MirrorIsInvolution
    <3>2. {k \in DOMAIN mirrors : mirrors[k] = Mirror(kind)} = {k \in DOMAIN changes : changes[k] = kind}
      BY <2>5, <3>1
    <3>3. Mirror(kind) \in Kinds
      BY MirrorIsInvolution
    <3> QED
      BY <3>2, <3>3 DEF DiffSummary
  <2> QED
    BY <2>1, <2>2, <2>3, <2>5, <2>6
<1> QED
  BY <1>1, SealsHold, PTL

\* What a sealed line says of the inventory it was evaluated on.
LEMMA LineMeans ==
    ASSUME NEW q \in Requests, NEW in \in Inventory, NEW t,
           NEW l \in Sealed(q, in, t)["assessment.json"].lines
    PROVE  /\ l.status = "pass" => /\ l.control \in Controls /\ in.present # {} /\ ~in.incomplete
                                   /\ \A f \in Findings(in, q.external) : FactControl[f] # l.control
           /\ l.status = "fail" => \E f \in Findings(in, q.external) : FactControl[f] = l.control
<1> DEFINE all == Lines(in, q.policy.exemptions, t, q.external)
<1>1. \E k \in all : l.status = k.status /\ l.control = k.control
  <2>1. Sealed(q, in, t)["assessment.json"].lines = IF q.redact THEN RedactSubjects(all, in) ELSE all
    <3>1. Sealed(q, in, t)["assessment.json"] = AssessmentOf(q, in, all, t)
      BY SealedHas
    <3> HIDE DEF all
    <3> QED
      BY <3>1 DEF AssessmentOf
  <2>2. CASE q.redact
    <3>1. PICK k \in all : l = [k EXCEPT !.subject = Replaced(in, k.subject)]
      BY <2>1, <2>2 DEF RedactSubjects
    <3>2. k = [fact |-> k.fact, control |-> k.control, subject |-> k.subject,
               status |-> k.status, relaxed |-> k.relaxed]
      BY LineIsRecord
    <3>3. l = [fact |-> k.fact, control |-> k.control, subject |-> Replaced(in, k.subject),
               status |-> k.status, relaxed |-> k.relaxed]
      BY <3>1, <3>2, RenamedLine
    <3> QED
      BY <3>3
  <2>3. CASE ~q.redact
    BY <2>1, <2>3
  <2> QED
    BY <2>2, <2>3
<1>2. PICK k \in all : l.status = k.status /\ l.control = k.control
  BY <1>1
<1>3. CASE \E f \in Findings(in, q.external) : k = FindingLine(f, in, q.policy.exemptions, t)
  <2>1. PICK f \in Findings(in, q.external) : k = FindingLine(f, in, q.policy.exemptions, t)
    BY <1>3
  <2>2. k.control = FactControl[f] /\ k.status \in {"exempted", "fail"}
    BY <2>1 DEF FindingLine, Line
  <2> QED
    BY <1>2, <2>2
<1>4. CASE \E c \in Controls \ {FactControl[f] : f \in Findings(in, q.external)} : k = QuietLine(c, in)
  <2>1. PICK c \in Controls \ {FactControl[f] : f \in Findings(in, q.external)} : k = QuietLine(c, in)
    BY <1>4
  <2>2. /\ k.control = c
        /\ k.status = IF in.present = {} \/ in.incomplete THEN "not-evaluated" ELSE "pass"
    BY <2>1 DEF QuietLine, Line
  <2> QED
    BY <1>2, <2>1, <2>2
<1> QED
  BY <1>2, <1>3, <1>4 DEF Lines

\* The kinds of change that speak of a control that passes or fails.
LEMMA KindsMean ==
    ASSUME NEW before \in Status, NEW after \in Status
    PROVE  /\ ResultChangeKind(before, after) = "unchanged" => before = after
           /\ ResultChangeKind(before, after) = "fixed" => after = "pass"
           /\ ResultChangeKind(before, after) = "regressed" => after = "fail"
BY DEF ResultChangeKind, Status

\* A deviation of the first bundle stays in the diff or in the second, what is called
\* fixed was measured clean, and a regression is a deviation found (diff.go:236-319).
THEOREM DiffFaithful == Spec => []DiffIsFaithful
<1>1. SealsInv => DiffIsFaithful
  <2> SUFFICES ASSUME SealsInv, NEW b \in Dirs, NEW a \in Dirs, Before(b, a)
               PROVE  LET kind == DiffBundles(disk[b], disk[a]).results
                          in   == disk[a]["input.json"].value IN
                      /\ \A l \in AssessedIn(b).lines :
                            (l.status = "fail" /\ kind[Key(l)] = "unchanged") =>
                                \E m \in AssessedIn(a).lines : Key(m) = Key(l) /\ m.status = "fail"
                      /\ \A k \in DOMAIN kind :
                            /\ kind[k] = "fixed" => MeasuredClean(in, k[1])
                            /\ kind[k] = "regressed" =>
                                  \E f \in Deviations(in) : FactControl[f] = k[1]
    BY DEF DiffIsFaithful
  <2> DEFINE before == AssessedIn(b).lines
             after  == AssessedIn(a).lines
             kind   == CompareResults(before, after)
             sealed == disk[a]["input.json"].value
  <2>1. /\ VerifyBundle(disk[b]) /\ VerifyBundle(disk[a]) /\ Indexable(before)
        /\ DiffBundles(disk[b], disk[a]).results = kind
    BY DEF Before, Comparable, Readable, DiffBundles, AssessedIn
  <2>2. (\A l \in before : l.status \in Status) /\ (\A l \in after : l.status \in Status)
    BY <2>1, ReadStatuses
  <2>3. PICK q \in Requests, in \in Inventory, t \in 1 .. clock :
           /\ sealed = Sealed(q, in, t)["input.json"]
           /\ AssessedIn(a) = Sealed(q, in, t)["assessment.json"]
    BY <2>1, ReadsOneScan DEF AssessedIn
  <2>4. q.external \in BOOLEAN /\ (sealed = in \/ sealed = RedactInventory(in))
    BY <2>3, SealedHas, EvidenceAssumption
  <2>5. /\ sealed.facts = in.facts /\ sealed.present = in.present
        /\ sealed.incomplete = in.incomplete /\ sealed.evaluated_at = in.evaluated_at
        /\ in.redacted => sealed.redacted
    BY <2>4, RedactKeepsType
  <2>6. ASSUME NEW f \in Findings(sealed, TRUE), FactControl[f] \in Controls
        PROVE  f \in Findings(in, q.external)
    <3>1. f \in Facts /\ f \notin External
      BY <2>4, <2>6, RedactKeepsType, VerdictAssumption DEF Findings, Inventory, Input
    <3> QED
      BY <2>5, <3>1 DEF Findings
  <2>7. ASSUME NEW f \in Findings(in, q.external) PROVE f \in Deviations(sealed)
    <3>1. sealed \in Inventory
      BY <2>4, RedactKeepsType
    <3>2. sealed = [facts |-> sealed.facts, present |-> sealed.present,
                    incomplete |-> sealed.incomplete, redacted |-> sealed.redacted,
                    evaluated_at |-> sealed.evaluated_at, config |-> sealed.config]
      BY <3>1 DEF Inventory, Input
    <3> DEFINE plain == [sealed EXCEPT !.redacted = FALSE]
    <3> HIDE DEF sealed
    <3>3. plain.facts = in.facts /\ plain.evaluated_at = in.evaluated_at /\ ~plain.redacted
      BY <2>5, <3>2
    <3> HIDE DEF plain
    <3>4. f \in Findings(plain, TRUE)
      BY <3>3 DEF Findings
    <3> QED
      BY <3>4 DEF Deviations, plain
  <2>8. \A l \in after :
           /\ l.status = "pass" => MeasuredClean(sealed, l.control)
           /\ l.status = "fail" => \E f \in Deviations(sealed) : FactControl[f] = l.control
    <3> SUFFICES ASSUME NEW l \in after
                 PROVE  /\ l.status = "pass" => MeasuredClean(sealed, l.control)
                        /\ l.status = "fail" => \E f \in Deviations(sealed) : FactControl[f] = l.control
      OBVIOUS
    <3>1. /\ l.status = "pass" => /\ l.control \in Controls /\ in.present # {} /\ ~in.incomplete
                                  /\ \A f \in Findings(in, q.external) : FactControl[f] # l.control
          /\ l.status = "fail" => \E f \in Findings(in, q.external) : FactControl[f] = l.control
      BY <2>3, LineMeans
    <3> HIDE DEF sealed, after
    <3>2. l.status = "pass" => MeasuredClean(sealed, l.control)
      BY <2>5, <2>6, <3>1 DEF MeasuredClean
    <3> QED
      BY <2>7, <3>1, <3>2
  <2> HIDE DEF before, after, sealed
  <2>9. ASSUME NEW k \in Keys(before) \cap Keys(after)
        PROVE  /\ kind[k] = ResultChangeKind(StatusAt(before, k), StatusAt(after, k))
               /\ StatusAt(before, k) \in Status /\ StatusAt(after, k) \in Status
               /\ \E m \in after : Key(m) = k /\ m.status = StatusAt(after, k)
    <3>1. kind[k] = ResultChangeKind(StatusAt(before, k), StatusAt(after, k))
      BY DEF CompareResults
    <3> QED
      BY <2>2, <3>1, StatusAtKey
  <2>10. DOMAIN kind = Keys(before) \cup Keys(after)
    BY DEF CompareResults
  <2>11. \A k \in Keys(before) \cup Keys(after) :
            k \notin Keys(before) \cap Keys(after) => kind[k] \in {"added", "removed"}
    BY DEF CompareResults
  <2> HIDE DEF kind
  <2>12. ASSUME NEW l \in before, l.status = "fail", kind[Key(l)] = "unchanged"
         PROVE  \E m \in after : Key(m) = Key(l) /\ m.status = "fail"
    <3>1. Key(l) \in Keys(before) \cap Keys(after)
      <4>1. Key(l) \in Keys(before)
        BY DEF Keys
      <4> QED
        BY <2>11, <2>12, <4>1
    <3>2. StatusAt(before, Key(l)) = "fail"
      <4>1. (CHOOSE x \in before : Key(x) = Key(l)) = l
        BY <2>1 DEF Indexable
      <4> QED
        BY <2>12, <4>1 DEF StatusAt
    <3>3. StatusAt(before, Key(l)) = StatusAt(after, Key(l))
      BY <2>9, <2>12, <3>1, KindsMean
    <3> QED
      BY <2>9, <3>1, <3>2, <3>3
  <2>13. ASSUME NEW k \in DOMAIN kind, kind[k] \in {"fixed", "regressed"}
         PROVE  \E m \in after : /\ Key(m) = k
                                 /\ kind[k] = "fixed" => m.status = "pass"
                                 /\ kind[k] = "regressed" => m.status = "fail"
    <3>1. k \in Keys(before) \cap Keys(after)
      BY <2>10, <2>11, <2>13
    <3> QED
      BY <2>9, <3>1, KindsMean
  <2>14. \A k \in DOMAIN kind :
            /\ kind[k] = "fixed" => MeasuredClean(sealed, k[1])
            /\ kind[k] = "regressed" => \E f \in Deviations(sealed) : FactControl[f] = k[1]
    <3>1. \A m : Key(m)[1] = m.control
      BY DEF Key
    <3> QED
      BY <2>8, <2>13, <3>1
  <2> QED
    BY <2>1, <2>12, <2>14 DEF before, after, sealed
<1> QED
  BY <1>1, SealsHold, PTL

=============================================================================
