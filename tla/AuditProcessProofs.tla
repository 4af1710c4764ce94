------------------------- MODULE AuditProcessProofs -------------------------
(***************************************************************************)
(* Proofs about the audits that share certificate files, for any number of *)
(* audits and directories, whatever translation and comparison compute.    *)
(***************************************************************************)
EXTENDS AuditProcess, TLAPS

\* A file is left only by an audit of its directory that is at Lean, or was killed there.
FilesHaveOwners ==
  \A d \in DOMAIN file : file[d] # NoFile =>
    /\ file[d].maker \in Auditor /\ stage[file[d].maker] \in AtLean \cup {"dead"}
    /\ job[file[d].maker].dir = d

\* An audit that no other has disturbed finds in the file what it put there, or no file.
FileIsOwn ==
  \A a \in Auditor :
    LET held == file[job[a].dir]
    IN  /\ stage[a] = "writing" => opened[a] # "none"
        /\ stage[a] = "writing" /\ ~disturbed[a] =>
             held = NoFile \/ (held.maker = opened[a] /\ held.text = "empty")
        /\ stage[a] = "running" /\ ~disturbed[a] => held = NoFile \/ held.text = a

ProofIsOwn ==
  \A a \in Auditor : lean[a] = "LEAN_KERNEL_VERIFIED" /\ ~disturbed[a] => job[a].provable

\* What a verdict rests on is not changed after it.
VerdictStands ==
  \A a \in Auditor :
    /\ stage[a] # "done" => status[a] = "none"
    /\ status[a] \in {"PASS", "PASS_WITH_FINDINGS"} /\ job[a].mode = "STRICT" =>
         matched[a] # {} /\ lean[a] = "LEAN_KERNEL_VERIFIED"

IInv == TypeOK /\ FilesHaveOwners /\ FileIsOwn /\ ProofIsOwn /\ VerdictStands

LEMMA InitEstablishes == Init => IInv
<1> SUFFICES ASSUME Init PROVE IInv
  OBVIOUS
<1>1. TypeOK
  <2>1. stage \in [Auditor -> {"read", "done"}]
    BY DEF Init
  <2>2. findings \in [Auditor -> SUBSET Codes] /\ job \in Workload
    BY DEF Init
  <2>3. file \in [{job[a].dir : a \in Auditor} ->
                 [maker : Auditor \cup {"none"}, text : Auditor \cup {"none", "empty", "mixed"}]]
    BY DEF Init, NoFile
  <2>4. QED
    BY <2>1, <2>2, <2>3 DEF Init, TypeOK, Ends
<1>2. \A a \in Auditor : /\ stage[a] \in {"read", "done"} /\ lean[a] = "NOT_RUN" /\ status[a] = "none"
  BY DEF Init
<1>3. FilesHaveOwners
  BY DEF FilesHaveOwners, Init
<1>4. FileIsOwn /\ ProofIsOwn /\ VerdictStands
  BY <1>2 DEF FileIsOwn, ProofIsOwn, VerdictStands
<1>5. QED
  BY <1>1, <1>3, <1>4 DEF IInv

LEMMA Moves ==
  ASSUME TypeOK, NEW a \in Auditor, NEW from, NEW to, Move(a, from, to)
  PROVE  /\ stage[a] = from /\ stage'[a] = to
         /\ \A b \in Auditor : b # a => stage'[b] = stage[b]
         /\ DOMAIN stage' = Auditor
BY DEF TypeOK, Move

LEMMA Founds ==
  ASSUME TypeOK, NEW a \in Auditor, NEW codes \in SUBSET Codes, Find(a, codes)
  PROVE  findings' \in [Auditor -> SUBSET Codes]
BY DEF TypeOK, Find

\* A step that neither comes to Lean nor leaves it, and gives no verdict.
LEMMA QuietStep ==
  ASSUME IInv, NEW a \in Auditor, stage[a] \in {"read", "extracted", "compared"},
         NEW to \in {"extracted", "compared", "ready", "cleaned", "raised"},
         Move(a, stage[a], to), UNCHANGED <<job, lean, status, files>>,
         DOMAIN extracted' = Auditor, DOMAIN matched' = Auditor,
         \A b \in Auditor : b # a => matched'[b] = matched[b],
         findings' \in [Auditor -> SUBSET Codes]
  PROVE  IInv'
<1>1. /\ stage'[a] = to /\ \A b \in Auditor : b # a => stage'[b] = stage[b]
  BY Moves DEF IInv
<1>2. TypeOK'
  <2>1. stage' = [stage EXCEPT ![a] = to]
    BY DEF Move
  <2>2. QED
    BY <2>1 DEF IInv, TypeOK, Ends, files
<1>3. FilesHaveOwners' /\ FileIsOwn' /\ ProofIsOwn'
  BY <1>1 DEF IInv, TypeOK, FilesHaveOwners, FileIsOwn, ProofIsOwn, AtLean, files
<1>4. VerdictStands'
  <2>1. status[a] = "none"
    BY DEF IInv, VerdictStands
  <2>2. QED
    BY <1>1, <2>1 DEF IInv, VerdictStands
<1>5. QED
  BY <1>2, <1>3, <1>4 DEF IInv

LEMMA TranslateKeeps == ASSUME IInv, NEW a \in Auditor, Translate(a) PROVE IInv'
<1>1. PICK e : /\ Move(a, "read", IF e.status = "PYTHON_OUTPUT_NOT_FOUND" THEN "raised" ELSE "extracted")
               /\ extracted' = [extracted EXCEPT ![a] = e]
               /\ Find(a, IF e.status = "EXPRESSION_PARTIALLY_EXTRACTED" THEN {e.status} ELSE {})
  BY DEF Translate
<1>2. findings' \in [Auditor -> SUBSET Codes]
  BY <1>1, Founds DEF IInv, Codes
<1>3. DOMAIN extracted' = Auditor /\ UNCHANGED <<job, matched, lean, status, files>> /\ stage[a] = "read"
  BY <1>1 DEF Translate, IInv, TypeOK
<1>4. PICK to \in {"extracted", "raised"} : Move(a, "read", to)
  BY <1>1
<1>5. QED
  BY <1>2, <1>3, <1>4, QuietStep DEF IInv, TypeOK

LEMMA CompareKeeps == ASSUME IInv, NEW a \in Auditor, Compare(a) PROVE IInv'
<1>1. stage[a] = "extracted" /\ UNCHANGED <<job, extracted, lean, status, files>>
  BY DEF Compare
<1>2. DOMAIN matched' = Auditor /\ \A b \in Auditor : b # a => matched'[b] = matched[b]
  BY DEF Compare, IInv, TypeOK
<1>3. findings' \in [Auditor -> SUBSET Codes]
  <2>1. \/ findings' = findings
        \/ Find(a, {"THEORY_NOT_REGISTERED"})
        \/ Find(a, {"THEORY_IMPLEMENTATION_MISMATCH"})
        \/ Find(a, {})
    BY DEF Compare
  <2>2. QED
    BY <2>1, Founds DEF IInv, TypeOK, Codes
<1>4. PICK to \in {"compared", "raised"} : Move(a, "extracted", to)
  BY DEF Compare
<1>5. QED
  BY <1>1, <1>2, <1>3, <1>4, QuietStep DEF IInv, TypeOK

LEMMA GenerateKeeps == ASSUME IInv, NEW a \in Auditor, Generate(a) PROVE IInv'
<1>1. UNCHANGED <<job, extracted, matched, findings, lean, status, files>>
  BY DEF Generate
<1>2. PICK to \in {"raised", "ready", "cleaned"} : Move(a, "compared", to)
  BY DEF Generate
<1>3. stage[a] = "compared"
  BY <1>2 DEF Move
<1>4. QED
  BY <1>1, <1>2, <1>3, QuietStep DEF IInv, TypeOK

\* A step that comes to Lean, is at it or leaves it for good, seen from the file.
LEMMA FileStep ==
  ASSUME IInv, NEW a \in Auditor, NEW from \in {"ready"} \cup AtLean,
         NEW to \in AtLean \cup {"cleaned", "raised", "dead"},
         Move(a, from, to),
         lean' \in [Auditor -> {"NOT_RUN", "LEAN_KERNEL_VERIFIED", "LEAN_VERIFICATION_FAILED",
                               "LEAN_UNAVAILABLE"}],
         \A b \in Auditor : b # a => lean'[b] = lean[b],
         findings' \in [Auditor -> SUBSET Codes],
         UNCHANGED <<job, extracted, matched, status>>,
         DOMAIN file' = DOMAIN file,
         \A d \in DOMAIN file :
           file'[d] \in [maker : Auditor \cup {"none"}, text : Auditor \cup {"none", "empty", "mixed"}],
         file' = [d \in DOMAIN file' |-> file'[d]],
         opened' \in [Auditor -> Auditor \cup {"none"}], disturbed' \in [Auditor -> BOOLEAN],
         FilesHaveOwners', FileIsOwn', ProofIsOwn'
  PROVE  IInv'
<1>1. /\ stage[a] = from /\ stage'[a] = to
      /\ \A b \in Auditor : b # a => stage'[b] = stage[b]
  BY Moves DEF IInv
<1>2. TypeOK'
  <2>1. stage' = [stage EXCEPT ![a] = to]
    BY DEF Move
  <2>2. file' \in [{job'[b].dir : b \in Auditor} ->
                  [maker : Auditor \cup {"none"}, text : Auditor \cup {"none", "empty", "mixed"}]]
    BY DEF IInv, TypeOK
  <2>3. stage' \in [Auditor -> {"read", "extracted", "compared", "ready", "cleaned"} \cup AtLean \cup Ends]
    BY <2>1 DEF IInv, TypeOK, Ends
  <2>4. QED
    BY <2>2, <2>3 DEF IInv, TypeOK
<1>3. VerdictStands'
  <2>1. status[a] = "none"
    BY <1>1 DEF IInv, VerdictStands, AtLean
  <2>2. QED
    BY <1>1, <2>1 DEF IInv, VerdictStands, AtLean
<1>4. QED
  BY <1>2, <1>3 DEF IInv

\* What becomes of the other audits when a opens or writes the file.
LEMMA Disturbs ==
  ASSUME IInv, NEW a \in Auditor, Disturb(a)
  PROVE  /\ disturbed' \in [Auditor -> BOOLEAN]
         /\ disturbed'[a] = disturbed[a]
         /\ \A b \in Auditor : disturbed[b] => disturbed'[b]
         /\ \A b \in Auditor : b # a /\ ~disturbed'[b] /\ stage[b] \in {"writing", "running"} =>
              job[b].dir # job[a].dir
BY DEF Disturb, IInv, TypeOK

LEMMA OpenFileKeeps == ASSUME IInv, NEW a \in Auditor, OpenFile(a) PROVE IInv'
<1> DEFINE d == job[a].dir
           maker == IF file[d] = NoFile THEN a ELSE file[d].maker
<1>1. /\ stage[a] = "ready" /\ stage'[a] = "writing"
      /\ \A b \in Auditor : b # a => stage'[b] = stage[b]
  BY Moves DEF OpenFile, IInv
<1>2. /\ Move(a, "ready", "writing") /\ Disturb(a)
      /\ file' = [file EXCEPT ![d] = [maker |-> maker, text |-> "empty"]]
      /\ opened' = [opened EXCEPT ![a] = maker]
      /\ UNCHANGED <<job, extracted, matched, findings, lean, status>>
  BY DEF OpenFile
<1>3. d \in DOMAIN file
  BY DEF IInv, TypeOK
<1>4. /\ maker \in Auditor /\ maker # "none"
      /\ maker = a \/ (stage[maker] \in AtLean \cup {"dead"} /\ job[maker].dir = d)
  BY <1>3, AuditAssumption DEF IInv, FilesHaveOwners
<1> HIDE DEF maker
<1>5. /\ file'[d] = [maker |-> maker, text |-> "empty"]
      /\ \A e \in DOMAIN file : e # d => file'[e] = file[e]
      /\ opened'[a] = maker /\ \A b \in Auditor : b # a => opened'[b] = opened[b]
  BY <1>2, <1>3 DEF IInv, TypeOK
<1>6. FilesHaveOwners'
  <2> SUFFICES ASSUME NEW e \in DOMAIN file, file'[e] # NoFile
               PROVE  /\ file'[e].maker \in Auditor /\ job[file'[e].maker].dir = e
                      /\ stage'[file'[e].maker] \in AtLean \cup {"dead"}
    BY <1>2 DEF FilesHaveOwners
  <2>1. CASE e = d
    BY <1>1, <1>4, <1>5, <2>1 DEF AtLean
  <2>2. CASE e # d
    BY <1>1, <1>5, <2>2 DEF IInv, FilesHaveOwners, AtLean
  <2>3. QED
    BY <2>1, <2>2
<1>7. FileIsOwn'
  <2> SUFFICES ASSUME NEW b \in Auditor
               PROVE  /\ stage'[b] = "writing" => opened'[b] # "none"
                      /\ stage'[b] = "writing" /\ ~disturbed'[b] =>
                           \/ file'[job[b].dir] = NoFile
                           \/ file'[job[b].dir].maker = opened'[b] /\ file'[job[b].dir].text = "empty"
                      /\ stage'[b] = "running" /\ ~disturbed'[b] =>
                           file'[job[b].dir] = NoFile \/ file'[job[b].dir].text = b
    BY <1>2 DEF FileIsOwn
  <2>1. CASE b = a
    BY <1>1, <1>4, <1>5, <2>1
  <2>2. ASSUME b # a, stage'[b] \in {"writing", "running"}, ~disturbed'[b]
        PROVE  file'[job[b].dir] = file[job[b].dir] /\ ~disturbed[b]
    <3>1. job[b].dir # d /\ ~disturbed[b]
      BY <1>1, <1>2, <2>2, Disturbs
    <3>2. job[b].dir \in DOMAIN file
      BY DEF IInv, TypeOK
    <3>3. QED
      BY <1>5, <3>1, <3>2
  <2>3. CASE b # a
    BY <1>1, <1>5, <2>2, <2>3 DEF IInv, FileIsOwn
  <2>4. QED
    BY <2>1, <2>3
<1>8. ProofIsOwn'
  BY <1>2, Disturbs DEF IInv, ProofIsOwn
<1>9. opened' \in [Auditor -> Auditor \cup {"none"}] /\ disturbed' \in [Auditor -> BOOLEAN]
  BY <1>2, <1>4, Disturbs DEF IInv, TypeOK
<1>10. /\ DOMAIN file' = DOMAIN file /\ file' = [e \in DOMAIN file' |-> file'[e]]
       /\ \A e \in DOMAIN file :
            file'[e] \in [maker : Auditor \cup {"none"}, text : Auditor \cup {"none", "empty", "mixed"}]
  BY <1>2, <1>4, <1>5 DEF IInv, TypeOK
<1>11. QED
  BY <1>2, <1>6, <1>7, <1>8, <1>9, <1>10, FileStep DEF AtLean, IInv, TypeOK

LEMMA StartLeanKeeps == ASSUME IInv, NEW a \in Auditor, StartLean(a) PROVE IInv'
<1> DEFINE d == job[a].dir
<1>1. /\ stage[a] = "writing" /\ stage'[a] = "running"
      /\ \A b \in Auditor : b # a => stage'[b] = stage[b]
  BY Moves DEF StartLean, IInv
<1>2. /\ Move(a, "writing", "running") /\ Disturb(a)
      /\ UNCHANGED <<job, extracted, matched, findings, lean, status, opened>>
  BY DEF StartLean
<1>3. d \in DOMAIN file /\ opened[a] # "none"
  BY <1>1 DEF IInv, TypeOK, FileIsOwn
<1>4. PICK text \in {a, "mixed"} :
        \/ file[d].maker # opened[a] /\ UNCHANGED file
        \/ /\ file[d].maker = opened[a] /\ file' = [file EXCEPT ![d].text = text]
           /\ file[d].text = "empty" => text = a
  BY DEF StartLean
<1>5. /\ DOMAIN file' = DOMAIN file /\ file' = [e \in DOMAIN file' |-> file'[e]]
      /\ \A e \in DOMAIN file : e # d => file'[e] = file[e]
      /\ file'[d] = file[d] \/ file'[d] = [file[d] EXCEPT !.text = text]
  BY <1>3, <1>4 DEF IInv, TypeOK
<1>6. /\ file[d] \in [maker : Auditor \cup {"none"}, text : Auditor \cup {"none", "empty", "mixed"}]
      /\ file'[d] \in [maker : Auditor \cup {"none"}, text : Auditor \cup {"none", "empty", "mixed"}]
      /\ file'[d].maker = file[d].maker
  <2>1. file[d] \in [maker : Auditor \cup {"none"}, text : Auditor \cup {"none", "empty", "mixed"}]
    BY <1>3 DEF IInv, TypeOK
  <2>2. QED
    BY <1>5, <2>1
<1>7. file[d] = NoFile => file'[d] = NoFile
  BY <1>3, <1>4 DEF NoFile
<1>8. FilesHaveOwners'
  <2> SUFFICES ASSUME NEW e \in DOMAIN file, file'[e] # NoFile
               PROVE  /\ file'[e].maker \in Auditor /\ job[file'[e].maker].dir = e
                      /\ stage'[file'[e].maker] \in AtLean \cup {"dead"}
    BY <1>2, <1>5 DEF FilesHaveOwners
  <2>1. file[e] # NoFile /\ file'[e].maker = file[e].maker
    BY <1>5, <1>6, <1>7
  <2>2. QED
    BY <1>1, <2>1 DEF IInv, FilesHaveOwners, AtLean
<1>9. FileIsOwn'
  <2> SUFFICES ASSUME NEW b \in Auditor
               PROVE  /\ stage'[b] = "writing" => opened'[b] # "none"
                      /\ stage'[b] = "writing" /\ ~disturbed'[b] =>
                           \/ file'[job[b].dir] = NoFile
                           \/ file'[job[b].dir].maker = opened'[b] /\ file'[job[b].dir].text = "empty"
                      /\ stage'[b] = "running" /\ ~disturbed'[b] =>
                           file'[job[b].dir] = NoFile \/ file'[job[b].dir].text = b
    BY <1>2 DEF FileIsOwn
  <2>1. ASSUME ~disturbed'[a] PROVE file'[d] = NoFile \/ file'[d].text = a
    <3>1. file[d] = NoFile \/ (file[d].maker = opened[a] /\ file[d].text = "empty")
      BY <1>1, <1>2, <2>1, Disturbs DEF IInv, FileIsOwn
    <3>2. CASE file[d] = NoFile
      BY <1>7, <3>2
    <3>3. CASE file[d].maker = opened[a] /\ file[d].text = "empty"
      BY <1>3, <1>4, <1>6, <3>3 DEF IInv, TypeOK
    <3>4. QED
      BY <3>1, <3>2, <3>3
  <2>2. ASSUME b # a, stage'[b] \in {"writing", "running"}, ~disturbed'[b]
        PROVE  file'[job[b].dir] = file[job[b].dir] /\ ~disturbed[b]
    <3>1. job[b].dir # d /\ ~disturbed[b]
      BY <1>1, <1>2, <2>2, Disturbs
    <3>2. job[b].dir \in DOMAIN file
      BY DEF IInv, TypeOK
    <3>3. QED
      BY <1>5, <3>1, <3>2
  <2>3. CASE b # a
    BY <1>1, <1>2, <2>2, <2>3 DEF IInv, FileIsOwn
  <2>4. CASE b = a
    BY <1>1, <2>1, <2>4
  <2>5. QED
    BY <2>3, <2>4
<1>10. ProofIsOwn'
  BY <1>2, Disturbs DEF IInv, ProofIsOwn
<1>11. disturbed' \in [Auditor -> BOOLEAN]
  BY <1>2, Disturbs
<1>12. \A e \in DOMAIN file :
         file'[e] \in [maker : Auditor \cup {"none"}, text : Auditor \cup {"none", "empty", "mixed"}]
  BY <1>5, <1>6 DEF IInv, TypeOK
<1>13. QED
  BY <1>2, <1>5, <1>8, <1>9, <1>10, <1>11, <1>12, FileStep DEF AtLean, IInv, TypeOK

\* A step that leaves the files alone.
LEMMA FilesStay ==
  ASSUME IInv, NEW a \in Auditor, NEW from \in AtLean,
         NEW to \in {"answered", "removing", "cleaned", "dead"}, Move(a, from, to), UNCHANGED files,
         lean' \in [Auditor -> {"NOT_RUN", "LEAN_KERNEL_VERIFIED", "LEAN_VERIFICATION_FAILED",
                               "LEAN_UNAVAILABLE"}],
         \A b \in Auditor : b # a => lean'[b] = lean[b],
         findings' \in [Auditor -> SUBSET Codes],
         UNCHANGED <<job, extracted, matched, status>>,
         to = "cleaned" => file[job[a].dir] = NoFile,
         lean'[a] = "LEAN_KERNEL_VERIFIED" /\ ~disturbed[a] => job[a].provable
  PROVE  IInv'
<1>1. /\ stage[a] = from /\ stage'[a] = to
      /\ \A b \in Auditor : b # a => stage'[b] = stage[b]
  BY Moves DEF IInv
<1>2. UNCHANGED <<file, opened, disturbed>>
  BY DEF files
<1>3. FilesHaveOwners'
  <2> SUFFICES ASSUME NEW e \in DOMAIN file, file[e] # NoFile
               PROVE  stage'[file[e].maker] \in AtLean \cup {"dead"}
    BY <1>2 DEF IInv, FilesHaveOwners
  <2>1. /\ file[e].maker \in Auditor /\ stage[file[e].maker] \in AtLean \cup {"dead"}
        /\ job[file[e].maker].dir = e
    BY DEF IInv, FilesHaveOwners
  <2>2. file[e].maker = a => to # "cleaned"
    BY <2>1
  <2>3. QED
    BY <1>1, <2>1, <2>2 DEF AtLean
<1>4. FileIsOwn'
  BY <1>1, <1>2 DEF IInv, FileIsOwn
<1>5. ProofIsOwn'
  BY <1>2 DEF IInv, ProofIsOwn
<1>6. file' = [e \in DOMAIN file' |-> file'[e]] /\ DOMAIN file' = DOMAIN file
  BY <1>2 DEF IInv, TypeOK
<1>7. \A e \in DOMAIN file :
        file'[e] \in [maker : Auditor \cup {"none"}, text : Auditor \cup {"none", "empty", "mixed"}]
  BY <1>2 DEF IInv, TypeOK
<1>8. opened' \in [Auditor -> Auditor \cup {"none"}] /\ disturbed' \in [Auditor -> BOOLEAN]
  BY <1>2 DEF IInv, TypeOK
<1>9. to \in AtLean \cup {"cleaned", "raised", "dead"}
  BY DEF AtLean
<1>10. QED
  BY <1>3, <1>4, <1>5, <1>6, <1>7, <1>8, <1>9, FileStep

LEMMA LeanAnswersKeeps == ASSUME IInv, NEW a \in Auditor, LeanAnswers(a) PROVE IInv'
<1> DEFINE held == file[job[a].dir]
<1>1. PICK ok \in Accepts(held.text) :
        /\ Move(a, "running", "answered")
        /\ lean' = [lean EXCEPT ![a] = IF ok THEN "LEAN_KERNEL_VERIFIED" ELSE "LEAN_VERIFICATION_FAILED"]
        /\ Find(a, IF ok THEN {} ELSE {"LEAN_VERIFICATION_FAILED"})
        /\ UNCHANGED <<job, extracted, matched, status, files>>
  BY DEF LeanAnswers
<1>2. findings' \in [Auditor -> SUBSET Codes]
  <2>1. Find(a, {}) \/ Find(a, {"LEAN_VERIFICATION_FAILED"})
    BY <1>1
  <2>2. QED
    BY <2>1, Founds DEF IInv, Codes
<1>3. stage[a] = "running"
  BY <1>1 DEF Move
<1>4. ~disturbed[a] => held.text = "none" \/ held.text = a
  BY <1>3 DEF IInv, FileIsOwn, NoFile
<1>5. /\ held.text = "none" => Accepts(held.text) = {FALSE}
      /\ held.text = a => Accepts(held.text) = {job[a].provable}
  BY AuditAssumption DEF Accepts
<1>6. /\ lean' \in [Auditor -> {"NOT_RUN", "LEAN_KERNEL_VERIFIED", "LEAN_VERIFICATION_FAILED",
                              "LEAN_UNAVAILABLE"}]
      /\ lean'[a] = "LEAN_KERNEL_VERIFIED" => ok
      /\ \A b \in Auditor : b # a => lean'[b] = lean[b]
  BY <1>1 DEF IInv, TypeOK
<1>7. lean'[a] = "LEAN_KERNEL_VERIFIED" /\ ~disturbed[a] => job[a].provable
  BY <1>1, <1>4, <1>5, <1>6
<1>8. QED
  BY <1>1, <1>2, <1>6, <1>7, FilesStay DEF AtLean

LEMMA LeanUnavailableKeeps == ASSUME IInv, NEW a \in Auditor, LeanUnavailable(a) PROVE IInv'
<1>1. findings' \in [Auditor -> SUBSET Codes]
  BY Founds DEF LeanUnavailable, IInv, Codes
<1>2. /\ lean' \in [Auditor -> {"NOT_RUN", "LEAN_KERNEL_VERIFIED", "LEAN_VERIFICATION_FAILED",
                              "LEAN_UNAVAILABLE"}]
      /\ lean'[a] = "LEAN_UNAVAILABLE" /\ \A b \in Auditor : b # a => lean'[b] = lean[b]
  BY DEF LeanUnavailable, IInv, TypeOK
<1>3. /\ Move(a, "running", "answered") /\ UNCHANGED <<job, extracted, matched, status, files>>
  BY DEF LeanUnavailable
<1>4. QED
  BY <1>1, <1>2, <1>3, FilesStay DEF AtLean

LEMMA CleanUpKeeps == ASSUME IInv, NEW a \in Auditor, CleanUp(a) PROVE IInv'
<1>1. PICK to \in {"cleaned", "removing"} :
        Move(a, "answered", to) /\ (to = "cleaned" => file[job[a].dir] = NoFile)
  BY DEF CleanUp
<1>2. UNCHANGED <<job, extracted, matched, findings, lean, status, files>>
  BY DEF CleanUp
<1>3. lean[a] = "LEAN_KERNEL_VERIFIED" /\ ~disturbed[a] => job[a].provable
  BY DEF IInv, ProofIsOwn
<1>4. QED
  BY <1>1, <1>2, <1>3, FilesStay DEF AtLean, IInv, TypeOK

\* The file goes, whoever made it.
LEMMA RemoveFileKeeps == ASSUME IInv, NEW a \in Auditor, RemoveFile(a) PROVE IInv'
<1> DEFINE d == job[a].dir
<1>1. PICK to \in {"cleaned", "raised"} : Move(a, "removing", to)
  BY DEF RemoveFile
<1>2. /\ file' = [file EXCEPT ![d] = NoFile]
      /\ UNCHANGED <<job, extracted, matched, findings, lean, status, opened, disturbed>>
  BY DEF RemoveFile
<1>3. /\ stage[a] = "removing" /\ stage'[a] = to
      /\ \A b \in Auditor : b # a => stage'[b] = stage[b]
  BY <1>1, Moves DEF IInv
<1>4. d \in DOMAIN file
  BY DEF IInv, TypeOK
<1>5. /\ DOMAIN file' = DOMAIN file /\ file' = [e \in DOMAIN file' |-> file'[e]]
      /\ file'[d] = NoFile /\ \A e \in DOMAIN file : e # d => file'[e] = file[e]
  BY <1>2, <1>4 DEF IInv, TypeOK
<1>6. FilesHaveOwners'
  <2> SUFFICES ASSUME NEW e \in DOMAIN file, file'[e] # NoFile
               PROVE  /\ file'[e].maker \in Auditor /\ job[file'[e].maker].dir = e
                      /\ stage'[file'[e].maker] \in AtLean \cup {"dead"}
    BY <1>2, <1>5 DEF FilesHaveOwners
  <2>1. e # d /\ file'[e] = file[e]
    BY <1>5
  <2>2. /\ file[e].maker \in Auditor /\ stage[file[e].maker] \in AtLean \cup {"dead"}
        /\ job[file[e].maker].dir = e
    BY <2>1 DEF IInv, FilesHaveOwners
  <2>3. QED
    BY <1>3, <2>1, <2>2
<1>7. FileIsOwn'
  <2>1. \A b \in Auditor : file'[job[b].dir] = NoFile \/ file'[job[b].dir] = file[job[b].dir]
    BY <1>5 DEF IInv, TypeOK
  <2>2. QED
    BY <1>2, <1>3, <2>1 DEF IInv, FileIsOwn
<1>8. ProofIsOwn'
  BY <1>2 DEF IInv, ProofIsOwn
<1>9. \A e \in DOMAIN file :
        file'[e] \in [maker : Auditor \cup {"none"}, text : Auditor \cup {"none", "empty", "mixed"}]
  BY <1>5 DEF IInv, TypeOK, NoFile
<1>10. QED
  BY <1>1, <1>2, <1>5, <1>6, <1>7, <1>8, <1>9, FileStep DEF AtLean, IInv, TypeOK

LEMMA ReportKeeps == ASSUME IInv, NEW a \in Auditor, Report(a) PROVE IInv'
<1>1. /\ stage[a] = "cleaned" /\ stage'[a] = "done"
      /\ \A b \in Auditor : b # a => stage'[b] = stage[b]
  BY Moves DEF Report, IInv
<1>2. /\ status' = [status EXCEPT ![a] = Verdict(a)] /\ stage' = [stage EXCEPT ![a] = "done"]
      /\ UNCHANGED <<job, extracted, matched, findings, lean, files>>
  BY DEF Report, Move
<1>3. Verdict(a) \in {"PASS", "PASS_WITH_FINDINGS", "FAIL"}
  BY DEF Verdict
<1>4. TypeOK'
  BY <1>2, <1>3 DEF IInv, TypeOK, Ends, files
<1>5. FilesHaveOwners' /\ FileIsOwn' /\ ProofIsOwn'
  BY <1>1, <1>2 DEF IInv, TypeOK, FilesHaveOwners, FileIsOwn, AtLean, ProofIsOwn, files
<1>6. VerdictStands'
  <2>1. /\ status'[a] = Verdict(a)
        /\ \A b \in Auditor : b # a => status'[b] = status[b]
    BY <1>2 DEF IInv, TypeOK
  <2>2. Verdict(a) # "FAIL" /\ job[a].mode = "STRICT" =>
          matched[a] # {} /\ lean[a] = "LEAN_KERNEL_VERIFIED"
    BY DEF Verdict
  <2>3. QED
    BY <1>1, <1>2, <2>1, <2>2 DEF IInv, VerdictStands
<1>7. QED
  BY <1>4, <1>5, <1>6 DEF IInv

\* A killed audit leaves its file; the next one of the directory overwrites it.
LEMMA DieKeeps == ASSUME IInv, NEW a \in Auditor, Die(a) PROVE IInv'
<1>1. stage[a] \in AtLean /\ Move(a, stage[a], "dead")
      /\ UNCHANGED <<job, extracted, matched, findings, lean, status, files>>
  BY DEF Die
<1>2. lean[a] = "LEAN_KERNEL_VERIFIED" /\ ~disturbed[a] => job[a].provable
  BY DEF IInv, ProofIsOwn
<1>3. QED
  BY <1>1, <1>2, FilesStay DEF IInv, TypeOK

\* IInv is an inductive invariant of the audits, which overlap as they like.
LEMMA Invariance == Spec => []IInv
<1>1. Init => IInv
  BY InitEstablishes
<1>2. IInv /\ [Next]_vars => IInv'
  <2> SUFFICES ASSUME IInv, [Next]_vars PROVE IInv'
    OBVIOUS
  <2>1. CASE UNCHANGED vars
    BY <2>1 DEF vars, files, IInv, TypeOK, FilesHaveOwners, FileIsOwn, ProofIsOwn, VerdictStands
  <2>2. CASE Next
    BY <2>2, TranslateKeeps, CompareKeeps, GenerateKeeps, OpenFileKeeps, StartLeanKeeps,
       LeanAnswersKeeps, LeanUnavailableKeeps, CleanUpKeeps, RemoveFileKeeps, ReportKeeps, DieKeeps DEF Next
  <2>3. QED
    BY <2>1, <2>2
<1>3. QED
  BY <1>1, <1>2, PTL DEF Spec
-----------------------------------------------------------------------------
(***************************************************************************)
(* The theorems.                                                           *)
(***************************************************************************)
\* Stages, answers of Lean, verdicts and files keep their types, and nobody else's job,
\* translation or comparison is touched.
THEOREM TypeCorrect == Spec => []TypeOK
<1>1. IInv => TypeOK
  BY DEF IInv
<1>2. QED
  BY <1>1, Invariance, PTL

\* However many audits of a directory overlap, are killed, leave their certificate file or
\* remove each other's, and whether Lean is missing, late or quick: a strict audit passes
\* only on a match and on the proof of its own theorem, unless another opened or wrote the
\* file between its own opening and Lean's answer.
THEOREM StrictPassStaysOwn == Spec => []StrictPassIsOwn
<1>1. IInv => StrictPassIsOwn
  BY DEF IInv, VerdictStands, ProofIsOwn, StrictPassIsOwn
<1>2. QED
  BY <1>1, Invariance, PTL

\* Audits that all come to an end without being killed leave no certificate file, and
\* neither do those that end with an exception, although each removes the file of any other.
THEOREM NothingStaysBehind == Spec => []NothingLeftBehind
<1>1. IInv => NothingLeftBehind
  <2> SUFFICES ASSUME IInv, \A a \in Auditor : stage[a] \in {"done", "raised"},
                      NEW d \in DOMAIN file, file[d] # NoFile
               PROVE  FALSE
    BY DEF NothingLeftBehind
  <2>1. file[d].maker \in Auditor /\ stage[file[d].maker] \in AtLean \cup {"dead"}
    BY DEF IInv, FilesHaveOwners
  <2>2. QED
    BY <2>1 DEF AtLean
<1>2. QED
  BY <1>1, Invariance, PTL
=============================================================================
