---------------------------- MODULE AuditProcess ----------------------------
(***************************************************************************)
(* audit_python: one function is translated, compared with its registered  *)
(* theory, and the equality is given to Lean in a certificate file.  Each  *)
(* audit is a process of its own; audits of one directory share the name   *)
(* of the file and nothing keeps them apart.                               *)
(* What the translation and the comparison compute is a parameter.         *)
(***************************************************************************)
CONSTANTS
  Auditor,
  Workload,            \* what may be asked of the audits: a set of functions
                       \* from the auditors to their requests
  Translation(_),      \* what extract_output finds for a request
  Renaming(_, _),      \* the renaming that compares a request's theory with an
                       \* expression, a set of at most one
  ComparisonRaises(_), \* the comparison of an expression ends with an exception
  Expressible(_)       \* generate_lean has a text for an expression

ASSUME AuditAssumption == Auditor \cap {"none", "empty", "mixed"} = {}

VARIABLES
  job,       \* the request of each audit
  stage,     \* how far it is
  extracted, \* what was extracted
  matched,   \* the renaming found, a set of at most one
  findings,  \* the diagnostics
  lean,      \* lean_result's status
  status,    \* the result's
  file,      \* directory -> the audit that made the certificate file, and the audit
             \* whose text it holds, or that it is "empty" or "mixed"
  opened,    \* the file that each audit writes to, named by the audit that made it
  disturbed  \* history: another audit of the directory has opened or written the file
             \* since this one opened it and before Lean answered

files == <<file, opened, disturbed>>
vars == <<job, stage, extracted, matched, findings, lean, status, files>>

Modes    == {"STRICT", "REPORT_ONLY"}
NoTheory == [target |-> "none"]
Idle     == [dir |-> "none"]        \* no request
Nothing  == [ir |-> [op |-> "None"], status |-> "none"]
NoFile   == [maker |-> "none", text |-> "none"]
Ends     == {"done", "raised", "dead"}
AtLean   == {"writing", "running", "answered", "removing"}

Codes ==
  {"EXPRESSION_PARTIALLY_EXTRACTED", "THEORY_NOT_REGISTERED", "THEORY_IMPLEMENTATION_MISMATCH",
   "LEAN_VERIFICATION_FAILED", "LEAN_UNAVAILABLE"}

TypeOK ==
  /\ job \in Workload
  /\ stage \in [Auditor -> {"read", "extracted", "compared", "ready", "cleaned"}
                             \cup AtLean \cup Ends]
  /\ DOMAIN extracted = Auditor /\ DOMAIN matched = Auditor
  /\ findings \in [Auditor -> SUBSET Codes]
  /\ lean \in [Auditor -> {"NOT_RUN", "LEAN_KERNEL_VERIFIED", "LEAN_VERIFICATION_FAILED",
                           "LEAN_UNAVAILABLE"}]
  /\ status \in [Auditor -> {"none", "PASS", "PASS_WITH_FINDINGS", "FAIL"}]
  /\ file \in [{job[a].dir : a \in Auditor} ->
                  [maker : Auditor \cup {"none"}, text : Auditor \cup {"none", "empty", "mixed"}]]
  /\ opened \in [Auditor -> Auditor \cup {"none"}] /\ disturbed \in [Auditor -> BOOLEAN]

Init ==
  /\ job \in Workload
  /\ stage = [a \in Auditor |-> IF job[a] = Idle THEN "done" ELSE "read"]
  /\ extracted = [a \in Auditor |-> Nothing]
  /\ matched = [a \in Auditor |-> {}]
  /\ findings = [a \in Auditor |-> {}]
  /\ lean = [a \in Auditor |-> "NOT_RUN"]
  /\ status = [a \in Auditor |-> "none"]
  /\ file = [d \in {job[a].dir : a \in Auditor} |-> NoFile]
  /\ opened = [a \in Auditor |-> "none"] /\ disturbed = [a \in Auditor |-> FALSE]

Move(a, from, to) == stage[a] = from /\ stage' = [stage EXCEPT ![a] = to]
Find(a, codes) == findings' = [findings EXCEPT ![a] = @ \cup codes]

Translate(a) ==
  /\ stage[a] = "read"
  /\ \E e \in {Translation(job[a])} :
       /\ Move(a, "read", IF e.status = "PYTHON_OUTPUT_NOT_FOUND" THEN "raised" ELSE "extracted")
       /\ extracted' = [extracted EXCEPT ![a] = e]
       /\ Find(a, IF e.status = "EXPRESSION_PARTIALLY_EXTRACTED" THEN {e.status} ELSE {})
  /\ UNCHANGED <<job, matched, lean, status, files>>

Compare(a) ==
  LET j == job[a]
      m == Renaming(j, extracted[a].ir)
  IN  /\ stage[a] = "extracted"
      /\ \/ /\ j.theory = NoTheory
            /\ Move(a, "extracted", "compared")
            /\ Find(a, {"THEORY_NOT_REGISTERED"})
            /\ UNCHANGED matched
         \/ /\ j.theory # NoTheory /\ ComparisonRaises(extracted[a].ir)
            /\ Move(a, "extracted", "raised")
            /\ UNCHANGED <<matched, findings>>
         \/ /\ j.theory # NoTheory /\ ~ComparisonRaises(extracted[a].ir)
            /\ Move(a, "extracted", "compared")
            /\ matched' = [matched EXCEPT ![a] = m]
            /\ Find(a, IF m = {} THEN {"THEORY_IMPLEMENTATION_MISMATCH"} ELSE {})
      /\ UNCHANGED <<job, extracted, lean, status, files>>

\* Lean's text is made when the sides match, and only for some expressions.
Generate(a) ==
  LET raises == matched[a] # {} /\
                ~Expressible(extracted[a].ir)
  IN  /\ Move(a, "compared", IF raises THEN "raised"
                             ELSE IF matched[a] # {} /\ job[a].verify THEN "ready"
                             ELSE "cleaned")
      /\ UNCHANGED <<job, extracted, matched, findings, lean, status, files>>

\* What a does to the file meets the audits that have it open or have Lean read it.
Disturb(a) ==
  disturbed' = [b \in Auditor |->
    \/ disturbed[b]
    \/ b # a /\ job[b].dir = job[a].dir /\ stage[b] \in {"writing", "running"}]

\* The file is made, or emptied if there is one.
OpenFile(a) ==
  LET d == job[a].dir
      maker == IF file[d] = NoFile THEN a ELSE file[d].maker
  IN  /\ Move(a, "ready", "writing")
      /\ file' = [file EXCEPT ![d] = [maker |-> maker, text |-> "empty"]]
      /\ opened' = [opened EXCEPT ![a] = maker]
      /\ Disturb(a)
      /\ UNCHANGED <<job, extracted, matched, findings, lean, status>>

\* The text is written and Lean is started.  A file that was removed meanwhile has no name
\* any more; over another text a shorter one leaves the rest of it.
StartLean(a) ==
  LET d == job[a].dir
      texts == IF file[d].text = "empty" THEN {a} ELSE {a, "mixed"}
  IN  /\ Move(a, "writing", "running")
      /\ \/ file[d].maker # opened[a] /\ UNCHANGED file
         \/ file[d].maker = opened[a] /\ \E text \in texts : file' = [file EXCEPT ![d].text = text]
      /\ Disturb(a)
      /\ UNCHANGED <<job, extracted, matched, findings, lean, status, opened>>

\* Lean checks what the file holds when it reads it, which may prove or not.  It has
\* nothing against an empty file.
Accepts(text) ==
  CASE text \in Auditor -> {job[text].provable}
    [] text = "empty" -> {TRUE}
    [] text = "mixed" -> BOOLEAN
    [] text = "none" -> {FALSE}
LeanAnswers(a) ==
  \E ok \in Accepts(file[job[a].dir].text) :
    /\ Move(a, "running", "answered")
    /\ lean' = [lean EXCEPT ![a] = IF ok THEN "LEAN_KERNEL_VERIFIED"
                                   ELSE "LEAN_VERIFICATION_FAILED"]
    /\ Find(a, IF ok THEN {} ELSE {"LEAN_VERIFICATION_FAILED"})
    /\ UNCHANGED <<job, extracted, matched, status, files>>

\* Not installed, or no answer within the timeout.
\* Mutant: no timeout, Lean is unavailable only if it finds nothing to check.
LeanUnavailableMissing(a) ==
  /\ file[job[a].dir] = NoFile
  /\ Move(a, "running", "answered")
  /\ lean' = [lean EXCEPT ![a] = "LEAN_UNAVAILABLE"]
  /\ Find(a, {"LEAN_UNAVAILABLE"})
  /\ UNCHANGED <<job, extracted, matched, status, files>>
LeanUnavailable(a) ==
  /\ Move(a, "running", "answered")
  /\ lean' = [lean EXCEPT ![a] = "LEAN_UNAVAILABLE"]
  /\ Find(a, {"LEAN_UNAVAILABLE"})
  /\ UNCHANGED <<job, extracted, matched, status, files>>

\* The finally clause looks for the file and removes it, whoever wrote it.  One that
\* went meanwhile ends the audit with an exception.
\* Mutant: the certificate is removed after an answer only.
CleanUpAnswered(a) ==
  LET nothing == file[job[a].dir] = NoFile \/ lean[a] = "LEAN_UNAVAILABLE"
  IN  /\ Move(a, "answered", IF nothing THEN "cleaned" ELSE "removing")
      /\ UNCHANGED <<job, extracted, matched, findings, lean, status, files>>
CleanUp(a) ==
  /\ Move(a, "answered", IF file[job[a].dir] = NoFile THEN "cleaned" ELSE "removing")
  /\ UNCHANGED <<job, extracted, matched, findings, lean, status, files>>
RemoveFile(a) ==
  /\ Move(a, "removing", IF file[job[a].dir] = NoFile THEN "raised" ELSE "cleaned")
  /\ file' = [file EXCEPT ![job[a].dir] = NoFile]
  /\ UNCHANGED <<job, extracted, matched, findings, lean, status, opened, disturbed>>

\* Mutant: an audit that could not run Lean is not failed for it.
VerdictUnverified(a) ==
  LET failed == matched[a] = {} \/ lean[a] = "LEAN_VERIFICATION_FAILED"
  IN  IF job[a].mode = "STRICT" /\ failed THEN "FAIL"
      ELSE IF findings[a] # {} THEN "PASS_WITH_FINDINGS" ELSE "PASS"
Verdict(a) ==
  LET failed == matched[a] = {} \/ lean[a] # "LEAN_KERNEL_VERIFIED"
  IN  IF job[a].mode = "STRICT" /\ failed THEN "FAIL"
      ELSE IF findings[a] # {} THEN "PASS_WITH_FINDINGS" ELSE "PASS"

Report(a) ==
  /\ Move(a, "cleaned", "done")
  /\ status' = [status EXCEPT ![a] = Verdict(a)]
  /\ UNCHANGED <<job, extracted, matched, findings, lean, files>>

\* The process is killed; the file stays.
Die(a) ==
  /\ stage[a] \in AtLean
  /\ Move(a, stage[a], "dead")
  /\ UNCHANGED <<job, extracted, matched, findings, lean, status, files>>

Next ==
  \E a \in Auditor :
    \/ Translate(a) \/ Compare(a) \/ Generate(a) \/ OpenFile(a) \/ StartLean(a) \/ LeanAnswers(a)
    \/ LeanUnavailable(a) \/ CleanUp(a) \/ RemoveFile(a) \/ Report(a) \/ Die(a)

\* Lean is given up after its timeout, nothing else makes it answer; after that the
\* audit goes on by itself.
Fairness ==
  \A a \in Auditor : WF_vars(LeanUnavailable(a)) /\ WF_vars(CleanUp(a) \/ RemoveFile(a) \/ Report(a))

Spec == Init /\ [][Next]_vars /\ Fairness
-----------------------------------------------------------------------------
(***************************************************************************)
(* Properties.                                                             *)
(***************************************************************************)
\* A strict audit passes only on a match, and only if Lean proved the theorem of this very
\* audit, or another audit opened or wrote the certificate file of the directory between
\* the moment this one opened it and Lean's answer: what others did before, leave behind
\* when they are killed, or remove at any time cannot make it pass.
StrictPassIsOwn ==
  \A a \in Auditor :
    status[a] \in {"PASS", "PASS_WITH_FINDINGS"} /\ job[a].mode = "STRICT" =>
      matched[a] # {} /\ (job[a].provable \/ disturbed[a])

\* When no audit is at work and none was killed, no certificate file is left, although each
\* audit removes the file of any other.
NothingLeftBehind ==
  (\A a \in Auditor : stage[a] \in {"done", "raised"}) => \A d \in DOMAIN file : file[d] = NoFile

\* An audit that has started Lean comes to an end, whatever Lean does.
AuditEnds == \A a \in Auditor : stage[a] = "running" ~> stage[a] \in Ends
=============================================================================
