--------------------------- MODULE JiraIssuesProofs ---------------------------
(***************************************************************************)
(* Proofs about JiraIssues, for any workflow, any bounds on the steps and  *)
(* any number of images.                                                   *)
(***************************************************************************)
EXTENDS JiraIssues, TLAPS

(* A step count is kept below its bound, which is within the module's.      *)
LEMMA StepsBounded ==
  ASSUME NEW value \in 0 .. MostSteps + 1
  PROVE  boundedTransitionSteps(value) \in 1 .. MostSteps
  BY TransitionWalkAssumption DEF boundedTransitionSteps

AppliedIds == [k \in DOMAIN applied |-> applied[k].id]

(* What a walk knows: the status it read was the issue's at some time, what  *)
(* it counts is what it will report and what Jira did, and it chooses only  *)
(* below its bound.                                                         *)
WalkKnows ==
  /\ issue \in visited
  /\ walk # "ended" => outcome = "none"
  /\ walk \in {"options", "choose", "post"} => read.status \in visited
  /\ walk = "confirm" => current = asked.target /\ current \in visited
  /\ walk \in {"choose", "post"} => steps < boundedTransitionSteps(asked.max)
  /\ walk \in {"post", "readback"} => chosen \in Transitions

(* An error may have cost the last reply; nothing else does. *)
WalkCounts ==
  /\ Len(applied) = steps
  /\ steps <= boundedTransitionSteps(asked.max)
  /\ outcome # "error" => done = AppliedIds
  /\ outcome = "error" =>
       Len(done) = steps \/ (Len(done) = steps + 1 /\ steps < boundedTransitionSteps(asked.max))

WalkInv == WalkTypeOK /\ WalkKnows /\ WalkCounts /\ ReachedWhenSaid

(* The images: until something fails, each upload made an attachment. *)
ImagesKnow ==
  /\ write = "create" =>
       kind = "create" /\ created = "unknown" /\ uploads = 0 /\ links = 0 /\ attached = 0 /\ text = NoText
  /\ write = "upload" =>
       /\ attached = uploads
       /\ kind = "create" => created = "keyed" /\ text = Text(0)
       /\ kind = "text" => text = NoText
  /\ write # "ended" => written = "none"

ImagesInv == ImagesTypeOK /\ ImagesKnow /\ CreatedIsSaid /\ TextWhole

IInv == operation \in {"transition", "write"} /\ WalkInv /\ ImagesInv

-----------------------------------------------------------------------------
LEMMA InitWalk == WalkInit => WalkInv
<1> SUFFICES ASSUME WalkInit PROVE WalkInv
  OBVIOUS
<1> USE TransitionWalkAssumption DEF WalkInit
<1>1. asked \in Requests /\ boundedTransitionSteps(asked.max) \in 1 .. MostSteps
  <2>1. asked \in Requests
    OBVIOUS
  <2>2. asked.max \in 0 .. MostSteps + 1
    BY <2>1 DEF Requests
  <2> QED
    BY <2>1, <2>2, StepsBounded
<1>2. WalkTypeOK
  BY <1>1 DEF WalkTypeOK
<1>3. done = AppliedIds
  BY DEF AppliedIds
<1> QED
  BY <1>1, <1>2, <1>3 DEF WalkInv, WalkKnows, WalkCounts, ReachedWhenSaid

LEMMA InitImages == ImagesInit => ImagesInv
<1> SUFFICES ASSUME ImagesInit PROVE ImagesInv
  OBVIOUS
<1> USE IssueImagesAssumption DEF ImagesInit
<1>1. ImagesTypeOK
  <2>1. images \in Nat /\ 0 \in 0 .. images /\ 0 \in 0 .. 0
    OBVIOUS
  <2>2. NoText \in [exists : BOOLEAN, links : 0 .. images]
    BY <2>1 DEF NoText
  <2> QED
    BY <2>1, <2>2, Zenon DEF ImagesTypeOK
<1>2. ImagesKnow
  BY DEF ImagesKnow
<1>3. CreatedIsSaid /\ TextWhole
  BY DEF CreatedIsSaid, TextWhole, NoText
<1> QED
  BY <1>1, <1>2, <1>3 DEF ImagesInv

(* Appending the transition Jira made to both accounts keeps them alike. *)
LEMMA SameAccount ==
  ASSUME NEW s \in Seq(Transitions), NEW d \in Seq(Ids), NEW t \in Transitions,
         d = [k \in DOMAIN s |-> s[k].id]
  PROVE  Append(d, t.id) = [k \in DOMAIN Append(s, t) |-> Append(s, t)[k].id]
<1>1. DOMAIN s = 1 .. Len(s) /\ Len(s) \in Nat /\ Len(d) = Len(s)
  OBVIOUS
<1>2. DOMAIN Append(s, t) = 1 .. Len(s) + 1 /\ DOMAIN Append(d, t.id) = 1 .. Len(s) + 1
  BY <1>1 DEF Ids
<1>3. ASSUME NEW k \in 1 .. Len(s) + 1 PROVE Append(d, t.id)[k] = Append(s, t)[k].id
  <2>1. CASE k = Len(s) + 1
    BY <1>1, <2>1 DEF Ids
  <2>2. CASE k \in 1 .. Len(s)
    BY <1>1, <2>2 DEF Ids
  <2> QED
    BY <1>1, <2>1, <2>2
<1>4. Append(d, t.id) \in Seq(Ids)
  BY DEF Ids
<1> QED
  BY <1>2, <1>3, <1>4

(* The walk's own steps, and other people's, keep what it knows. *)
LEMMA WalkStep == WalkInv /\ [WalkNext]_walkVars => WalkInv'
<1> SUFFICES ASSUME WalkInv, [WalkNext]_walkVars PROVE WalkInv'
  OBVIOUS
<1> USE TransitionWalkAssumption
<1>0. /\ asked \in Requests /\ asked.max \in 0 .. MostSteps + 1
      /\ boundedTransitionSteps(asked.max) \in 1 .. MostSteps
      /\ asked.target \in Statuses \cup {"none"} /\ asked.auto \in BOOLEAN
      /\ steps \in Nat
  <2>1. asked \in Requests /\ steps \in Nat
    BY DEF WalkInv, WalkTypeOK
  <2>2. asked.max \in 0 .. MostSteps + 1 /\ asked.target \in Statuses \cup {"none"} /\ asked.auto \in BOOLEAN
    BY <2>1 DEF Requests
  <2> QED
    BY <2>1, <2>2, StepsBounded
<1>00. ASSUME NEW s \in Statuses, NEW t \in Workflow[s]
       PROVE  t \in Transitions /\ t.to \in Statuses /\ t.id \in Ids
  BY <1>00 DEF Ids, Statuses
<1>1. CASE UNCHANGED walkVars
  BY <1>1 DEF walkVars, WalkInv, WalkTypeOK, WalkKnows, WalkCounts, ReachedWhenSaid, AppliedIds
<1>2. CASE WalkFails
  <2>1. done' = done /\ applied' = applied /\ steps' = steps /\ outcome' = "error" /\ walk' = "ended"
    BY <1>2 DEF WalkFails, Returns, jiraVars
  <2>2. outcome = "none" /\ Len(done) = steps
    BY <1>2 DEF WalkFails, WalkInv, WalkKnows, WalkCounts, AppliedIds, WalkTypeOK
  <2> QED
    BY <1>0, <1>2, <2>1, <2>2
       DEF WalkFails, jiraVars, WalkInv, WalkTypeOK, WalkKnows, WalkCounts, ReachedWhenSaid, AppliedIds
<1>3. CASE ReadStatus
  <2>1. read' = [read EXCEPT !.status = issue] /\ read'.status = issue
    BY <1>3 DEF ReadStatus, WalkInv, WalkTypeOK
  <2>2. issue \in visited'
    BY <1>3 DEF ReadStatus, jiraVars, WalkInv, WalkKnows
  <2> QED
    BY <1>0, <1>3, <2>1
       DEF ReadStatus, jiraVars, WalkInv, WalkTypeOK, WalkKnows, WalkCounts, ReachedWhenSaid, AppliedIds
<1>4. CASE ReadOptions
  <2>1. /\ read' = [read EXCEPT !.options = Workflow[issue]] /\ walk = "options"
        /\ current' = read.status
        /\ UNCHANGED <<asked, chosen, steps, tried, applied, issue, done, visited>>
    BY <1>4 DEF ReadOptions, jiraVars
  <2>2. /\ read' \in [status : Statuses \cup {"none"}, options : SUBSET Transitions]
        /\ read'.status = read.status /\ read.status \in Statuses \cup {"none"}
        /\ read.status \in visited
    <3>1. issue \in Statuses /\ Workflow[issue] \in SUBSET Transitions
      BY DEF WalkInv, WalkTypeOK
    <3> QED
      BY <2>1, <3>1 DEF WalkInv, WalkTypeOK, WalkKnows
  <2>3. outcome = "none" /\ steps <= boundedTransitionSteps(asked.max)
    BY <2>1 DEF WalkInv, WalkKnows, WalkCounts
  <2>4. \/ walk' = "confirm" /\ outcome' = outcome /\ asked.target = read.status
        \/ walk' = "ended" /\ outcome' = "ok" /\ (asked.target = read.status \/ ~asked.auto)
        \/ walk' = "choose" /\ outcome' = outcome /\ steps < boundedTransitionSteps(asked.max)
        \/ walk' = "ended" /\ outcome' = "error"
    BY <1>4 DEF ReadOptions, Arrived, Returns
  <2>5. WalkTypeOK'
    BY <2>1, <2>2, <2>3, <2>4 DEF WalkInv, WalkTypeOK
  <2>6. WalkKnows' /\ ReachedWhenSaid'
    BY <2>1, <2>2, <2>3, <2>4 DEF WalkInv, WalkKnows, ReachedWhenSaid
  <2>7. WalkCounts'
    <3>1. done = AppliedIds /\ Len(done) = steps /\ Len(applied) = steps
      BY <2>3 DEF WalkInv, WalkCounts, AppliedIds, WalkTypeOK
    <3>2. AppliedIds' = AppliedIds
      BY <2>1 DEF AppliedIds
    <3> QED
      BY <2>1, <2>3, <2>4, <3>1, <3>2 DEF WalkCounts
  <2> QED
    BY <2>5, <2>6, <2>7 DEF WalkInv
<1>5. CASE Confirm
  BY <1>0, <1>5 DEF Confirm, Returns, jiraVars, WalkInv, WalkTypeOK, WalkKnows, WalkCounts,
     ReachedWhenSaid, AppliedIds
<1>6. CASE Choose
  <2>1. /\ walk = "choose" /\ walk' \in {"post", "ended"} /\ (walk' = "post" => outcome' = outcome)
        /\ walk' = "ended" => outcome' = "error"
        /\ UNCHANGED <<asked, read, steps, applied, current, issue, done, visited>>
    BY <1>6 DEF Choose, Returns, jiraVars
  <2>2. Selected \subseteq Transitions
    BY <1>0 DEF Selected, Intermediate, WalkInv, WalkTypeOK, Requests
  <2>3. /\ chosen' \in Transitions \cup {NoTransition} /\ tried' \in SUBSET Transitions
        /\ walk' = "post" => chosen' \in Transitions
    BY <1>6, <2>2 DEF Choose, Returns, WalkInv, WalkTypeOK
  <2>4. done = AppliedIds /\ Len(done) = steps /\ AppliedIds' = AppliedIds /\ outcome = "none"
    BY <2>1 DEF WalkInv, WalkKnows, WalkCounts, AppliedIds, WalkTypeOK
  <2> QED
    BY <1>0, <2>1, <2>3, <2>4 DEF WalkInv, WalkTypeOK, WalkKnows, WalkCounts, ReachedWhenSaid
<1>7. CASE Post
  <2>1. PICK t \in Workflow[issue] :
          /\ t.id = chosen.id /\ issue' = t.to /\ visited' = visited \cup {t.to}
          /\ done' = Append(done, t.id)
    BY <1>7 DEF Post, Move
  <2>2. /\ walk = "post" /\ UNCHANGED <<asked, read, chosen, tried, current>>
        /\ \/ walk' = "readback" /\ outcome' = outcome /\ steps' = steps + 1
              /\ applied' = Append(applied, chosen)
           \/ walk' = "ended" /\ outcome' = "error" /\ steps' = steps /\ applied' = applied
    BY <1>7 DEF Post, Returns
  <2>3. /\ issue \in Statuses /\ t.to \in Statuses /\ t.id \in Ids
        /\ chosen \in Transitions /\ outcome = "none" /\ steps < boundedTransitionSteps(asked.max)
    BY <1>00, <2>1, <2>2 DEF WalkInv, WalkTypeOK, WalkKnows
  <2>4. /\ applied \in Seq(Transitions) /\ done \in Seq(Ids) /\ done = AppliedIds
        /\ Len(done) = steps /\ Len(applied) = steps
    BY <2>3 DEF WalkInv, WalkTypeOK, WalkCounts, AppliedIds
  <2>5. Len(done') = steps + 1 /\ done' \in Seq(Ids) /\ Append(applied, chosen) \in Seq(Transitions)
        /\ Len(Append(applied, chosen)) = steps + 1
    BY <2>1, <2>3, <2>4
  <2>6. walk' = "readback" => done' = AppliedIds'
    BY <2>1, <2>2, <2>3, <2>4, SameAccount DEF AppliedIds
  <2>7. WalkTypeOK'
    <3>1. steps' \in 0 .. MostSteps
      <4>1. steps' = steps \/ steps' = steps + 1
        BY <2>2
      <4> QED
        BY <1>0, <2>3, <4>1
    <3>3. applied' \in Seq(Transitions)
      BY <2>2, <2>4, <2>5
    <3>2. visited' \in SUBSET Statuses /\ issue' \in Statuses
      BY <2>1, <2>3 DEF WalkInv, WalkTypeOK
    <3> QED
      BY <1>0, <2>2, <2>5, <3>1, <3>2, <3>3 DEF WalkInv, WalkTypeOK
  <2>8. WalkKnows'
    BY <2>1, <2>2, <2>3 DEF WalkInv, WalkKnows
  <2>9. WalkCounts'
    BY <1>0, <2>2, <2>3, <2>4, <2>5, <2>6 DEF WalkCounts
  <2>10. ReachedWhenSaid'
    BY <2>2, <2>3 DEF ReachedWhenSaid
  <2> QED
    BY <2>7, <2>8, <2>9, <2>10 DEF WalkInv
<1>8. CASE ReadBack
  <2>1. /\ walk = "readback" /\ current' \in {issue, current}
        /\ \/ walk' = "ended" /\ outcome' = "ok" /\ asked.target = "none"
           \/ walk' = "status" /\ outcome' = outcome
        /\ UNCHANGED <<asked, read, chosen, steps, tried, applied, issue, done, visited>>
    BY <1>8 DEF ReadBack, Returns, jiraVars
  <2>2. outcome = "none"
    BY <2>1 DEF WalkInv, WalkKnows
  <2>3. AppliedIds' = AppliedIds
    BY <2>1 DEF AppliedIds
  <2>4. WalkTypeOK'
    BY <2>1, <2>2 DEF WalkInv, WalkTypeOK
  <2>5. WalkKnows' /\ ReachedWhenSaid'
    BY <2>1, <2>2 DEF WalkInv, WalkKnows, ReachedWhenSaid
  <2>6. WalkCounts'
    BY <2>1, <2>2, <2>3 DEF WalkInv, WalkCounts
  <2> QED
    BY <2>4, <2>5, <2>6 DEF WalkInv
<1>9. CASE OthersMove
  <2>1. PICK t \in Workflow[issue] : issue' = t.to /\ visited' = visited \cup {t.to}
    BY <1>9 DEF OthersMove, Move
  <2>2. UNCHANGED <<walk, asked, read, chosen, steps, tried, applied, current, outcome, done>>
    BY <1>9 DEF OthersMove
  <2>3. issue \in Statuses /\ t.to \in Statuses
    BY <1>00, <2>1 DEF WalkInv, WalkTypeOK
  <2>4. AppliedIds' = AppliedIds
    BY <2>2 DEF AppliedIds
  <2> QED
    BY <2>1, <2>2, <2>3, <2>4 DEF WalkInv, WalkTypeOK, WalkKnows, WalkCounts, ReachedWhenSaid
<1> QED
  BY <1>1, <1>2, <1>3, <1>4, <1>5, <1>6, <1>7, <1>8, <1>9 DEF WalkNext

(* Uploads and the text keep what the operation on images knows. *)
LEMMA ImagesStep == ImagesInv /\ [ImagesNext]_imageVars => ImagesInv'
<1> SUFFICES ASSUME ImagesInv, [ImagesNext]_imageVars PROVE ImagesInv'
  OBVIOUS
<1> USE IssueImagesAssumption DEF ImagesInv, ImagesTypeOK
<1>0. /\ images \in Nat /\ uploads \in Nat /\ links \in Nat /\ attached \in Nat
      /\ links <= images /\ uploads <= images
      /\ NoText \in [exists : BOOLEAN, links : 0 .. images]
      /\ \A n \in 0 .. images : Text(n) \in [exists : BOOLEAN, links : 0 .. images]
      /\ \A n \in Nat : Text(n).exists /\ Text(n).links = n
      /\ ~NoText.exists
  BY DEF Text, NoText
<1>1. CASE UNCHANGED imageVars
  BY <1>1 DEF imageVars, ImagesKnow, CreatedIsSaid, TextWhole
<1>2. CASE CreateIssue
  <2>1. /\ kind = "create" /\ created = "unknown" /\ uploads = 0 /\ links = 0 /\ attached = 0 /\ written = "none"
        /\ UNCHANGED <<kind, images, uploads, links, attached>>
    BY <1>2 DEF CreateIssue, ImagesKnow
  <2>2. \/ text' = Text(0) /\ created' = "keyed" /\ write' = "upload" /\ written' = written
        \/ text' = Text(0) /\ created' = "keyless" /\ write' = "ended" /\ written' = "ok"
        \/ text' \in {NoText, Text(0)} /\ write' = "ended" /\ written' = "error" /\ created' = created
    BY <1>2 DEF CreateIssue, Says
  <2>3. text' \in [exists : BOOLEAN, links : 0 .. images]
    BY <1>0, <2>2
  <2>4. /\ write' \in {"create", "upload", "ended"} /\ created' \in {"unknown", "keyless", "keyed"}
        /\ written' \in {"none", "ok", "warning", "error"}
    BY <2>1, <2>2
  <2>5. ImagesTypeOK'
    BY <2>1, <2>3, <2>4
  <2>6. ImagesKnow'
    BY <2>1, <2>2 DEF ImagesKnow
  <2>7. CreatedIsSaid' /\ TextWhole'
    BY <2>1, <2>2 DEF CreatedIsSaid, TextWhole
  <2> QED
    BY <2>5, <2>6, <2>7
<1>3. CASE Upload
  BY <1>0, <1>3 DEF Upload, UploadFailed, Says, ImagesKnow, CreatedIsSaid, TextWhole
<1>4. CASE WriteText
  <2>1. kind = "create" /\ links = 0 => text = Text(links)
    BY <1>0, <1>4 DEF WriteText, ImagesKnow
  <2>2. /\ write' = "ended" /\ UNCHANGED <<kind, images, uploads, links, created, attached>>
        /\ uploads = images /\ attached = images /\ (kind = "create" => created = "keyed")
        /\ text' \in {text, Text(links)}
        /\ written' \in {"ok", IF kind = "create" THEN "warning" ELSE "error"}
        /\ written' = "ok" => text' = Text(links)
    BY <1>4, <2>1 DEF WriteText, UploadFailed, Says, ImagesKnow
  <2>3. kind = "text" => ~text.exists
    BY <1>0, <1>4 DEF WriteText, ImagesKnow
  <2> QED
    BY <1>0, <2>2, <2>3 DEF ImagesKnow, CreatedIsSaid, TextWhole
<1> QED
  BY <1>1, <1>2, <1>3, <1>4 DEF ImagesNext

-----------------------------------------------------------------------------
LEMMA Invariance == Spec => []IInv
<1>1. Init => IInv
  BY InitWalk, InitImages DEF Init, IInv
<1>2. IInv /\ [Next]_vars => IInv'
  BY WalkStep, ImagesStep DEF IInv, Next, vars
<1>3. QED
  BY <1>1, <1>2, PTL DEF Spec

(* Types, for any workflow and any number of images. *)
THEOREM Typing == Spec => []TypeOK
<1>1. IInv => TypeOK
  BY DEF IInv, WalkInv, ImagesInv, TypeOK
<1>2. QED
  BY <1>1, Invariance, PTL

(* An automatic walk that says it went well has seen the issue in the status *)
(* asked for, in any workflow and whoever else moves the issue.              *)
THEOREM WalksReach == Spec => []ReachedWhenSaid
<1>1. IInv => ReachedWhenSaid
  BY DEF IInv, WalkInv
<1>2. QED
  BY <1>1, Invariance, PTL

(* A walk reports what Jira did for it, never more than its bound, and an    *)
(* error hides at most one transition that it did not know of itself.        *)
THEOREM WalksReport == Spec => []AppliedReported
<1>1. IInv => AppliedReported
  <2> SUFFICES ASSUME IInv PROVE AppliedReported
    OBVIOUS
  <2>1. /\ asked.max \in 0 .. MostSteps + 1 /\ steps \in Nat
        /\ boundedTransitionSteps(asked.max) \in 1 .. MostSteps
    <3>1. asked.max \in 0 .. MostSteps + 1 /\ steps \in Nat
      BY DEF IInv, WalkInv, WalkTypeOK, Requests
    <3> QED
      BY <3>1, StepsBounded
  <2>2. WalkCounts /\ applied \in Seq(Transitions) /\ done \in Seq(Ids)
    BY DEF IInv, WalkInv, WalkTypeOK
  <2>3. outcome # "error" => Len(done) = steps
    BY <2>1, <2>2 DEF WalkCounts, AppliedIds
  <2> QED
    BY TransitionWalkAssumption, <2>1, <2>2, <2>3 DEF WalkCounts, AppliedReported, AppliedIds
<1>2. QED
  BY <1>1, Invariance, PTL

(* A creation that Jira acknowledged is never reported as a failure, and     *)
(* without a warning only with every link that Jira gave in the description  *)
(* and, if its key is known, with every image attached.                      *)
THEOREM CreationsSaid == Spec => []CreatedIsSaid
<1>1. IInv => CreatedIsSaid
  BY DEF IInv, ImagesInv
<1>2. QED
  BY <1>1, Invariance, PTL

(* A comment, or an edited text, is never visible before all its images. *)
THEOREM TextsWhole == Spec => []TextWhole
<1>1. IInv => TextWhole
  BY DEF IInv, ImagesInv
<1>2. QED
  BY <1>1, Invariance, PTL

=============================================================================
