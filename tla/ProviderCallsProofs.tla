-------------------------- MODULE ProviderCallsProofs --------------------------
(***************************************************************************)
(* Proofs about ProviderCalls: the fan-out for any number of jobs and any  *)
(* limit, the copy for any archive and any destination, and the group of a *)
(* port-forward.                                                           *)
(***************************************************************************)
EXTENDS ProviderCalls, FiniteSetTheorems, TLAPS

Holders == {j \in Job : pc[j] \in {"calling", "answered"}}

(* The tokens are held by the jobs between acquire and release; a slot is    *)
(* what its own job got; nobody runs before the jobs are made.              *)
FanKnows ==
  /\ sem = Cardinality(Holders)
  /\ fan \in {"idle", "selecting"} => jobs = 0
  /\ \A j \in Job :
       /\ pc[j] = "absent" <=> j > jobs
       /\ got[j] = NoAnswer <=> pc[j] \in {"absent", "queued", "calling"}
       /\ slots[j] = IF pc[j] = "done" THEN got[j] ELSE NoAnswer

(* The output lists the slots the loop has been through, and the loop starts *)
(* when every job is done.                                                   *)
FanReports ==
  /\ Summary!ListsResults(output.results, slots, reported)
  /\ Summary!ListsErrors(output.errors, slots, reported)
  /\ reported > 0 => \A j \in Made : pc[j] = "done"
  /\ fan \in {"idle", "selecting"} => output = Pending
  /\ fan = "waiting" => jobs > 0
  /\ fan = "done" /\ jobs = 0 => output.refused
  /\ output.done <=> fan = "done"
  /\ fan = "done" => reported = jobs /\ \A j \in Made : pc[j] = "done"

FanInv == FanTypeOK /\ FanKnows /\ FanReports

(* How many of the entries it took Untar has made. *)
Extracted == IF untar = "creating" THEN taken - 1 ELSE taken

(* Untar is behind by the entry in the forwarder's hand; what is below a     *)
(* first name is in a directory.                                             *)
CopyKnows ==
  /\ fwd = "header" => taken = Len(archive) - 1
  /\ fwd \in {"idle", "next", "body", "trailer", "done"} => taken = Len(archive)
  /\ fwd = "body" => InHand.kind = "file" /\ taken > 0
  /\ untar \in {"creating", "filling"} => taken > 0
  /\ fwd # "failed" => \A i \in DOMAIN archive : archive[i].kind # "unsafe"
  /\ \A i \in 1 .. taken : archive[i].kind # "unsafe"
  /\ \A p \in Paths : p[2] # Itself /\ disk[p] # "none" => disk[Top(p[1])] = "dir"
  /\ pipe = "error" <=> fwd = "failed"
  /\ fwd = "idle" <=> untar = "idle"
  /\ untar = "ended" <=> fwd = "done"
  /\ untar = "failed" => fwd = "failed"

(* The list is of what was forwarded and is listed, in order: all of the     *)
(* archive but the entry in hand.                                            *)
Forwarded(i) == i \in DOMAIN archive /\ (fwd \in {"header", "body"} => i < Len(archive))

CopyLists ==
  fwd # "failed" =>
    /\ \A k \in DOMAIN files : Forwarded(files[k]) /\ Listed(archive[files[k]])
    /\ \A k, l \in DOMAIN files : k < l => files[k] < files[l]
    /\ \A i \in DOMAIN archive : Forwarded(i) /\ Listed(archive[i])
         => \E k \in DOMAIN files : files[k] = i

(* What the destination holds of the entries Untar has made.                *)
CopyMatches ==
  untar # "gaveUp" =>
    \A i \in 1 .. Extracted : Listed(archive[i]) /\ ~Covered(i, Extracted)
      => \/ disk[At(archive[i])] = Held(archive[i])
         \/ archive[i].leaf # Itself /\ LinkMade(archive[i].dir)

(* What the check of an entry still says when Untar makes it: if a link has  *)
(* come into its way, the archive made it, and without overwrite it is in    *)
(* the place of nothing that need be kept.                                   *)
Cleared(i) ==
  /\ Below(archive[i], {"link"}) => LinkMade(archive[i].dir)
  /\ ~overwrite /\ Listed(archive[i]) /\ before[At(archive[i])] # "none"
       => Excused(At(archive[i]))

CopySpares ==
  /\ fwd = "header" => Cleared(Len(archive))
  /\ untar = "creating" => Cleared(taken)
  /\ KeepsExisting

CopyChanges ==
  \A p \in Paths : disk[p] # before[p] =>
    \E i \in 1 .. taken :
      /\ archive[i].kind # "unsafe"
      /\ \/ archive[i].dir = p[1]
         \/ archive[i].leaf = p[2] /\ LinkMade(archive[i].dir)

(* The two goroutines are at the same place of the archive: who writes a body *)
(* is read by who takes a body.                                              *)
CopyMeets ==
  /\ fwd = "body" =>
       /\ untar \in {"creating", "filling", "gaveUp"}
       /\ untar = "creating" => archive[taken].kind = "file"
  /\ fwd \in {"next", "header", "trailer"} =>
       /\ untar \in {"reading", "creating", "gaveUp"}
       /\ untar = "creating" => archive[taken].kind # "file"
  /\ copied # Unreturned => untar \in {"ended", "failed", "gaveUp"}

CopySays == copied.outcome = "ok" => fwd = "done" /\ untar = "ended" /\ copied.files = files

CopyInv ==
  /\ CopyTypeOK /\ CopyKnows /\ CopyLists /\ CopyMatches /\ CopySpares /\ CopyChanges
  /\ CopySays

(* The shell makes kubectl and then the sleeper, which is gone only with    *)
(* kubectl; a start that is not over has said nothing.                      *)
ForwardKnows ==
  /\ start \in {"idle", "begin"} => sh = "none"
  /\ sh \in {"none", "fresh"} => kubectl = "none"
  /\ sh \in {"none", "fresh", "forked"} => sleeper = "none"
  /\ sh = "waiting" => sleeper # "none"
  /\ sleeper = "dead" => ~KubectlRuns
  /\ started # "none" <=> start = "returned"
  /\ record => started = "ok"
  /\ stopped => record

ForwardInv == ForwardTypeOK /\ ForwardKnows /\ StoppedIsGone

IInv == OpTypeOK /\ FanInv /\ CopyInv /\ CopyMeets /\ ForwardInv

-----------------------------------------------------------------------------
LEMMA HoldersFinite == IsFiniteSet(Holders)
<1>1. IsFiniteSet(Job)
  BY FanoutAssumption, FS_Interval DEF Job
<1>2. Holders \subseteq Job
  BY DEF Holders
<1> QED
  BY <1>1, <1>2, FS_Subset

LEMMA Typed ==
  /\ NoAnswer \notin Answers
  /\ [kind |-> "failed", reported |-> FALSE] \in Answers
  BY DEF NoAnswer, Answers

(* The empty report is of no job, whatever the slots.                       *)
LEMMA NoneReported ==
  ASSUME NEW a
  PROVE  Summary!ListsResults(<<>>, a, 0) /\ Summary!ListsErrors(<<>>, a, 0)
<1>1. 1 .. 0 = {}
  OBVIOUS
<1>2. /\ DOMAIN <<>> = {} /\ <<>> \in Seq(1 .. 0)
      /\ <<>> \in Seq([job : 1 .. 0, by : {"provider", "host"}])
  OBVIOUS
<1>3. [job : 1 .. 0, by : {"provider", "host"}] = {}
  BY <1>1
<1> QED
  BY <1>1, <1>2, <1>3 DEF Summary!ListsResults, Summary!ListsErrors

(* A report of no job is one whatever the slots become. *)
LEMMA SlotsUnread ==
  ASSUME NEW a, NEW b, NEW s, NEW t,
         Summary!ListsResults(s, a, 0), Summary!ListsErrors(t, a, 0)
  PROVE  Summary!ListsResults(s, b, 0) /\ Summary!ListsErrors(t, b, 0)
<1>1. 1 .. 0 = {}
  OBVIOUS
<1>2. [job : 1 .. 0, by : {"provider", "host"}] = {}
  BY <1>1
<1> QED
  BY <1>1, <1>2 DEF Summary!ListsResults, Summary!ListsErrors

(* What Append does to the elements of a sequence. *)
LEMMA AppendedTo ==
  ASSUME NEW S, NEW s \in Seq(S), NEW e \in S
  PROVE  /\ Append(s, e) \in Seq(S)
         /\ DOMAIN s = 1 .. Len(s) /\ Len(s) \in Nat
         /\ DOMAIN Append(s, e) = 1 .. Len(s) + 1
         /\ Append(s, e)[Len(s) + 1] = e
         /\ \A i \in DOMAIN s : i \in DOMAIN Append(s, e) /\ Append(s, e)[i] = s[i]
         /\ {Append(s, e)[i] : i \in DOMAIN Append(s, e)} = {s[i] : i \in DOMAIN s} \cup {e}
<1>1. /\ Append(s, e) \in Seq(S)
      /\ DOMAIN s = 1 .. Len(s) /\ Len(s) \in Nat
      /\ DOMAIN Append(s, e) = 1 .. Len(s) + 1
      /\ Append(s, e)[Len(s) + 1] = e
      /\ \A i \in 1 .. Len(s) : Append(s, e)[i] = s[i]
  OBVIOUS
<1> DEFINE t == Append(s, e)
<1> HIDE DEF t
<1>2. /\ DOMAIN s = 1 .. Len(s) /\ Len(s) \in Nat
      /\ DOMAIN t = 1 .. Len(s) + 1
      /\ t[Len(s) + 1] = e
      /\ \A i \in 1 .. Len(s) : t[i] = s[i]
  BY <1>1 DEF t
<1>3. \A x : x \in {t[i] : i \in DOMAIN t} <=> x \in {s[i] : i \in DOMAIN s} \cup {e}
  <2> TAKE x
  <2>1. x \in {t[i] : i \in DOMAIN t} <=> \E i \in 1 .. Len(s) + 1 : x = t[i]
    BY <1>2
  <2>2. (\E i \in 1 .. Len(s) + 1 : x = t[i]) <=> (\E i \in 1 .. Len(s) : x = s[i]) \/ x = e
    BY <1>2
  <2> QED
    BY <1>2, <2>1, <2>2
<1>4. {t[i] : i \in DOMAIN t} = {s[i] : i \in DOMAIN s} \cup {e}
  BY <1>3
<1> QED
  BY <1>1, <1>4 DEF t

LEMMA Widened ==
  ASSUME NEW S, NEW T, S \subseteq T, NEW s \in Seq(S)
  PROVE  /\ s \in Seq(T) /\ DOMAIN s = 1 .. Len(s) /\ Len(s) \in Nat
         /\ \A i \in DOMAIN s : s[i] \in S
  OBVIOUS

(* One more turn of the loop: the results of one more job. *)
LEMMA OneMoreResult ==
  ASSUME NEW a, NEW n \in Nat, NEW s, Summary!ListsResults(s, a, n)
  PROVE  Summary!ListsResults(AppendIf(s, a[n + 1].kind = "full", n + 1), a, n + 1)
<1> DEFINE m == n + 1
<1>1. /\ s \in Seq(1 .. n) /\ {s[i] : i \in DOMAIN s} = {j \in 1 .. n : a[j].kind = "full"}
      /\ \A i, k \in DOMAIN s : i < k => s[i] < s[k]
  BY DEF Summary!ListsResults
<1>2. s \in Seq(1 .. m) /\ m \in 1 .. m /\ \A i \in DOMAIN s : s[i] \in 1 .. n
  BY <1>1
<1>3. CASE a[m].kind = "full"
  <2> DEFINE t == Append(s, m)
  <2>1. /\ t \in Seq(1 .. m)
        /\ DOMAIN s = 1 .. Len(s) /\ Len(s) \in Nat /\ DOMAIN t = 1 .. Len(s) + 1
        /\ t[Len(s) + 1] = m /\ \A i \in DOMAIN s : t[i] = s[i]
        /\ {t[i] : i \in DOMAIN t} = {s[i] : i \in DOMAIN s} \cup {m}
    BY <1>2, AppendedTo
  <2> HIDE DEF t
  <2>2. {t[i] : i \in DOMAIN t} = {j \in 1 .. m : a[j].kind = "full"}
    <3>1. {j \in 1 .. m : a[j].kind = "full"} = {j \in 1 .. n : a[j].kind = "full"} \cup {m}
      BY <1>3
    <3> QED
      BY <1>1, <2>1, <3>1
  <2>3. ASSUME NEW i \in DOMAIN t, NEW k \in DOMAIN t, i < k PROVE t[i] < t[k]
    <3>1. i \in DOMAIN s /\ t[i] = s[i] /\ s[i] \in 1 .. n
      BY <1>2, <2>1, <2>3
    <3>2. CASE k \in DOMAIN s
      BY <1>1, <2>1, <2>3, <3>1, <3>2
    <3>3. CASE k = Len(s) + 1
      BY <2>1, <3>1, <3>3
    <3> QED
      BY <2>1, <3>2, <3>3
  <2>4. AppendIf(s, a[n + 1].kind = "full", n + 1) = t
    BY <1>3 DEF AppendIf, t
  <2>5. Summary!ListsResults(t, a, m)
    BY <2>1, <2>2, <2>3 DEF Summary!ListsResults
  <2> QED
    BY <2>4, <2>5
<1>4. CASE a[m].kind # "full"
  <2>1. {j \in 1 .. m : a[j].kind = "full"} = {j \in 1 .. n : a[j].kind = "full"}
    BY <1>4
  <2> QED
    BY <1>1, <1>2, <1>4, <2>1 DEF Summary!ListsResults, AppendIf
<1> QED
  BY <1>3, <1>4

(* One more turn of the loop: the errors of one more job, the provider's    *)
(* before the fan-out's own.                                                *)
LEMMA OneMoreErrors ==
  ASSUME NEW a, NEW n \in Nat, NEW s, Summary!ListsErrors(s, a, n),
         Summary!HasError(a[n + 1], "provider") \in BOOLEAN,
         NEW t, t = AppendIf(s, Summary!HasError(a[n + 1], "provider"),
                             [job |-> n + 1, by |-> "provider"]),
         NEW u, u = AppendIf(t, Summary!HasError(a[n + 1], "host"),
                             [job |-> n + 1, by |-> "host"])
  PROVE  Summary!ListsErrors(u, a, n + 1)
<1> DEFINE m == n + 1
           By == {"provider", "host"}
           E(k) == [job : 1 .. k, by : By]
           p == [job |-> m, by |-> "provider"]
           h == [job |-> m, by |-> "host"]
           sent == Summary!HasError(a[m], "provider")
           own == Summary!HasError(a[m], "host")
           Elements(q) == {q[i] : i \in DOMAIN q}
           Ordered(q) == \A i, k \in DOMAIN q : i < k => Summary!Precedes(q[i], q[k])
           Before(q, e) == \A i \in DOMAIN q : Summary!Precedes(q[i], e)
<1>1. s \in Seq(E(n)) /\ Ordered(s)
      /\ Elements(s) = {e \in E(n) : Summary!HasError(a[e.job], e.by)}
  BY DEF Summary!ListsErrors
<1>2. E(n) \subseteq E(m) /\ p \in E(m) /\ h \in E(m) /\ p # h /\ p \notin E(n) /\ h \notin E(n)
  OBVIOUS
<1>3. \A e \in E(m) : e \in E(n) \/ e = p \/ e = h
  <2> SUFFICES ASSUME NEW e \in E(m), e \notin E(n) PROVE e = p \/ e = h
    OBVIOUS
  <2>1. e = [job |-> e.job, by |-> e.by] /\ e.job \in 1 .. m /\ e.by \in By
    OBVIOUS
  <2>2. e.job = m
    BY <2>1
  <2> QED
    BY <2>1, <2>2
<1>4. s \in Seq(E(m)) /\ DOMAIN s = 1 .. Len(s) /\ \A i \in DOMAIN s : s[i] \in E(n)
  <2> HIDE DEF E
  <2> QED
    BY <1>1, <1>2, Widened
<1>5. Before(s, p) /\ Before(s, h) /\ Summary!Precedes(p, h)
  <2>1. \A e \in E(n) : e.job \in 1 .. n /\ e.job < m
    OBVIOUS
  <2> QED
    BY <1>4, <2>1 DEF Summary!Precedes
<1>6. ASSUME NEW q \in Seq(E(m)), Ordered(q), NEW e \in E(m), Before(q, e), NEW c \in BOOLEAN
      PROVE  /\ AppendIf(q, c, e) \in Seq(E(m)) /\ Ordered(AppendIf(q, c, e))
             /\ Elements(AppendIf(q, c, e)) = Elements(q) \cup IF c THEN {e} ELSE {}
             /\ \A f : Before(q, f) /\ Summary!Precedes(e, f) => Before(AppendIf(q, c, e), f)
  <2>1. CASE ~c
    BY <1>6, <2>1 DEF AppendIf
  <2>2. CASE c
    <3> DEFINE r == Append(q, e)
    <3> HIDE DEF E
    <3>1. /\ r \in Seq(E(m))
          /\ DOMAIN q = 1 .. Len(q) /\ Len(q) \in Nat /\ DOMAIN r = 1 .. Len(q) + 1
          /\ r[Len(q) + 1] = e /\ \A i \in DOMAIN q : r[i] = q[i]
          /\ Elements(r) = Elements(q) \cup {e}
      BY AppendedTo
    <3>2. AppendIf(q, c, e) = r
      BY <2>2 DEF AppendIf
    <3> HIDE DEF r
    <3>3. Ordered(r)
      <4> SUFFICES ASSUME NEW i \in DOMAIN r, NEW k \in DOMAIN r, i < k
                   PROVE  Summary!Precedes(r[i], r[k])
        OBVIOUS
      <4>1. i \in DOMAIN q /\ r[i] = q[i]
        BY <3>1
      <4>2. CASE k \in DOMAIN q
        BY <1>6, <3>1, <4>1, <4>2
      <4>3. CASE k = Len(q) + 1
        BY <1>6, <3>1, <4>1, <4>3
      <4> QED
        BY <3>1, <4>2, <4>3
    <3>4. \A f : Before(q, f) /\ Summary!Precedes(e, f) => Before(r, f)
      BY <3>1
    <3>5. Elements(AppendIf(q, c, e)) = Elements(q) \cup (IF c THEN {e} ELSE {})
      BY <2>2, <3>1, <3>2
    <3> QED
      BY <2>2, <3>1, <3>2, <3>3, <3>4, <3>5
  <2> QED
    BY <2>1, <2>2
<1>7. sent \in BOOLEAN /\ own \in BOOLEAN
  BY DEF Summary!HasError
<1> HIDE DEF sent, own, p, h, E, Ordered, Before, Elements
<1>8. /\ t = AppendIf(s, sent, p) /\ u = AppendIf(t, own, h)
  BY DEF sent, own, p, h
<1>9. /\ t \in Seq(E(m)) /\ Ordered(t) /\ Elements(t) = Elements(s) \cup (IF sent THEN {p} ELSE {})
      /\ Before(t, h)
  BY <1>1, <1>2, <1>4, <1>5, <1>6, <1>7, <1>8
<1>10. /\ u \in Seq(E(m)) /\ Ordered(u) /\ Elements(u) = Elements(t) \cup IF own THEN {h} ELSE {}
  BY <1>2, <1>6, <1>7, <1>8, <1>9
<1>11. \A e \in E(m) : Summary!HasError(a[e.job], e.by) <=>
         \/ e \in E(n) /\ Summary!HasError(a[e.job], e.by)
         \/ e = p /\ sent
         \/ e = h /\ own
  <2>1. p.job = m /\ p.by = "provider" /\ h.job = m /\ h.by = "host"
    BY DEF p, h
  <2> QED
    BY <1>3, <2>1 DEF sent, own
<1>12. Elements(u) = {e \in E(m) : Summary!HasError(a[e.job], e.by)}
  BY <1>1, <1>2, <1>9, <1>10, <1>11
<1> QED
  BY <1>10, <1>12 DEF Summary!ListsErrors, E, Ordered, Elements

LEMMA InitFan == FanInit => FanInv
<1> SUFFICES ASSUME FanInit PROVE FanInv
  OBVIOUS
<1>1. Holders = {} /\ Cardinality({}) = 0
  BY FS_EmptySet DEF FanInit, Holders
<1>2. FanTypeOK
  BY FanoutAssumption DEF FanInit, FanTypeOK, Pending
<1>3. FanKnows
  BY <1>1 DEF FanInit, FanKnows, Job
<1>4. FanReports
  BY NoneReported DEF FanInit, FanReports, Pending
<1> QED
  BY <1>2, <1>3, <1>4 DEF FanInv

(* Every step of a fan-out keeps its invariant, and is one of Gather's. *)
LEMMA FanStep ==
  ASSUME FanInv, FanNext
  PROVE  FanInv' /\ (Summary!Next \/ UNCHANGED Summary!gvars)
<1> DEFINE Asked == {j \in Job : pc[j] \notin {"absent", "queued"}}
<1> USE FanoutAssumption DEF FanInv
<1>0. /\ jobs \in Nat /\ Job = 1 .. MaxJobs /\ IsFiniteSet(Holders) /\ Summary!NoAnswer = NoAnswer
      /\ Summary!Answers = Answers
  BY HoldersFinite DEF FanTypeOK, Job, NoAnswer, Answers, Summary!NoAnswer, Summary!Answers
<1>1. Summary!Answered = {j \in Job : pc[j] \in {"answered", "released", "done"}}
  BY <1>0 DEF Summary!Answered, FanKnows, FanTypeOK
<1>A. ASSUME UNCHANGED <<jobs, slots, reported, output>>, UNCHANGED fan,
             \A j \in Job : pc[j] = "done" => pc'[j] = "done"
      PROVE  FanReports'
  <2>1. Made \subseteq Job /\ Made' = Made
    BY <1>0, <1>A DEF FanTypeOK, Made
  <2> QED
    BY <1>A, <2>1 DEF FanReports
<1>2. CASE NothingToAsk
  <2>1. /\ fan = "selecting" /\ fan' = "done"
        /\ output' = [output EXCEPT !.done = TRUE, !.refused = TRUE]
        /\ UNCHANGED <<jobs, pc, got, sem, slots, reported>>
    BY <1>2 DEF NothingToAsk
  <2>2. output = Pending /\ jobs = 0 /\ reported = 0
    BY <1>0, <2>1 DEF FanReports, FanKnows, FanTypeOK
  <2>3. output' = [done |-> TRUE, refused |-> TRUE, results |-> <<>>, errors |-> <<>>]
    BY <2>1, <2>2 DEF Pending
  <2>4. FanTypeOK'
    BY <2>1, <2>2, <2>3 DEF FanTypeOK
  <2>5. FanKnows'
    BY <2>1 DEF FanKnows, Holders
  <2>6. FanReports'
    BY <2>1, <2>2, <2>3, NoneReported DEF FanReports, Made
  <2>7. Summary!Answered = {}
    BY <1>0, <1>1, <2>2 DEF FanKnows, FanTypeOK
  <2>8. Summary!Return
    <3>1. (IF output.done THEN output ELSE Pending) = Pending /\ ~Pending.done
      BY <2>2 DEF Pending
    <3>2. (IF output'.done THEN output' ELSE Pending) = output'
      BY <2>3
    <3>3. 1 .. jobs = {}
      BY <2>2
    <3>4. (IF output'.done THEN output' ELSE Pending).refused = TRUE
      BY <2>3, <3>2
    <3>5. /\ Summary!ListsResults(output'.results, got, jobs)
          /\ Summary!ListsErrors(output'.errors, got, jobs)
      BY <2>2, <2>3, NoneReported
    <3> QED
      BY <2>1, <2>2, <2>3, <2>7, <3>1, <3>2, <3>3, <3>4, <3>5 DEF Summary!Return
  <2> QED
    BY <2>4, <2>5, <2>6, <2>8 DEF Summary!Next
<1>3. CASE StartJobs
  <2>1. PICK n \in Job : jobs' = n /\ pc' = [j \in Job |-> IF j <= n THEN "queued" ELSE "absent"]
    BY <1>3 DEF StartJobs
  <2>2. fan = "selecting" /\ fan' = "waiting" /\ UNCHANGED <<got, sem, slots, reported>>
    BY <1>3 DEF StartJobs
  <2>2a. PICK unknown \in BOOLEAN : output' = [output EXCEPT !.refused = unknown]
    BY <1>3 DEF StartJobs
  <2>2b. output = Pending /\ reported = 0
    BY <1>0, <2>2 DEF FanReports, FanKnows, FanTypeOK
  <2>2c. output' = [done |-> FALSE, refused |-> unknown, results |-> <<>>, errors |-> <<>>]
    BY <2>2a, <2>2b DEF Pending
  <2>3. jobs = 0 /\ \A j \in Job : pc[j] = "absent" /\ got[j] = NoAnswer /\ slots[j] = NoAnswer
    BY <1>0, <2>2 DEF FanKnows
  <2>4. Holders = {} /\ Holders' = {}
    BY <2>1, <2>3 DEF Holders
  <2>5. FanTypeOK'
    <3>1. jobs' \in 0 .. MaxJobs /\ 0 .. jobs \subseteq 0 .. jobs'
      BY <1>0, <2>1, <2>3
    <3>2. pc' \in [Job -> {"absent", "queued", "calling", "answered", "released", "done"}]
      BY <2>1
    <3> QED
      BY <2>2, <2>2c, <3>1, <3>2 DEF FanTypeOK
  <2>6. FanKnows'
    BY <1>0, <2>1, <2>2, <2>3, <2>4 DEF FanKnows
  <2>6a. FanReports'
    BY <1>0, <2>1, <2>2, <2>2b, <2>2c, <2>3, NoneReported DEF FanReports
  <2>7. Asked = {} /\ Asked' = {}
    BY <2>1, <2>3
  <2>8. n \in 1 .. MaxJobs
    BY <1>0
  <2>9. Summary!Plan(n)
    BY <2>1, <2>2, <2>2b, <2>2c, <2>3, <2>7, <2>8 DEF Summary!Plan, Pending
  <2> QED
    BY <2>5, <2>6, <2>6a, <2>8, <2>9 DEF Summary!Next
<1>4. ASSUME NEW j \in Job, Acquire(j)
      PROVE  FanInv' /\ (Summary!Next \/ UNCHANGED Summary!gvars)
  <2>1. /\ pc[j] = "queued" /\ sem < Limit /\ sem' = sem + 1 /\ pc' = [pc EXCEPT ![j] = "calling"]
        /\ UNCHANGED <<fan, jobs, got, slots, reported, output>>
    BY <1>4 DEF Acquire
  <2>2. pc'[j] = "calling" /\ \A k \in Job : k # j => pc'[k] = pc[k]
    BY <2>1 DEF FanTypeOK
  <2>3. j \notin Holders /\ Holders' = Holders \cup {j}
    BY <2>1, <2>2 DEF Holders
  <2>4. Cardinality(Holders') = Cardinality(Holders) + 1
    BY <1>0, <2>3, FS_AddElement
  <2>5. FanTypeOK' /\ FanKnows'
    BY <2>1, <2>2, <2>4 DEF FanTypeOK, FanKnows
  <2>5a. FanReports'
    BY <2>1, <2>2, <1>A
  <2>6. Asked' = Asked \cup {j} /\ j \notin Asked
    BY <2>1, <2>2
  <2>7. Cardinality(Asked \ Summary!Answered) < Limit
    <3>1. Asked \ Summary!Answered \in SUBSET Holders
      BY <1>1 DEF FanTypeOK, Holders
    <3>2. Cardinality(Asked \ Summary!Answered) <= Cardinality(Holders)
      BY <1>0, <3>1, FS_Subset
    <3>3. Cardinality(Asked \ Summary!Answered) \in Nat
      BY <1>0, <3>1, FS_Subset, FS_CardinalityType
    <3> QED
      BY <2>1, <3>2, <3>3 DEF FanKnows, FanTypeOK
  <2>8. j \in 1 .. jobs \ Asked
    BY <1>0, <2>1, <2>6 DEF FanKnows
  <2>9. Summary!Cardinality(Asked \ Summary!Answered) = Cardinality(Asked \ Summary!Answered)
    BY DEF Cardinality, Summary!Cardinality
  <2>10. Summary!Ask(j)
    BY <2>1, <2>6, <2>7, <2>8, <2>9 DEF Summary!Ask
  <2> QED
    BY <1>0, <2>5, <2>5a, <2>10 DEF Summary!Next
<1>5. ASSUME NEW j \in Job, ProviderAnswers(j)
      PROVE  FanInv' /\ (Summary!Next \/ UNCHANGED Summary!gvars)
  <2>1. PICK answer \in Answers :
          (ctx = "over" => answer = [kind |-> "failed", reported |-> FALSE])
            /\ got' = [got EXCEPT ![j] = answer]
    BY <1>5 DEF ProviderAnswers
  <2>2. /\ pc[j] = "calling" /\ pc' = [pc EXCEPT ![j] = "answered"]
        /\ UNCHANGED <<fan, jobs, sem, slots, reported, output>>
    BY <1>5 DEF ProviderAnswers
  <2>3. /\ pc'[j] = "answered" /\ got'[j] = answer /\ answer # NoAnswer
        /\ \A k \in Job : k # j => pc'[k] = pc[k] /\ got'[k] = got[k]
    BY <2>1, <2>2, Typed DEF FanTypeOK
  <2>4. Holders' = Holders
    BY <2>2, <2>3 DEF Holders
  <2>5. FanTypeOK' /\ FanKnows'
    BY <2>1, <2>2, <2>3, <2>4 DEF FanTypeOK, FanKnows
  <2>5a. FanReports'
    BY <2>1, <2>2, <2>3, <1>A
  <2>6. Asked' = Asked /\ j \in Asked \ Summary!Answered
    BY <1>1, <2>2, <2>3
  <2>7. Summary!Answer(j, answer)
    BY <2>1, <2>2, <2>6 DEF Summary!Answer
  <2> QED
    BY <1>0, <2>5, <2>5a, <2>7 DEF Summary!Next
<1>6. ASSUME NEW j \in Job, Release(j)
      PROVE  FanInv' /\ (Summary!Next \/ UNCHANGED Summary!gvars)
  <2>1. /\ pc[j] = "answered" /\ sem' = sem - 1 /\ pc' = [pc EXCEPT ![j] = "released"]
        /\ UNCHANGED <<fan, jobs, got, slots, reported, output>>
    BY <1>6 DEF Release
  <2>2. pc'[j] = "released" /\ \A k \in Job : k # j => pc'[k] = pc[k]
    BY <2>1 DEF FanTypeOK
  <2>3. j \in Holders /\ Holders' = Holders \ {j}
    BY <2>1, <2>2 DEF Holders
  <2>4. /\ Cardinality(Holders') = Cardinality(Holders) - 1
        /\ Cardinality(Holders') \in Nat
    BY <1>0, <2>3, FS_RemoveElement, FS_CardinalityType
  <2>5. FanTypeOK' /\ FanKnows'
    BY <2>1, <2>2, <2>4 DEF FanTypeOK, FanKnows
  <2>5a. FanReports'
    BY <2>1, <2>2, <1>A
  <2>6. Asked' = Asked
    BY <2>1, <2>2
  <2> QED
    BY <2>1, <2>5, <2>5a, <2>6 DEF Summary!gvars
<1>7. ASSUME NEW j \in Job, Store(j)
      PROVE  FanInv' /\ (Summary!Next \/ UNCHANGED Summary!gvars)
  <2>1. /\ pc[j] = "released" /\ slots' = [slots EXCEPT ![j] = got[j]] /\ pc' = [pc EXCEPT ![j] = "done"]
        /\ UNCHANGED <<fan, jobs, got, sem, reported, output>>
    BY <1>7 DEF Store
  <2>2. /\ pc'[j] = "done" /\ slots'[j] = got[j]
        /\ \A k \in Job : k # j => pc'[k] = pc[k] /\ slots'[k] = slots[k]
    BY <2>1 DEF FanTypeOK
  <2>3. Holders' = Holders
    BY <2>1, <2>2 DEF Holders
  <2>4. FanTypeOK' /\ FanKnows'
    BY <2>1, <2>2, <2>3 DEF FanTypeOK, FanKnows
  <2>4a. FanReports'
    <3>1. j \in Made /\ Made' = Made
      BY <1>0, <2>1 DEF FanKnows, FanTypeOK, Made
    <3>2. reported = 0 /\ fan # "done"
      BY <2>1, <3>1 DEF FanReports, FanTypeOK
    <3>3. Summary!ListsResults(output.results, slots', 0) /\ Summary!ListsErrors(output.errors, slots', 0)
      BY <3>2, SlotsUnread DEF FanReports
    <3> QED
      BY <2>1, <3>1, <3>2, <3>3 DEF FanReports
  <2>5. Asked' = Asked
    BY <2>1, <2>2
  <2> QED
    BY <2>1, <2>4, <2>4a, <2>5 DEF Summary!gvars
<1>7a. ASSUME AllDone
       PROVE  /\ \A j \in Job : pc[j] = IF j <= jobs THEN "done" ELSE "absent"
              /\ slots = got /\ Summary!Answered = 1 .. jobs /\ ~output.done
  <2>1. \A j \in Job : pc[j] = IF j <= jobs THEN "done" ELSE "absent"
    BY <1>0, <1>7a DEF FanKnows, Made, AllDone
  <2>2. \A j \in Job : slots[j] = got[j]
    BY <1>0, <2>1 DEF FanKnows
  <2>3. slots = got
    BY <2>2 DEF FanTypeOK
  <2>4. 1 .. jobs \subseteq Job
    BY <1>0 DEF FanTypeOK
  <2>5. Summary!Answered = 1 .. jobs
    BY <1>0, <1>1, <2>1, <2>4
  <2> QED
    BY <1>7a, <2>1, <2>3, <2>5 DEF FanReports, AllDone
<1>8. CASE ReportSlot
  <2> DEFINE job == reported + 1
             slot == slots[job]
             p == [job |-> job, by |-> "provider"]
             h == [job |-> job, by |-> "host"]
             full == slot.kind = "full"
             own == (slot.kind = "failed" /\ ~slot.reported) \/ slot.kind = "empty"
             sent == AppendIf(output.errors, slot.reported, p)
             told == AppendIf(sent, own, h)
  <2>1. /\ AllDone /\ reported < jobs /\ reported' = job
        /\ output' = [output EXCEPT !.results = AppendIf(@, full, job), !.errors = told]
        /\ UNCHANGED <<fan, jobs, pc, got, sem, slots>>
    BY <1>8 DEF ReportSlot
  <2>2. /\ job \in 1 .. jobs /\ job \in Job /\ reported \in Nat
        /\ slot \in Answers /\ slot.reported \in BOOLEAN
    <3>1. job \in 1 .. jobs /\ job \in Job /\ reported \in Nat
      BY <1>0, <2>1 DEF FanTypeOK
    <3>2. pc[job] = "done" /\ slot = got[job] /\ slot # NoAnswer
      BY <2>1, <3>1, <1>7a DEF FanKnows
    <3> QED
      BY <3>1, <3>2 DEF FanTypeOK, Answers
  <2> HIDE DEF slot, p, h, sent, told, full, own
  <2>3. output' = [done |-> output.done, refused |-> output.refused,
                   results |-> AppendIf(output.results, full, job), errors |-> told]
    BY <2>1 DEF FanTypeOK
  <2>4. Summary!ListsResults(output'.results, slots, job)
    BY <2>2, <2>3, OneMoreResult DEF FanReports, full, slot
  <2>5. Summary!ListsErrors(output'.errors, slots, job)
    <3>1. Summary!HasError(slot, "provider") = slot.reported /\ Summary!HasError(slot, "host") = own
      BY DEF Summary!HasError, own
    <3>2. Summary!ListsErrors(told, slots, reported + 1)
      BY <2>2, <3>1, OneMoreErrors DEF FanReports, sent, told, slot, p, h
    <3> QED
      BY <2>3, <3>2
  <2>6. FanTypeOK'
    <3>1. 1 .. job \subseteq Job
      BY <1>0, <2>2
    <3>2. output'.results \in Seq(Job)
      BY <2>4, <3>1 DEF Summary!ListsResults
    <3>3. output'.errors \in Seq([job : Job, by : {"provider", "host"}])
      <4> DEFINE First == [job : 1 .. job, by : {"provider", "host"}]
                 All == [job : Job, by : {"provider", "host"}]
      <4>1. First \subseteq All
        BY <3>1
      <4>2. output'.errors \in Seq(First)
        BY <2>5 DEF Summary!ListsErrors
      <4> HIDE DEF First, All
      <4>3. output'.errors \in Seq(All)
        BY <4>1, <4>2, Widened
      <4> QED
        BY <4>3 DEF All
    <3>4. output' \in [done : BOOLEAN, refused : BOOLEAN, results : Seq(Job),
                      errors : Seq([job : Job, by : {"provider", "host"}])]
      BY <2>3, <3>2, <3>3 DEF FanTypeOK
    <3>5. reported' \in 0 .. jobs'
      BY <2>1, <2>2
    <3> QED
      BY <2>1, <3>4, <3>5 DEF FanTypeOK
  <2>7. FanKnows'
    BY <2>1 DEF FanKnows, Holders
  <2>8. FanReports'
    BY <2>1, <2>3, <2>4, <2>5 DEF FanReports, AllDone, Made
  <2>9. UNCHANGED Summary!gvars
    BY <2>1, <2>3, <1>7a DEF Summary!gvars
  <2> QED
    BY <2>6, <2>7, <2>8, <2>9
<1>9. CASE ReturnOutput
  <2>1. /\ AllDone /\ reported = jobs /\ fan' = "done" /\ output' = [output EXCEPT !.done = TRUE]
        /\ UNCHANGED <<jobs, pc, got, sem, slots, reported>>
    BY <1>9 DEF ReturnOutput
  <2>2. output' = [done |-> TRUE, refused |-> output.refused, results |-> output.results,
                    errors |-> output.errors]
    BY <2>1 DEF FanTypeOK
  <2>2a. jobs # 0
    BY <1>0, <2>1 DEF FanReports, AllDone
  <2>3. FanTypeOK'
    BY <2>1, <2>2 DEF FanTypeOK
  <2>4. FanKnows'
    BY <2>1 DEF FanKnows, Holders, AllDone
  <2>5. FanReports'
    BY <2>1, <2>2 DEF FanReports, AllDone, Made
  <2>6. Summary!Return
    <3>1. (IF output.done THEN output ELSE Pending) = Pending /\ ~Pending.done
      BY <2>1, <1>7a DEF Pending
    <3>2. (IF output'.done THEN output' ELSE Pending) = output'
      BY <2>2
    <3>3. Summary!ListsResults(output'.results, got, jobs) /\ Summary!ListsErrors(output'.errors, got, jobs)
      BY <2>1, <2>2, <1>7a DEF FanReports
    <3> QED
      BY <2>1, <2>2, <2>2a, <3>1, <3>2, <3>3, <1>7a DEF Summary!Return
  <2> QED
    BY <2>3, <2>4, <2>5, <2>6 DEF Summary!Next
<1> QED
  BY <1>2, <1>3, <1>4, <1>5, <1>6, <1>7, <1>8, <1>9 DEF FanNext, RunJob

(* A fan-out that does not move stays where it is. *)
LEMMA FanStutter ==
  ASSUME FanInv, UNCHANGED fanVars
  PROVE  FanInv' /\ UNCHANGED Summary!gvars
<1>1. UNCHANGED <<fan, jobs, pc, got, sem, slots, reported, output>>
  BY DEF fanVars
<1>2. Holders' = Holders
  BY <1>1 DEF Holders
<1> QED
  BY <1>1, <1>2 DEF FanInv, FanTypeOK, FanKnows, FanReports, Made, Summary!gvars

-----------------------------------------------------------------------------
LEMMA PathTyped ==
  /\ \A p \in Paths : p = <<p[1], p[2]>> /\ p[1] \in Names /\ p[2] \in Leaves \cup {Itself}
  /\ \A n \in Names : Top(n) \in Paths /\ Top(n)[1] = n /\ Top(n)[2] = Itself
  BY DEF Paths, Top

LEMMA EntryTyped ==
  ASSUME NEW e \in Entries
  PROVE  /\ e.dir \in Names /\ e.leaf \in Leaves \cup {Itself}
         /\ At(e) \in Paths /\ At(e)[1] = e.dir /\ At(e)[2] = e.leaf
         /\ e.leaf = Itself => At(e) = Top(e.dir)
         /\ e.kind \in {"file", "empty", "link", "dir", "other", "unsafe"}
         /\ e.kind # "unsafe" => Held(e) \in Found
         /\ e.kind = "link" => e.to \in Names
         /\ Held(e) = "link" <=> e.kind = "link"
         /\ Held(e) # "none"
<1>1. e \in Plain \/ e \in Links
  BY DEF Entries
<1>2. CASE e \in Plain
  BY <1>2 DEF Plain, At, Top, Paths, Held, Found
<1>3. CASE e \in Links
  BY <1>3 DEF Links, At, Top, Paths, Held, Found
<1> QED
  BY <1>1, <1>2, <1>3

(* Untar makes an entry at its path, or below it elsewhere if a link leads  *)
(* there.                                                                    *)
LEMMA PlaceOf ==
  ASSUME NEW e \in Entries, NEW p \in Places(e)
  PROVE  /\ p \in Paths /\ p[2] = e.leaf
         /\ p[1] = e.dir => p = At(e)
         /\ p[1] # e.dir => e.leaf # Itself /\ Below(e, {"link"})
<1>1. e.dir \in Names /\ e.leaf \in Leaves \cup {Itself}
  BY EntryTyped
<1>2. PICK m \in IF e.leaf = Itself THEN {e.dir} ELSE Behind(e.dir) : p = <<m, e.leaf>>
  BY DEF Places
<1>3. m \in Names /\ (m # e.dir => e.leaf # Itself /\ disk[Top(e.dir)] = "link")
  <2>1. CASE e.leaf = Itself
    BY <1>1, <1>2, <2>1
  <2>2. CASE e.leaf # Itself /\ disk[Top(e.dir)] # "link"
    BY <1>1, <1>2, <2>2 DEF Behind
  <2>3. CASE e.leaf # Itself /\ disk[Top(e.dir)] = "link"
    <3>1. m \in Behind(e.dir)
      BY <1>2, <2>3
    <3>2. m \in Names
      BY <2>3, <3>1 DEF Behind
    <3> QED
      BY <2>3, <3>2
  <2> QED
    BY <2>1, <2>2, <2>3
<1> QED
  BY <1>1, <1>2, <1>3 DEF Paths, At, Below

(* What making an entry changes. *)
LEMMA PlacedWhere ==
  ASSUME CopyTypeOK, CopyKnows, NEW e \in Entries, e.kind # "unsafe",
         NEW p \in Places(e), Fits(e, p)
  PROVE  /\ Placed(e, p) \in [Paths -> Found]
         /\ Placed(e, p)[p] = Held(e)
         /\ \A q \in Paths : Placed(e, p)[q] # disk[q] => q = p \/ q[1] = e.dir
         /\ \A q \in Paths : Placed(e, p)[q] = "link" => disk[q] = "link" \/ (q = p /\ e.kind = "link")
         /\ \A q \in Paths : q[2] # Itself /\ Placed(e, p)[q] # "none"
              => Placed(e, p)[Top(q[1])] = "dir"
         /\ ~overwrite => \A q \in Paths : disk[q] # "none" /\ Placed(e, p)[q] # disk[q]
              => q = p /\ e.kind # "dir"
<1> DEFINE d == Placed(e, p)
<1>1. /\ p \in Paths /\ p[2] = e.leaf /\ Held(e) \in Found
      /\ p[1] # e.dir => e.leaf # Itself
  BY PlaceOf, EntryTyped
<1>2. disk \in [Paths -> Found]
  BY DEF CopyTypeOK
<1>3. CASE e.kind = "dir" /\ disk[p] = "dir"
  <2>1. d = disk /\ Held(e) = "dir"
    BY <1>3 DEF Placed, Held
  <2> QED
    BY <1>1, <1>2, <1>3, <2>1 DEF CopyKnows
<1>4. CASE ~(e.kind = "dir" /\ disk[p] = "dir")
  <2>1. d = [q \in Paths |->
               IF q = p THEN Held(e)
               ELSE IF q[1] # p[1] \/ (p[2] # Itself /\ q[2] # Itself) THEN disk[q]
               ELSE IF p[2] = Itself THEN "none" ELSE "dir"]
    BY <1>4 DEF Placed
  <2> HIDE DEF d
  <2>2. d \in [Paths -> Found] /\ d[p] = Held(e)
    <3>1. "none" \in Found /\ "dir" \in Found
      BY DEF Found
    <3> QED
      BY <1>1, <1>2, <2>1, <3>1
  <2>3. p[2] # Itself => \A q \in Paths : q[2] = Itself /\ q[1] = p[1] =>
          /\ q = Top(p[1]) /\ q # p /\ d[q] = "dir"
          /\ disk[q] = "dir" \/ (p[1] = e.dir /\ disk[q] = "none")
    BY <1>1, <2>1, PathTyped DEF Fits, Top
  <2>4. ASSUME NEW q \in Paths, d[q] # disk[q]
        PROVE  q = p \/ q[1] = e.dir
    BY <1>1, <2>1, <2>3, <2>4
  <2>5. ASSUME NEW q \in Paths, d[q] = "link"
        PROVE  disk[q] = "link" \/ (q = p /\ e.kind = "link")
    BY <1>1, <2>1, <2>5, EntryTyped
  <2>6. ASSUME NEW q \in Paths, q[2] # Itself, d[q] # "none"
        PROVE  d[Top(q[1])] = "dir"
    <3>1. Top(q[1]) \in Paths /\ Top(q[1])[1] = q[1] /\ Top(q[1])[2] = Itself /\ q[1] \in Names
      BY PathTyped
    <3>2. CASE q[1] = p[1] /\ p[2] # Itself
      BY <2>3, <3>1, <3>2
    <3>3. CASE q[1] = p[1] /\ p[2] = Itself
      BY <2>1, <2>6, <3>3
    <3>4. CASE q[1] # p[1]
      BY <2>1, <2>6, <3>1, <3>4 DEF CopyKnows
    <3> QED
      BY <3>2, <3>3, <3>4
  <2>7. ASSUME ~overwrite, NEW q \in Paths, disk[q] # "none", d[q] # disk[q]
        PROVE  q = p /\ e.kind # "dir"
    <3>1. CASE q = p
      BY <1>4, <2>7, <3>1 DEF Fits
    <3>2. CASE q # p /\ p[2] # Itself
      BY <2>1, <2>3, <2>7, <3>2
    <3>3. CASE q # p /\ p[2] = Itself
      <4>1. q[1] = p[1] /\ q[2] # Itself /\ p = Top(p[1])
        BY <1>1, <2>1, <2>7, <3>3, PathTyped DEF Top
      <4>2. disk[p] = "dir"
        BY <2>7, <4>1 DEF CopyKnows
      <4> QED
        BY <1>4, <2>7, <4>2 DEF Fits
    <3> QED
      BY <3>1, <3>2, <3>3
  <2> QED
    BY <2>2, <2>4, <2>5, <2>6, <2>7 DEF d
<1> QED
  BY <1>3, <1>4

LEMMA InitCopy == CopyInit => CopyInv /\ CopyMeets
<1> SUFFICES ASSUME CopyInit PROVE CopyInv /\ CopyMeets
  OBVIOUS
<1> USE DEF CopyInit
<1>1. CopyTypeOK
  <2>1. Unreturned \in [outcome : {"none", "ok", "error"}, files : Seq(Nat)]
    BY DEF Unreturned
  <2>2. before \in [Paths -> Found]
    BY DEF Found
  <2>3. overwrite \in BOOLEAN
    OBVIOUS
  <2> QED
    BY <2>1, <2>2, <2>3 DEF CopyTypeOK
<1>2. CopyKnows
  BY DEF CopyKnows
<1>3. CopyLists /\ CopyMatches /\ CopySpares /\ CopyChanges
  BY DEF CopyLists, CopyMatches, Extracted, CopySpares, KeepsExisting, CopyChanges
<1>4. CopySays /\ CopyMeets
  BY DEF CopySays, CopyMeets, Unreturned
<1> QED
  BY <1>1, <1>2, <1>3, <1>4 DEF CopyInv

(* The goroutines stay at the same place of the archive. *)
LEMMA CopyMeetsStep ==
  ASSUME CopyTypeOK, CopyKnows, CopyMeets, CopyNext
  PROVE  CopyMeets'
<1> USE DEF CopyTypeOK, CopyMeets, callerVars, treeVars
<1>1. CASE NextEntry
  <2>1. PICK e \in Entries : archive' = Append(archive, e)
    BY <1>1 DEF NextEntry
  <2>2. untar = "creating" => archive'[taken] = archive[taken]
    BY <2>1 DEF CopyKnows
  <2> QED
    BY <1>1, <2>2 DEF NextEntry, GiveUp
<1>2. CASE LastEntry \/ StreamBreaks
  BY <1>2 DEF LastEntry, StreamBreaks, GiveUp
<1>3. CASE PassHeader \/ PassBody \/ PassTrailer
  BY <1>3 DEF PassHeader, PassBody, PassTrailer, InHand
<1>4. CASE Extract \/ ExtractFails
  BY <1>4 DEF Extract, ExtractFails
<1>5. CASE ReadFails \/ CopyReturns
  BY <1>5 DEF ReadFails, CopyReturns, CopyKnows
<1> QED
  BY <1>1, <1>2, <1>3, <1>4, <1>5 DEF CopyNext, Forwarder, Extractor

(* What the archive excuses it goes on excusing. *)
LEMMA Onward ==
  ASSUME CopyTypeOK, CopyTypeOK', DOMAIN archive \subseteq DOMAIN archive', taken <= taken',
         \A i \in DOMAIN archive : archive'[i] = archive[i]
  PROVE  /\ \A n : LinkMade(n) => LinkMade(n)'
         /\ \A p : Excused(p) => Excused(p)'
<1>1. \A n : LinkMade(n) => LinkMade(n)'
  <2> SUFFICES ASSUME NEW n, LinkMade(n) PROVE LinkMade(n)'
    OBVIOUS
  <2>1. PICK i \in DOMAIN archive : archive[i].kind = "link" /\ At(archive[i]) = Top(n)
    BY DEF LinkMade
  <2>2. i \in DOMAIN archive' /\ archive'[i].kind = "link" /\ At(archive'[i]) = Top(n)
    BY <2>1
  <2> QED
    BY <2>2 DEF LinkMade
<1>2. 1 .. taken \subseteq 1 .. taken' /\ 1 .. taken \subseteq DOMAIN archive
  BY DEF CopyTypeOK
<1>3. ASSUME NEW p, Excused(p) PROVE Excused(p)'
  <2>1. PICK i \in 1 .. taken :
          \/ archive[i].kind = "other" /\ At(archive[i]) = p
          \/ /\ archive[i].kind # "dir" /\ archive[i].leaf = p[2] /\ archive[i].leaf # Itself
             /\ LinkMade(archive[i].dir)
    BY <1>3 DEF Excused
  <2>2. i \in 1 .. taken' /\ archive'[i] = archive[i]
    BY <1>2, <2>1
  <2>3. LinkMade(archive[i].dir) => LinkMade(archive[i].dir)'
    BY <2>2 DEF LinkMade
  <2>4. (\/ archive[i].kind = "other" /\ At(archive[i]) = p
         \/ /\ archive[i].kind # "dir" /\ archive[i].leaf = p[2] /\ archive[i].leaf # Itself
            /\ LinkMade(archive[i].dir))'
    BY <2>1, <2>2, <2>3 DEF At
  <2> QED
    BY <2>2, <2>4 DEF Excused
<1> QED
  BY <1>1, <1>3

(* While nothing is made and the archive only grows, what is known of the    *)
(* destination goes on holding.                                              *)
LEMMA DiskKept ==
  ASSUME CopyInv, CopyTypeOK', DOMAIN archive \subseteq DOMAIN archive', taken <= taken',
         \A i \in DOMAIN archive : archive'[i] = archive[i],
         UNCHANGED <<disk, leads, overwrite, before>>
  PROVE  /\ KeepsExisting' /\ CopyChanges'
         /\ (\A p \in Paths : p[2] # Itself /\ disk[p] # "none" => disk[Top(p[1])] = "dir")'
         /\ \A i \in DOMAIN archive : Cleared(i) => Cleared(i)'
         /\ untar # "gaveUp" /\ Extracted' = Extracted => CopyMatches'
<1> USE DEF CopyInv
<1>1. (\A n : LinkMade(n) => LinkMade(n)') /\ (\A p : Excused(p) => Excused(p)')
  BY Onward
<1>2. KeepsExisting'
  BY <1>1 DEF CopySpares, KeepsExisting
<1>3. CopyChanges'
  <2> SUFFICES ASSUME NEW p \in Paths, disk'[p] # before'[p]
               PROVE  (\E i \in 1 .. taken :
                         /\ archive[i].kind # "unsafe"
                         /\ \/ archive[i].dir = p[1]
                            \/ archive[i].leaf = p[2] /\ LinkMade(archive[i].dir))'
    BY DEF CopyChanges
  <2>1. PICK i \in 1 .. taken :
          /\ archive[i].kind # "unsafe"
          /\ \/ archive[i].dir = p[1]
             \/ archive[i].leaf = p[2] /\ LinkMade(archive[i].dir)
    BY DEF CopyChanges
  <2>2. i \in 1 .. taken' /\ archive'[i] = archive[i]
    BY <2>1 DEF CopyTypeOK
  <2>3. LinkMade(archive[i].dir) => LinkMade(archive[i].dir)'
    BY <2>2 DEF LinkMade
  <2> QED
    BY <2>1, <2>2, <2>3
<1>4. (\A p \in Paths : p[2] # Itself /\ disk[p] # "none" => disk[Top(p[1])] = "dir")'
  BY DEF CopyKnows
<1>5. ASSUME NEW i \in DOMAIN archive, Cleared(i) PROVE Cleared(i)'
  <2>1. archive'[i] = archive[i]
    OBVIOUS
  <2>2. LinkMade(archive[i].dir) => LinkMade(archive[i].dir)'
    BY <2>1 DEF LinkMade
  <2>3. Excused(At(archive[i])) => Excused(At(archive[i]))'
    <3> SUFFICES ASSUME NEW p, p = At(archive[i]), Excused(p) PROVE Excused(At(archive[i]))'
      OBVIOUS
    <3>1. Excused(p)' /\ p = At(archive[i])'
      BY <1>1, <2>1 DEF At
    <3> QED
      BY <3>1 DEF Excused
  <2>4. Below(archive[i], {"link"})' => Below(archive[i], {"link"})
    BY <2>1 DEF Below
  <2>5. At(archive[i])' = At(archive[i])
    BY <2>1 DEF At
  <2> QED
    BY <1>5, <2>1, <2>2, <2>3, <2>4, <2>5 DEF Cleared
<1>6. ASSUME untar # "gaveUp", Extracted' = Extracted PROVE CopyMatches'
  <2> SUFFICES ASSUME NEW i \in 1 .. Extracted, (Listed(archive[i]) /\ ~Covered(i, Extracted))'
               PROVE  (\/ disk[At(archive[i])] = Held(archive[i])
                       \/ archive[i].leaf # Itself /\ LinkMade(archive[i].dir))'
    BY <1>6 DEF CopyMatches
  <2>1. Extracted <= taken /\ Extracted \in Int /\ taken <= Len(archive) /\ i \in DOMAIN archive
    BY DEF Extracted, CopyTypeOK
  <2>2. archive'[i] = archive[i]
    BY <2>1
  <2>3. ~Covered(i, Extracted)
    <3>1. \A j \in i + 1 .. Extracted : j \in DOMAIN archive /\ archive'[j] = archive[j]
      BY <2>1 DEF CopyTypeOK
    <3> QED
      BY <1>6, <2>2, <3>1 DEF Covered
  <2>4. \/ disk[At(archive[i])] = Held(archive[i])
        \/ archive[i].leaf # Itself /\ LinkMade(archive[i].dir)
    BY <1>6, <2>2, <2>3 DEF CopyMatches, Listed
  <2>5. LinkMade(archive[i].dir) => LinkMade(archive[i].dir)'
    BY <2>2 DEF LinkMade
  <2>6. disk[At(archive[i])] = Held(archive[i]) => (disk[At(archive[i])] = Held(archive[i]))'
    BY <2>2 DEF At, Held
  <2> QED
    BY <2>2, <2>4, <2>5, <2>6
<1> QED
  BY <1>2, <1>3, <1>4, <1>5, <1>6

(* Untar makes the entry it took. *)
LEMMA ExtractStep ==
  ASSUME CopyInv, Extract
  PROVE  CopyInv'
<1> USE DEF CopyInv, CopyTypeOK
<1> DEFINE e == archive[taken]
<1>1. /\ untar = "creating" /\ untar' = IF e.kind = "file" THEN "filling" ELSE "reading"
      /\ UNCHANGED <<fwd, files, archive, pipe, taken, overwrite, before, copied>>
  BY DEF Extract, callerVars
<1>2. taken \in DOMAIN archive /\ taken > 0 /\ e \in Entries /\ e.kind # "unsafe"
  <2>1. taken > 0 /\ taken \in 1 .. taken
    BY <1>1 DEF CopyKnows
  <2>2. taken \in DOMAIN archive
    BY <2>1
  <2>3. archive[taken].kind # "unsafe"
    BY <2>1 DEF CopyKnows
  <2> QED
    BY <2>1, <2>2, <2>3
<1>3. PICK p \in Places(e) : Fits(e, p) /\ disk' = Placed(e, p)
  BY DEF Extract
<1>4. leads' = IF e.kind = "link" /\ e.leaf = Itself THEN [leads EXCEPT ![e.dir] = e.to] ELSE leads
  BY DEF Extract
<1>5. /\ e.dir \in Names /\ e.leaf \in Leaves \cup {Itself} /\ At(e) \in Paths
      /\ e.leaf = Itself => At(e) = Top(e.dir)
      /\ e.kind \in {"file", "empty", "link", "dir", "other", "unsafe"}
      /\ e.kind = "link" => e.to \in Names
      /\ At(e)[1] = e.dir /\ At(e)[2] = e.leaf
  BY <1>2, EntryTyped
<1>6. /\ p \in Paths /\ p[2] = e.leaf
      /\ p[1] = e.dir => p = At(e)
      /\ p[1] # e.dir => e.leaf # Itself /\ Below(e, {"link"})
  BY <1>2, PlaceOf
<1>7. /\ disk' \in [Paths -> Found]
      /\ disk'[p] = Held(e)
      /\ \A q \in Paths : disk'[q] # disk[q] => q = p \/ q[1] = e.dir
      /\ \A q \in Paths : disk'[q] = "link" => disk[q] = "link" \/ (q = p /\ e.kind = "link")
      /\ \A q \in Paths : q[2] # Itself /\ disk'[q] # "none" => disk'[Top(q[1])] = "dir"
      /\ ~overwrite => \A q \in Paths : disk[q] # "none" /\ disk'[q] # disk[q]
           => q = p /\ e.kind # "dir"
  BY <1>2, <1>3, PlacedWhere
<1>8. Cleared(taken)
  BY <1>1 DEF CopySpares
<1>9. p[1] # e.dir => e.leaf # Itself /\ LinkMade(e.dir)
  BY <1>6, <1>8 DEF Cleared
<1> HIDE DEF e
<1>10. \A n, q : (LinkMade(n)' <=> LinkMade(n)) /\ (Excused(q)' <=> Excused(q))
  BY <1>1 DEF LinkMade, Excused
<1>11. CopyTypeOK'
  BY <1>1, <1>4, <1>5, <1>7
<1>12. CopyKnows'
  BY <1>1, <1>2, <1>7 DEF CopyKnows, InHand
<1>13. CopyLists' /\ CopySays'
  BY <1>1 DEF CopyLists, Forwarded, CopySays
<1>14. CopyMatches'
  <2> SUFFICES ASSUME NEW i \in 1 .. taken, Listed(archive[i]), ~Covered(i, taken)
               PROVE  \/ disk'[At(archive[i])] = Held(archive[i])
                      \/ archive[i].leaf # Itself /\ LinkMade(archive[i].dir)
    BY <1>1, <1>10 DEF CopyMatches, Extracted, Covered
  <2>1. CASE i = taken
    BY <1>6, <1>7, <1>9, <2>1 DEF e
  <2>2. CASE i # taken
    <3>1. i \in 1 .. taken - 1 /\ i \in DOMAIN archive /\ archive[i] \in Entries
      BY <1>2, <2>2
    <3>2. /\ e.dir # archive[i].dir
          /\ archive[i].leaf = Itself \/ e.leaf # archive[i].leaf
      <4>1. taken \in i + 1 .. taken
        BY <1>2, <2>2, <3>1
      <4> QED
        BY <4>1 DEF Covered, e
    <3>3. ~Covered(i, Extracted)
      <4>1. Extracted = taken - 1
        BY <1>1 DEF Extracted
      <4>2. \A j \in i + 1 .. taken - 1 : j \in i + 1 .. taken
        BY <3>1
      <4> QED
        BY <4>1, <4>2 DEF Covered
    <3>4. \/ disk[At(archive[i])] = Held(archive[i])
          \/ archive[i].leaf # Itself /\ LinkMade(archive[i].dir)
      BY <1>1, <3>1, <3>3 DEF CopyMatches, Extracted
    <3>5. /\ At(archive[i]) \in Paths /\ At(archive[i])[1] = archive[i].dir
          /\ At(archive[i])[2] = archive[i].leaf
      BY <3>1, EntryTyped
    <3>6. At(archive[i]) # p
      BY <1>6, <1>9, <3>2, <3>5
    <3>7. disk'[At(archive[i])] = disk[At(archive[i])]
      BY <1>7, <3>2, <3>5, <3>6
    <3> QED
      BY <3>4, <3>7
  <2> QED
    BY <2>1, <2>2
<1>15. KeepsExisting'
  <2> SUFFICES ASSUME ~overwrite, NEW q \in Paths, before[q] # "none", disk'[q] # before[q]
               PROVE  Excused(q)
    BY <1>1, <1>10 DEF KeepsExisting
  <2>1. CASE disk[q] # before[q]
    BY <2>1 DEF CopySpares, KeepsExisting
  <2>2. CASE disk[q] = before[q]
    <3>1. q = p /\ e.kind # "dir"
      BY <1>7, <2>2
    <3>2. taken \in 1 .. taken /\ archive[taken] = e
      BY <1>2 DEF e
    <3>3. CASE p[1] # e.dir \/ e.kind = "other"
      <4>1. \/ e.kind = "other" /\ At(e) = q
            \/ e.kind # "dir" /\ e.leaf = q[2] /\ e.leaf # Itself /\ LinkMade(e.dir)
        BY <1>6, <1>9, <3>1, <3>3
      <4> QED
        BY <3>2, <4>1 DEF Excused
    <3>4. CASE p[1] = e.dir /\ e.kind # "other"
      <4>1. Listed(e) /\ q = At(e)
        BY <1>2, <1>5, <1>6, <3>1, <3>4 DEF Listed
      <4> QED
        BY <1>8, <4>1 DEF Cleared, e
    <3> QED
      BY <3>3, <3>4
  <2> QED
    BY <2>1, <2>2
<1>16. CopyChanges'
  <2> SUFFICES ASSUME NEW q \in Paths, disk'[q] # before[q]
               PROVE  \E i \in 1 .. taken :
                        /\ archive[i].kind # "unsafe"
                        /\ \/ archive[i].dir = q[1]
                           \/ archive[i].leaf = q[2] /\ LinkMade(archive[i].dir)
    BY <1>1, <1>10 DEF CopyChanges
  <2>1. CASE disk[q] # before[q]
    BY <2>1 DEF CopyChanges
  <2>2. CASE disk[q] = before[q]
    <3>1. e.dir = q[1] \/ (e.leaf = q[2] /\ LinkMade(e.dir))
      BY <1>6, <1>7, <1>9, <2>2
    <3> QED
      BY <1>2, <3>1 DEF e
  <2> QED
    BY <2>1, <2>2
<1>17. fwd' = "header" => Cleared(Len(archive))'
  <2> SUFFICES ASSUME fwd = "header" PROVE Cleared(Len(archive))'
    BY <1>1
  <2> DEFINE f == archive[Len(archive)]
  <2>1. Cleared(Len(archive)) /\ Len(archive) \in DOMAIN archive /\ f \in Entries
    BY <1>2 DEF CopySpares
  <2>2. f.dir \in Names /\ Top(f.dir) \in Paths /\ Top(f.dir)[1] = f.dir
    BY <2>1, EntryTyped, PathTyped
  <2>3. ASSUME f.leaf # Itself, disk'[Top(f.dir)] = "link" PROVE LinkMade(f.dir)
    <3>1. CASE disk[Top(f.dir)] = "link"
      BY <2>1, <2>3, <3>1 DEF Cleared, Below
    <3>2. CASE disk[Top(f.dir)] # "link"
      <4>1. Top(f.dir) = p /\ e.kind = "link"
        BY <1>7, <2>2, <2>3, <3>2
      <4>2. At(e) = Top(f.dir)
        BY <1>6, <1>9, <2>2, <4>1, PathTyped
      <4> QED
        BY <1>2, <4>1, <4>2 DEF LinkMade, e
    <3> QED
      BY <3>1, <3>2
  <2>4. Below(f, {"link"})' => LinkMade(f.dir)
    BY <1>1, <2>3 DEF Below
  <2> QED
    BY <1>1, <1>10, <2>1, <2>4 DEF Cleared
<1>18. CopySpares'
  BY <1>1, <1>15, <1>17 DEF CopySpares
<1> QED
  BY <1>11, <1>12, <1>13, <1>14, <1>16, <1>18

(* Another entry is read, and refused or checked. *)
LEMMA NextEntryStep ==
  ASSUME CopyInv, NextEntry
  PROVE  CopyInv'
<1> USE DEF CopyInv, CopyTypeOK
<1>1. PICK e \in Entries :
        /\ fwd = "next" /\ archive' = Append(archive, e)
        /\ \/ Refused(e) /\ fwd' = "failed" /\ pipe' = "error"
           \/ ~Refused(e) /\ fwd' = "header" /\ pipe' = pipe
  BY DEF NextEntry, GiveUp
<1>2. UNCHANGED <<files, untar, taken, disk, leads, overwrite, before, copied>>
  BY DEF NextEntry, treeVars, callerVars
<1>3. /\ taken = Len(archive) /\ Len(archive') = Len(archive) + 1 /\ archive'[Len(archive) + 1] = e
      /\ DOMAIN archive \subseteq DOMAIN archive' /\ DOMAIN archive' = 1 .. Len(archive) + 1
      /\ \A i \in DOMAIN archive : archive'[i] = archive[i]
  BY <1>1 DEF CopyKnows
<1>4. CopyTypeOK'
  <2>1. archive' \in Seq(Entries)
    BY <1>1
  <2> QED
    BY <1>1, <1>2, <1>3, <2>1
<1>5. /\ KeepsExisting' /\ CopyChanges'
      /\ (\A p \in Paths : p[2] # Itself /\ disk[p] # "none" => disk[Top(p[1])] = "dir")'
      /\ \A i \in DOMAIN archive : Cleared(i) => Cleared(i)'
      /\ untar # "gaveUp" /\ Extracted' = Extracted => CopyMatches'
  BY <1>2, <1>3, <1>4, DiskKept
<1>6. CopyKnows'
  BY <1>1, <1>2, <1>3, <1>5 DEF CopyKnows, Refused
<1>7. CopyLists'
  <2>1. \A i : fwd' # "failed" => (Forwarded(i)' <=> Forwarded(i))
    BY <1>1, <1>3 DEF Forwarded
  <2>2. \A i \in DOMAIN archive' : Forwarded(i) => i \in DOMAIN archive
    BY DEF Forwarded
  <2> SUFFICES ASSUME fwd' # "failed" PROVE CopyLists'
    BY DEF CopyLists
  <2>3. \A k \in DOMAIN files : Forwarded(files[k])' /\ Listed(archive'[files[k]])
    <3>1. \A k \in DOMAIN files : Forwarded(files[k]) /\ Listed(archive[files[k]])
      BY <1>1 DEF CopyLists
    <3> QED
      BY <1>1, <1>2, <1>3, <3>1 DEF Forwarded
  <2>4. \A i \in DOMAIN archive' : Forwarded(i)' /\ Listed(archive'[i])
          => \E k \in DOMAIN files : files[k] = i
    BY <1>1, <1>3, <2>1, <2>2 DEF CopyLists
  <2>5. \A k, l \in DOMAIN files : k < l => files[k] < files[l]
    BY <1>1 DEF CopyLists
  <2> QED
    BY <1>2, <2>3, <2>4, <2>5 DEF CopyLists
<1>8. CopyMatches'
  BY <1>2, <1>5 DEF CopyMatches, Extracted
<1>9. CopySpares'
  <2>1. ASSUME fwd' = "header" PROVE Cleared(Len(archive))'
    <3>1. ~Refused(e) /\ archive'[Len(archive')] = e
      BY <1>1, <1>3, <2>1
    <3>2. ~Below(e, {"link"}) /\ ~Below(e, {"link"})'
      BY <1>2, <3>1 DEF Refused, Below
    <3>3. ~overwrite /\ Listed(e) => disk[At(e)] = "none"
      BY <3>1 DEF Refused, Listed
    <3>4. ~overwrite /\ Listed(e) /\ before[At(e)] # "none" => Excused(At(e))'
      <4>1. At(e) \in Paths
        BY EntryTyped
      <4> QED
        BY <1>2, <1>5, <3>3, <4>1 DEF KeepsExisting
    <3> QED
      BY <1>2, <3>1, <3>2, <3>4 DEF Cleared
  <2>2. untar' = "creating" => Cleared(taken)'
    <3>1. untar = "creating" => Cleared(taken) /\ taken \in DOMAIN archive
      BY <1>3 DEF CopySpares, CopyKnows
    <3> SUFFICES ASSUME untar = "creating" PROVE Cleared(taken)'
      BY <1>2
    <3> DEFINE t == taken
    <3>2. Cleared(t)' /\ t = taken'
      BY <1>2, <1>5, <3>1
    <3> QED
      BY <1>2, <3>2 DEF Cleared
  <2> QED
    BY <1>5, <2>1, <2>2 DEF CopySpares
<1>10. CopySays'
  BY <1>1, <1>2 DEF CopySays
<1> QED
  BY <1>4, <1>5, <1>6, <1>7, <1>8, <1>9, <1>10

(* The list grows by the entry that was in hand, if it is to be listed. *)
LEMMA ListGrows ==
  ASSUME archive \in Seq(Entries), files \in Seq(Nat), CopyLists,
         fwd \in {"header", "body"}, fwd' \notin {"header", "body"},
         archive # <<>>, archive' = archive,
         files' = IF Listed(InHand) THEN Append(files, Len(archive)) ELSE files
  PROVE  CopyLists'
<1>1. Len(archive) \in Nat /\ Len(archive) \in DOMAIN archive /\ DOMAIN archive = 1 .. Len(archive)
  OBVIOUS
<1>2. /\ \A k \in DOMAIN files : files[k] \in DOMAIN archive /\ files[k] < Len(archive)
                                   /\ Listed(archive[files[k]])
      /\ \A k, l \in DOMAIN files : k < l => files[k] < files[l]
      /\ \A i \in DOMAIN archive : i < Len(archive) /\ Listed(archive[i])
           => \E k \in DOMAIN files : files[k] = i
  BY DEF CopyLists, Forwarded
<1> DEFINE Right(s) ==
             /\ \A k \in DOMAIN s : s[k] \in DOMAIN archive /\ Listed(archive[s[k]])
             /\ \A k, l \in DOMAIN s : k < l => s[k] < s[l]
             /\ \A i \in DOMAIN archive : Listed(archive[i]) => \E k \in DOMAIN s : s[k] = i
<1>3. ASSUME NEW longer, longer = Append(files, Len(archive)), Listed(archive[Len(archive)])
      PROVE  Right(longer)
  <2>1. /\ DOMAIN longer = 1 .. Len(files) + 1 /\ Len(files) \in Nat
        /\ DOMAIN files = 1 .. Len(files)
        /\ longer[Len(files) + 1] = Len(archive)
        /\ \A k \in DOMAIN files : longer[k] = files[k]
    BY <1>1, <1>3
  <2>2. \A k \in DOMAIN longer : longer[k] \in DOMAIN archive /\ Listed(archive[longer[k]])
    BY <1>1, <1>2, <1>3, <2>1
  <2>3. \A k, l \in DOMAIN longer : k < l => longer[k] < longer[l]
    BY <1>2, <2>1
  <2>4. ASSUME NEW i \in DOMAIN archive, Listed(archive[i])
        PROVE  \E k \in DOMAIN longer : longer[k] = i
    <3>1. CASE i = Len(archive)
      BY <2>1, <3>1
    <3>2. CASE i # Len(archive)
      <4>1. PICK k \in DOMAIN files : files[k] = i
        BY <1>1, <1>2, <2>4, <3>2
      <4> QED
        BY <2>1, <4>1
    <3> QED
      BY <3>1, <3>2
  <2> QED
    BY <2>2, <2>3, <2>4
<1>4. ASSUME ~Listed(archive[Len(archive)]) PROVE Right(files)
  <2>1. \A i \in DOMAIN archive : Listed(archive[i]) => i < Len(archive)
    BY <1>1, <1>4
  <2> QED
    BY <1>2, <2>1
<1>5. Right(files')
  <2>1. CASE Listed(archive[Len(archive)])
    BY <1>3, <2>1 DEF InHand
  <2>2. CASE ~Listed(archive[Len(archive)])
    BY <1>4, <2>2 DEF InHand
  <2> QED
    BY <2>1, <2>2
<1> QED
  BY <1>5 DEF CopyLists, Forwarded

(* Untar takes a header: what was checked is what it makes. *)
LEMMA PassHeaderStep ==
  ASSUME CopyInv, PassHeader
  PROVE  CopyInv'
<1> USE DEF CopyInv, CopyTypeOK
<1>1. /\ fwd = "header" /\ untar = "reading" /\ untar' = "creating" /\ taken' = Len(archive)
      /\ fwd' = IF InHand.kind = "file" THEN "body" ELSE "next"
      /\ files' = IF InHand.kind \in {"empty", "link"} THEN Append(files, Len(archive)) ELSE files
      /\ UNCHANGED <<archive, pipe, disk, leads, overwrite, before, copied>>
  BY DEF PassHeader, treeVars, callerVars
<1>2. taken = Len(archive) - 1 /\ Len(archive) \in Nat /\ archive # <<>> /\ taken <= taken' /\ taken' > 0
  BY <1>1 DEF CopyKnows
<1>3. CopyTypeOK'
  <2>1. files' \in Seq(Nat)
    BY <1>1, <1>2
  <2> QED
    BY <1>1, <1>2, <2>1
<1>4. /\ KeepsExisting' /\ CopyChanges'
      /\ (\A p \in Paths : p[2] # Itself /\ disk[p] # "none" => disk[Top(p[1])] = "dir")'
      /\ \A i \in DOMAIN archive : Cleared(i) => Cleared(i)'
      /\ untar # "gaveUp" /\ Extracted' = Extracted => CopyMatches'
  BY <1>1, <1>2, <1>3, DiskKept
<1>5. CopyKnows'
  BY <1>1, <1>2, <1>4 DEF CopyKnows, InHand
<1>6. CopyLists'
  <2>1. CASE InHand.kind = "file"
    <3>1. \A i : Forwarded(i)' <=> Forwarded(i)
      BY <1>1, <2>1 DEF Forwarded
    <3> QED
      BY <1>1, <2>1, <3>1 DEF CopyLists
  <2>2. CASE InHand.kind # "file"
    <3>1. files' = IF Listed(InHand) THEN Append(files, Len(archive)) ELSE files
      BY <1>1, <2>2 DEF Listed
    <3> QED
      BY <1>1, <1>2, <2>2, <3>1, ListGrows
  <2> QED
    BY <2>1, <2>2
<1>7. CopyMatches'
  BY <1>1, <1>2, <1>4 DEF Extracted
<1>8. CopySpares'
  <2>1. Cleared(taken)'
    <3>1. Cleared(Len(archive)) /\ Len(archive) \in DOMAIN archive
      BY <1>1, <1>2 DEF CopySpares
    <3>2. Cleared(Len(archive))'
      BY <1>1, <1>4, <3>1
    <3> QED
      BY <1>1, <3>2 DEF Cleared
  <2> QED
    BY <1>1, <1>4, <2>1 DEF CopySpares
<1>9. CopySays'
  BY <1>1 DEF CopySays
<1> QED
  BY <1>3, <1>4, <1>5, <1>6, <1>7, <1>8, <1>9

(* Every step of a copy keeps its invariant. *)
LEMMA CopyStep ==
  ASSUME CopyInv, CopyNext
  PROVE  CopyInv'
<1> USE DEF CopyInv, CopyTypeOK
<1>1. ASSUME CopyTypeOK', UNCHANGED <<archive, taken, disk, leads, overwrite, before>>,
             untar' # "creating", untar = "creating" => untar' = "gaveUp",
             untar = "gaveUp" => untar' = "gaveUp", fwd' # "header"
      PROVE  CopyMatches' /\ CopySpares' /\ CopyChanges'
             /\ (\A p \in Paths : p[2] # Itself /\ disk[p] # "none" => disk[Top(p[1])] = "dir")'
  <2>1. /\ KeepsExisting' /\ CopyChanges'
        /\ (\A p \in Paths : p[2] # Itself /\ disk[p] # "none" => disk[Top(p[1])] = "dir")'
        /\ untar # "gaveUp" /\ Extracted' = Extracted => CopyMatches'
    BY <1>1, DiskKept
  <2>2. CopyMatches'
    <3>1. CASE untar' = "gaveUp"
      BY <3>1 DEF CopyMatches
    <3>2. CASE untar' # "gaveUp"
      BY <1>1, <2>1, <3>2 DEF Extracted
    <3> QED
      BY <3>1, <3>2
  <2> QED
    BY <1>1, <2>1, <2>2 DEF CopySpares
<1>2. CASE LastEntry \/ StreamBreaks
  <2>1. /\ \/ fwd = "next" /\ fwd' = "trailer" /\ pipe' = pipe
           \/ fwd \in {"next", "body"} /\ fwd' = "failed" /\ pipe' = "error"
        /\ UNCHANGED <<files, archive, untar, taken, disk, leads, overwrite, before, copied>>
    BY <1>2 DEF LastEntry, StreamBreaks, GiveUp, treeVars, callerVars
  <2>2. CopyTypeOK'
    BY <2>1
  <2>3. CopyKnows' /\ CopySays'
    BY <2>1 DEF CopyKnows, CopySays, InHand
  <2>4. CopyLists'
    BY <2>1 DEF CopyLists, Forwarded
  <2>5. /\ KeepsExisting' /\ CopyChanges'
        /\ \A i \in DOMAIN archive : Cleared(i) => Cleared(i)'
        /\ untar # "gaveUp" /\ Extracted' = Extracted => CopyMatches'
    BY <2>1, <2>2, DiskKept
  <2>6. CopyMatches'
    BY <2>1, <2>5 DEF Extracted, CopyMatches
  <2>7. untar = "creating" => Cleared(taken)'
    <3>1. untar = "creating" => Cleared(taken) /\ taken \in DOMAIN archive
      BY DEF CopySpares, CopyKnows
    <3>2. Cleared(taken)' <=> Cleared(taken)
      BY <2>1 DEF Cleared, Below, LinkMade, Excused
    <3> QED
      BY <3>1, <3>2
  <2> QED
    BY <2>1, <2>2, <2>3, <2>4, <2>5, <2>6, <2>7 DEF CopySpares
<1>3. CASE PassBody
  <2>1. /\ fwd = "body" /\ untar = "filling" /\ fwd' = "next" /\ untar' = "reading"
        /\ files' = Append(files, Len(archive))
        /\ UNCHANGED <<archive, pipe, taken, disk, leads, overwrite, before, copied>>
    BY <1>3 DEF PassBody, treeVars, callerVars
  <2>2. CopyTypeOK'
    <3>1. files' \in Seq(Nat)
      BY <2>1
    <3> QED
      BY <2>1, <3>1
  <2>3. InHand.kind = "file" /\ archive # <<>>
    BY <2>1 DEF CopyKnows
  <2>4. CopyLists'
    BY <2>1, <2>3, ListGrows DEF Listed
  <2>5. CopyMatches' /\ CopySpares' /\ CopyChanges'
        /\ (\A p \in Paths : p[2] # Itself /\ disk[p] # "none" => disk[Top(p[1])] = "dir")'
    BY <1>1, <2>1, <2>2
  <2>6. CopyKnows' /\ CopySays'
    BY <2>1, <2>5 DEF CopyKnows, CopySays
  <2> QED
    BY <2>2, <2>4, <2>5, <2>6
<1>4. CASE PassTrailer \/ ExtractFails \/ ReadFails
  <2>1. /\ \/ fwd = "trailer" /\ untar = "reading" /\ fwd' = "done" /\ untar' = "ended" /\ pipe' = "eof"
           \/ untar \in {"creating", "filling"} /\ untar' = "gaveUp" /\ fwd' = fwd /\ pipe' = pipe
           \/ /\ untar \in {"reading", "filling"} /\ pipe = "error" /\ untar' = "failed"
              /\ fwd' = fwd /\ pipe' = pipe
        /\ UNCHANGED <<files, archive, taken, disk, leads, overwrite, before, copied>>
    BY <1>4 DEF PassTrailer, ExtractFails, ReadFails, treeVars, callerVars
  <2>2. CopyTypeOK'
    BY <2>1
  <2>3. /\ KeepsExisting' /\ CopyChanges'
        /\ (\A p \in Paths : p[2] # Itself /\ disk[p] # "none" => disk[Top(p[1])] = "dir")'
        /\ \A i \in DOMAIN archive : Cleared(i) => Cleared(i)'
        /\ untar # "gaveUp" /\ Extracted' = Extracted => CopyMatches'
    BY <2>1, <2>2, DiskKept
  <2>4. CopyKnows' /\ CopySays'
    BY <2>1, <2>3 DEF CopyKnows, CopySays, InHand
  <2>5. CopyLists'
    BY <2>1 DEF CopyLists, Forwarded
  <2>6. CopyMatches'
    BY <2>1, <2>3 DEF Extracted, CopyMatches
  <2>7. CopySpares'
    <3>1. Cleared(Len(archive))' <=> Cleared(Len(archive))
      BY <2>1 DEF Cleared, Below, LinkMade, Excused
    <3> QED
      BY <2>1, <2>3, <3>1 DEF CopySpares
  <2> QED
    BY <2>2, <2>3, <2>4, <2>5, <2>6, <2>7
<1>5. CASE CopyReturns
  <2>1. /\ UNCHANGED <<fwd, files, archive, pipe, untar, taken, disk, leads, overwrite, before>>
        /\ untar \in {"ended", "failed", "gaveUp"}
        /\ fwd \in {"done", "failed"}
        /\ \/ /\ fwd = "done" /\ untar = "ended"
              /\ copied' = [outcome |-> "ok", files |-> files]
           \/ copied' = [outcome |-> "error", files |-> <<>>]
    BY <1>5 DEF CopyReturns, treeVars
  <2>2. copied' \in [outcome : {"none", "ok", "error"}, files : Seq(Nat)]
    <3>1. /\ [outcome |-> "ok", files |-> files] \in [outcome : {"none", "ok", "error"}, files : Seq(Nat)]
          /\ [outcome |-> "error", files |-> <<>>] \in [outcome : {"none", "ok", "error"}, files : Seq(Nat)]
      OBVIOUS
    <3> QED
      BY <2>1, <3>1
  <2>3. CopyTypeOK'
    BY <2>1, <2>2
  <2>4. CopySays'
    BY <2>1 DEF CopySays
  <2>5. CopyMatches' /\ CopySpares' /\ CopyChanges'
    BY <1>1, <2>1, <2>3
  <2>6. CopyKnows' /\ CopyLists'
    BY <2>1 DEF CopyKnows, CopyLists, Forwarded, InHand
  <2> QED
    BY <2>3, <2>4, <2>5, <2>6
<1> QED
  BY <1>2, <1>3, <1>4, <1>5, NextEntryStep, PassHeaderStep, ExtractStep
     DEF CopyNext, Forwarder, Extractor

LEMMA CopyStutter ==
  ASSUME CopyInv, UNCHANGED copyVars
  PROVE  CopyInv'
<1>1. CopyTypeOK' /\ CopyKnows' /\ CopySays'
  BY DEF copyVars, CopyInv, CopyTypeOK, CopyKnows, CopySays, InHand
<1>2. CopyLists' /\ CopyMatches'
  BY DEF copyVars, CopyInv, CopyLists, Forwarded, CopyMatches, Extracted, Covered, LinkMade
<1>3. CopySpares' /\ CopyChanges'
  BY DEF copyVars, CopyInv, CopySpares, Cleared, Below, Excused, LinkMade, KeepsExisting,
     CopyChanges
<1> QED
  BY <1>1, <1>2, <1>3 DEF CopyInv

(* What a copy returns of its list and its archive. *)
LEMMA WhatIsSaid ==
  ASSUME CopyInv
  PROVE  CopiesReported
<1> USE DEF CopyInv, CopyTypeOK
<1>1. ASSUME copied.outcome = "ok"
      PROVE  /\ {copied.files[k] : k \in DOMAIN copied.files}
                  = {i \in DOMAIN archive : Listed(archive[i])}
             /\ \A k, l \in DOMAIN copied.files : k < l => copied.files[k] < copied.files[l]
  <2>1. fwd = "done" /\ copied.files = files
    BY <1>1 DEF CopySays
  <2>2. \A i : Forwarded(i) <=> i \in DOMAIN archive
    BY <2>1 DEF Forwarded
  <2> QED
    BY <2>1, <2>2 DEF CopyLists
<1>2. ASSUME copied.outcome = "ok", NEW i \in DOMAIN archive, Listed(archive[i]),
             ~Covered(i, Len(archive))
      PROVE  \/ disk[At(archive[i])] = Held(archive[i])
             \/ archive[i].leaf # Itself /\ LinkMade(archive[i].dir)
  <2>1. fwd = "done" /\ untar = "ended" /\ taken = Len(archive)
    BY <1>2 DEF CopySays, CopyKnows
  <2> QED
    BY <1>2, <2>1 DEF CopyMatches, Extracted
<1> QED
  BY <1>1, <1>2 DEF CopiesReported, CopyChanges

-----------------------------------------------------------------------------
(* Every step of a port-forward keeps its invariant. *)
LEMMA ForwardStep ==
  ASSUME ForwardInv, [ForwardNext]_forwardVars
  PROVE  ForwardInv'
<1> USE DEF ForwardInv, ForwardTypeOK, ForwardKnows, StoppedIsGone, KubectlRuns
<1>1. CASE UNCHANGED forwardVars
  BY <1>1 DEF forwardVars
<1>2. CASE StartShell \/ ContextKillsShell \/ Reachable
  BY <1>2 DEF StartShell, ContextKillsShell, Reachable, group
<1>3. CASE Group
  BY <1>3 DEF Group, ShellRunsKubectl, ShellRunsSleeper, ShellEnds, KubectlServes, KubectlExits,
     SleeperWakes
<1>4. CASE StartFails
  BY <1>4 DEF StartFails, KillGroup
<1>5. CASE Stop
  BY <1>5 DEF Stop, KillGroup
<1>6. CASE WriteRecord
  BY <1>6 DEF WriteRecord, group
<1>7. CASE StrangerChanges
  <2>1. stranger' \in BOOLEAN /\ UNCHANGED <<start, started, sh, kubectl, sleeper, record, stopped, dex>>
    BY <1>7 DEF StrangerChanges, group
  <2> QED
    BY <2>1
<1>8. CASE DexEnds
  BY <1>8 DEF DexEnds, group
<1> QED
  BY <1>1, <1>2, <1>3, <1>4, <1>5, <1>6, <1>7, <1>8 DEF ForwardNext

LEMMA InitForward == ForwardInit => ForwardInv
  BY DEF ForwardInit, ForwardInv, ForwardTypeOK, ForwardKnows, StoppedIsGone, KubectlRuns

-----------------------------------------------------------------------------
LEMMA NextStep ==
  ASSUME IInv, [Next]_vars
  PROVE  IInv' /\ [Summary!Next]_(Summary!gvars)
<1>1. OpTypeOK'
  BY DEF IInv, OpTypeOK, Next, vars, opVars, CtxEnds
<1>2. FanNext \/ UNCHANGED fanVars
  BY DEF Next, vars
<1>3. CopyNext \/ UNCHANGED copyVars
  BY DEF Next, vars
<1>4. [ForwardNext]_forwardVars
  BY DEF Next, vars
<1>5. CopyMeets'
  <2>1. CASE CopyNext
    BY <2>1, CopyMeetsStep DEF IInv, CopyInv
  <2>2. CASE UNCHANGED copyVars
    BY <2>2 DEF IInv, CopyMeets, copyVars
  <2> QED
    BY <1>3, <2>1, <2>2
<1> QED
  BY <1>1, <1>2, <1>3, <1>4, <1>5, FanStep, FanStutter, CopyStep, CopyStutter, ForwardStep DEF IInv

LEMMA Invariance == Spec => []IInv
<1>1. Init => IInv
  BY InitFan, InitCopy, InitForward DEF Init, OpInit, OpTypeOK, IInv
<1>2. IInv /\ [Next]_vars => IInv'
  BY NextStep
<1>3. QED
  BY <1>1, <1>2, PTL DEF Spec

(* Types, for any numbers of jobs and any archive. *)
THEOREM Typing == Spec => []TypeOK
<1>1. IInv => TypeOK
  BY DEF IInv, FanInv, CopyInv, ForwardInv, TypeOK
<1>2. QED
  BY <1>1, Invariance, PTL

(* Every fan-out gathers: each provider is asked once, never more than the   *)
(* limit at a time, and the report is of just what they answered.            *)
THEOREM FanoutGathers == Spec => ImplementsGather
<1>1. Init => Summary!Init
  <2> SUFFICES ASSUME Init PROVE Summary!Init
    OBVIOUS
  <2>1. {j \in Job : pc[j] \notin {"absent", "queued"}} = {}
    BY DEF Init, FanInit
  <2> QED
    BY <2>1 DEF Init, FanInit, Summary!Init, NoAnswer, Summary!NoAnswer, Pending, Summary!Pending, Job
<1>2. IInv /\ [Next]_vars => [Summary!Next]_(Summary!gvars)
  BY NextStep
<1>3. QED
  BY <1>1, <1>2, Invariance, PTL DEF Spec, ImplementsGather, Summary!Spec

(* No job is lost in the report of a fan-out, for any number of jobs and any *)
(* limit: it has a result or an error, and both come in the jobs' order.     *)
THEOREM NoJobLost == Spec => []EveryJobReported
<1>1. ASSUME FanInv PROVE EveryJobReported
  <2> SUFFICES ASSUME output.done PROVE EveryJobReported
    BY DEF EveryJobReported
  <2> DEFINE By == {"provider", "host"}
  <2>1. /\ reported = jobs /\ \A j \in Made : pc[j] = "done"
        /\ Summary!ListsResults(output.results, slots, jobs)
        /\ Summary!ListsErrors(output.errors, slots, jobs)
    BY <1>1 DEF FanInv, FanReports
  <2>2. ASSUME NEW j \in Made
        PROVE  \/ \E i \in DOMAIN output.results : output.results[i] = j
               \/ \E i \in DOMAIN output.errors : output.errors[i].job = j
    <3>1. j \in Job /\ j \in 1 .. jobs
      BY <1>1, FanoutAssumption DEF FanInv, FanTypeOK, Made, Job
    <3>2. slots[j] \in Answers
      BY <1>1, <2>1, <2>2, <3>1 DEF FanInv, FanKnows, FanTypeOK
    <3>3. CASE slots[j].kind = "full"
      BY <2>1, <3>1, <3>3 DEF Summary!ListsResults
    <3>4. ASSUME NEW by \in By, Summary!HasError(slots[j], by)
          PROVE  \E i \in DOMAIN output.errors : output.errors[i].job = j
      <4> DEFINE e == [job |-> j, by |-> by]
      <4>1. e \in [job : 1 .. jobs, by : By] /\ Summary!HasError(slots[e.job], e.by)
        BY <3>1, <3>4
      <4>2. PICK i \in DOMAIN output.errors : output.errors[i] = e
        BY <2>1, <4>1 DEF Summary!ListsErrors
      <4> QED
        BY <4>2
    <3>5. Summary!HasError(slots[j], "provider") \/ Summary!HasError(slots[j], "host")
            \/ slots[j].kind = "full"
      BY <3>2 DEF Answers, Summary!HasError
    <3> QED
      BY <3>3, <3>4, <3>5
  <2>3. \A i, k \in DOMAIN output.results : i < k => output.results[i] < output.results[k]
    BY <2>1 DEF Summary!ListsResults
  <2>4. \A i, k \in DOMAIN output.errors : i < k => output.errors[i].job <= output.errors[k].job
    <3>1. \A i \in DOMAIN output.errors : output.errors[i].job \in 1 .. jobs
      BY <2>1 DEF Summary!ListsErrors
    <3> QED
      BY <2>1, <3>1 DEF Summary!ListsErrors, Summary!Precedes
  <2> QED
    BY <1>1, <2>2, <2>3, <2>4 DEF EveryJobReported, FanInv, FanReports
<1>2. IInv => EveryJobReported
  BY <1>1 DEF IInv
<1>3. QED
  BY <1>2, Invariance, PTL

(* What lets the goroutines of a fan-out go on: the guards of their actions. *)
FanCanMove ==
  \/ fan = "selecting"
  \/ \E j \in Job : pc[j] = "queued" /\ sem < Limit
  \/ \E j \in Job : pc[j] \in {"calling", "answered", "released"}
  \/ AllDone

(* A fan-out that has not returned can go on, for any number of jobs and any *)
(* limit: a full semaphore is held by jobs that are on their way to give     *)
(* their tokens back, so the queued jobs never all wait on each other.       *)
THEOREM FanoutNeverStuck == Spec => [](fan \in {"selecting", "waiting"} => FanCanMove)
<1>1. ASSUME FanInv, fan = "waiting" PROVE FanCanMove
  <2> USE FanoutAssumption DEF FanInv
  <2>1. SUFFICES ASSUME ~FanCanMove PROVE FALSE
    OBVIOUS
  <2>2. \A j \in Job : pc[j] \in {"absent", "queued", "done"}
    BY <1>1, <2>1 DEF FanCanMove, FanTypeOK
  <2>3. sem = 0
    <3>1. Holders = {}
      BY <2>2 DEF Holders
    <3> QED
      BY <1>1, <3>1, FS_EmptySet DEF FanKnows
  <2>4. PICK j \in Made : pc[j] # "done"
    BY <1>1, <2>1 DEF FanCanMove, AllDone
  <2>5. j \in Job /\ pc[j] = "queued"
    BY <1>1, <2>2, <2>4 DEF FanKnows, FanTypeOK, Made, Job
  <2> QED
    BY <2>1, <2>3, <2>5 DEF FanCanMove
<1>2. IInv => (fan \in {"selecting", "waiting"} => FanCanMove)
  BY <1>1 DEF IInv, FanCanMove
<1>3. QED
  BY <1>2, Invariance, PTL

(* A copy that says it went well lists what it was to list and holds it, for *)
(* any archive and destination; and nothing is changed but where an entry    *)
(* leads that was checked and taken.                                         *)
THEOREM CopyTellsTheTruth == Spec => []CopiesReported
<1>1. IInv => CopiesReported
  BY WhatIsSaid DEF IInv
<1>2. QED
  BY <1>1, Invariance, PTL

(* What lets a copy go on: the daemon owes it something, or the guard of one *)
(* of its two goroutines holds.                                              *)
CopyCanMove ==
  \/ fwd = "next"
  \/ fwd \in {"header", "trailer"} /\ untar = "reading"
  \/ fwd = "body" /\ untar = "filling"
  \/ untar = "creating"
  \/ untar \in {"reading", "filling"} /\ pipe = "error"
  \/ untar \in {"ended", "failed", "gaveUp"} /\ fwd \in {"done", "failed"}

(* The forwarder and Untar never wait for each other, for any archive: but   *)
(* for an Untar that gave up while the forwarder has something to write, a   *)
(* copy that has not returned can go on.                                     *)
THEOREM CopyNeverStuck ==
  Spec => [](fwd # "idle" /\ copied = Unreturned
               => CopyCanMove \/ (untar = "gaveUp" /\ fwd \in {"header", "body", "trailer"}))
<1>1. IInv => (fwd # "idle" /\ copied = Unreturned
                 => CopyCanMove \/ (untar = "gaveUp" /\ fwd \in {"header", "body", "trailer"}))
  BY DEF IInv, CopyInv, CopyTypeOK, CopyKnows, CopyMeets, CopyCanMove
<1>2. QED
  BY <1>1, Invariance, PTL

(* Without overwrite, what the destination held is kept, for any archive and *)
(* however the two goroutines interleave, but for the two kinds of entry     *)
(* KeepsExisting names.                                                      *)
THEOREM CopyKeepsExisting == Spec => []KeepsExisting
<1>1. IInv => KeepsExisting
  BY DEF IInv, CopyInv, CopySpares
<1>2. QED
  BY <1>1, Invariance, PTL

(* A failed start leaves nothing of its group, and a stop ends it for good. *)
THEOREM ForwardsStop == Spec => []StoppedIsGone
<1>1. IInv => StoppedIsGone
  BY DEF IInv, ForwardInv
<1>2. QED
  BY <1>1, Invariance, PTL

(* Who will see to it that kubectl does not run for ever: the sleeper, or    *)
(* the shell that has yet to run it.                                         *)
Watched == sleeper = "asleep" \/ sh = "forked"
Unwatched == sh = "dead" /\ sleeper = "none"

(* Only a shell that the context killed before it ran the sleeper leaves a   *)
(* kubectl nobody watches.  (kuberneteshost/provider.go: the script runs     *)
(* kubectl first, and exec.CommandContext kills the shell alone.)            *)
THEOREM RunningIsWatched == Spec => [](KubectlRuns => Watched \/ Unwatched)
<1>1. IInv => (KubectlRuns => Watched \/ Unwatched)
  BY DEF IInv, ForwardInv, ForwardTypeOK, ForwardKnows, KubectlRuns, Watched, Unwatched
<1>2. QED
  BY <1>1, Invariance, PTL

=============================================================================
