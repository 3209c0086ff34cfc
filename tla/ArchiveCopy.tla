----------------------------- MODULE ArchiveCopy -----------------------------
(***************************************************************************)
(* liveClient.ContainerCopyFrom: a goroutine reads the archive the Docker  *)
(* daemon sends, checks each entry and forwards it through an io.Pipe; the *)
(* caller extracts the other end with mobyarchive.Untar.                   *)
(*                                                                         *)
(* The pipe has no buffer: a write is over when the reader took it, and    *)
(* an entry is checked while Untar may still be making the one before it.  *)
(*                                                                         *)
(* The tree is cut to two levels, and a symbolic link leads to a name of   *)
(* the first; a hard link is one to a regular file.  That a path or a      *)
(* target leaves the destination is a property of the entry: it is unsafe. *)
(***************************************************************************)
EXTENDS HostOperation, Naturals, Sequences, FiniteSets

CONSTANTS
  Names,       (* what stands in the destination itself *)
  Leaves,      (* what stands in a directory of it *)
  MaxEntries   (* bound on the length of an archive *)

Itself == "."   (* the leaf of a path that ends at its first name *)
Nowhere == "nowhere"

ASSUME ArchiveCopyAssumption ==
  /\ MaxEntries \in Nat
  /\ IsFiniteSet(Names) /\ Nowhere \notin Names
  /\ Itself \notin Leaves

VARIABLES
  fwd,        (* where the forwarding goroutine stands *)
  files,      (* the entries it will report, by their places in the archive *)
  archive,    (* the entries it has read: the last is the one in its hand *)
  pipe,       (* whether its end of the pipe was closed, and how *)
  untar,      (* where Untar stands *)
  taken,      (* how many headers it took *)
  disk,       (* what the destination holds *)
  leads,      (* where a link of the first level leads *)
  overwrite,  (* the input's flag *)
  before,     (* what the destination held when the copy began *)
  copied      (* what ContainerCopyFrom returned *)

copyVars == <<fwd, files, archive, pipe, untar, taken, disk, leads, overwrite,
  before, copied>>

treeVars == <<disk, leads>>
callerVars == <<overwrite, before, copied>>

Paths == Names \X (Leaves \cup {Itself})
Top(n) == <<n, Itself>>
Found == {"none", "file", "link", "dir", "other"}

(* A body makes the difference between a file and an empty one; a hard link, *)
(* a fifo or a device is an other.                                           *)
Plain == [dir : Names, leaf : Leaves \cup {Itself},
          kind : {"file", "empty", "dir", "other", "unsafe"}, to : {Nowhere}]
Links == [dir : Names, leaf : Leaves \cup {Itself}, kind : {"link"}, to : Names]
Entries == Plain \cup Links
At(e) == <<e.dir, e.leaf>>
Held(e) == IF e.kind = "empty" THEN "file" ELSE e.kind
Listed(e) == e.kind \in {"file", "empty", "link"}
InHand == archive[Len(archive)]
Unreturned == [outcome |-> "none", files |-> <<>>]

(* What is below a first name is in a directory; a link that was there       *)
(* before is never followed.                                                 *)
CopyInit ==
  /\ fwd = IF call = "copy" THEN "next" ELSE "idle"
  /\ files = <<>> /\ archive = <<>> /\ taken = 0
  /\ pipe = "open"
  /\ untar = IF call = "copy" THEN "reading" ELSE "idle"
  /\ overwrite \in IF call = "copy" THEN BOOLEAN ELSE {FALSE}
  /\ before \in [Paths -> IF call = "copy" THEN {"none", "file", "link", "dir"} ELSE {"none"}]
  /\ \A p \in Paths : p[2] # Itself /\ before[p] # "none" => before[Top(p[1])] = "dir"
  /\ disk = before
  /\ leads = [n \in Names |-> n]
  /\ copied = Unreturned

Below(e, kinds) == e.leaf # Itself /\ disk[Top(e.dir)] \in kinds

(* Fault: only a regular file is looked for at its destination. *)
Refused_FilesOnly(e) ==
  \/ e.kind = "unsafe"
  \/ Below(e, {"link"})
  \/ /\ e.kind \in {"file", "empty"}
     /\ \/ Below(e, {"file", "other"})
        \/ disk[At(e)] # "none" /\ (~overwrite \/ disk[At(e)] = "link")
  \/ e.kind = "link" /\ disk[Top(e.to)] = "link"

(* safeExtractPath; ensureNoSymlinkAncestor; then what os.Lstat finds at the *)
(* destination, or fails at below what is no directory, and at the target of *)
(* a link: all of it at this moment.  What is neither a file nor a link is   *)
(* not looked for.                                                           *)
Refused(e) ==
  \/ e.kind = "unsafe"
  \/ Below(e, {"link"})
  \/ /\ e.kind \in {"file", "empty"}
     /\ \/ Below(e, {"file", "other"})
        \/ disk[At(e)] # "none" /\ (~overwrite \/ disk[At(e)] = "link")
  \/ /\ e.kind = "link"
     /\ \/ disk[Top(e.to)] = "link"
        \/ ~overwrite /\ (Below(e, {"file", "other"}) \/ disk[At(e)] # "none")

(* Fault: the error is handed over, but the pipe stays open. *)
GiveUp_PipeOpen ==
  /\ fwd' = "failed"
  /\ UNCHANGED pipe

(* CloseWithError, and the result.                                          *)
GiveUp ==
  /\ fwd' = "failed"
  /\ pipe' = "error"

(* tarReader.Next: another entry, which is refused or forwarded.            *)
NextEntry ==
  /\ fwd = "next"
  /\ Len(archive) < MaxEntries
  /\ \E e \in Entries :
       /\ archive' = Append(archive, e)
       /\ IF Refused(e) THEN GiveUp ELSE fwd' = "header" /\ UNCHANGED pipe
  /\ UNCHANGED <<files, untar, taken, treeVars, callerVars>>

LastEntry ==
  /\ fwd = "next"
  /\ fwd' = "trailer"
  /\ UNCHANGED <<files, archive, pipe, untar, taken, treeVars, callerVars>>

(* The daemon's stream breaks: at once when the context is over.            *)
StreamBreaks ==
  /\ fwd \in {"next", "body"}
  /\ GiveUp
  /\ UNCHANGED <<files, archive, untar, taken, treeVars, callerVars>>

(* Fault: a link is forwarded but not listed. *)
PassHeader_LinkUnlisted ==
  /\ fwd = "header" /\ untar = "reading"
  /\ fwd' = IF InHand.kind = "file" THEN "body" ELSE "next"
  /\ files' = IF InHand.kind = "empty" THEN Append(files, Len(archive)) ELSE files
  /\ untar' = "creating" /\ taken' = Len(archive)
  /\ UNCHANGED <<archive, pipe, treeVars, callerVars>>

(* tarWriter.WriteHeader.  An empty file or a link is listed, what is        *)
(* neither is not; the next entry is read and checked while Untar still      *)
(* creates this one.                                                         *)
PassHeader ==
  /\ fwd = "header" /\ untar = "reading"
  /\ fwd' = IF InHand.kind = "file" THEN "body" ELSE "next"
  /\ files' = IF InHand.kind \in {"empty", "link"} THEN Append(files, Len(archive)) ELSE files
  /\ untar' = "creating" /\ taken' = Len(archive)
  /\ UNCHANGED <<archive, pipe, treeVars, callerVars>>

(* io.Copy, and padding that goes with whatever is written next.            *)
PassBody ==
  /\ fwd = "body" /\ untar = "filling"
  /\ fwd' = "next"
  /\ files' = Append(files, Len(archive))
  /\ untar' = "reading"
  /\ UNCHANGED <<archive, pipe, taken, treeVars, callerVars>>

(* tarWriter.Close writes the trailer, and the pipe is closed.              *)
PassTrailer ==
  /\ fwd = "trailer" /\ untar = "reading"
  /\ fwd' = "done" /\ untar' = "ended" /\ pipe' = "eof"
  /\ UNCHANGED <<files, archive, taken, treeVars, callerVars>>

(* Where one comes to by the name n, through any links.                     *)
Behind(n) ==
  LET walk[k \in 0 .. Cardinality(Names)] ==
        IF k = 0 THEN n
        ELSE IF disk[Top(walk[k - 1])] = "link" THEN leads[walk[k - 1]] ELSE walk[k - 1]
  IN IF disk[Top(n)] # "link" THEN {n}
     ELSE {m \in Names : disk[Top(m)] # "link" /\ m = walk[Cardinality(Names)]}

Places(e) == {<<m, e.leaf>> : m \in IF e.leaf = Itself THEN {e.dir} ELSE Behind(e.dir)}

(* Untar makes a missing directory of the way, goes through links, and       *)
(* without overwrite puts no directory in the place of something else, nor   *)
(* something else in the place of a directory (NoOverwriteDirNonDir).        *)
Fits(e, p) ==
  /\ e.leaf # Itself =>
       \/ disk[Top(p[1])] = "dir"
       \/ p[1] = e.dir /\ disk[Top(p[1])] = "none"
  /\ ~overwrite /\ disk[p] # "none" => (disk[p] = "dir" <=> e.kind = "dir")

(* What was there is removed with all below it, but for a directory that     *)
(* meets a directory.                                                        *)
Placed(e, p) ==
  IF e.kind = "dir" /\ disk[p] = "dir" THEN disk
  ELSE [q \in Paths |->
          IF q = p THEN Held(e)
          ELSE IF q[1] # p[1] \/ (p[2] # Itself /\ q[2] # Itself) THEN disk[q]
          ELSE IF p[2] = Itself THEN "none" ELSE "dir"]

(* Untar makes the entry whose header it took, in place of what is there.   *)
Extract ==
  /\ untar = "creating"
  /\ LET e == archive[taken] IN
       /\ \E p \in Places(e) : Fits(e, p) /\ disk' = Placed(e, p)
       /\ leads' = IF e.kind = "link" /\ e.leaf = Itself
                   THEN [leads EXCEPT ![e.dir] = e.to] ELSE leads
       /\ untar' = IF e.kind = "file" THEN "filling" ELSE "reading"
  /\ UNCHANGED <<fwd, files, archive, pipe, taken, callerVars>>

(* Untar cannot make or fill the entry, and returns without reading on.     *)
ExtractFails ==
  /\ untar \in {"creating", "filling"}
  /\ untar' = "gaveUp"
  /\ UNCHANGED <<fwd, files, archive, pipe, taken, treeVars, callerVars>>

(* Untar finds the error its reader was closed with.                        *)
ReadFails ==
  /\ untar \in {"reading", "filling"} /\ pipe = "error"
  /\ untar' = "failed"
  /\ UNCHANGED <<fwd, files, archive, pipe, taken, treeVars, callerVars>>

(* result := <-resultCh, once Untar has returned.                           *)
CopyReturns ==
  /\ copied = Unreturned
  /\ untar \in {"ended", "failed", "gaveUp"}
  /\ fwd \in {"done", "failed"}
  /\ copied' = IF untar = "ended" /\ fwd = "done"
               THEN [outcome |-> "ok", files |-> files]
               ELSE [outcome |-> "error", files |-> <<>>]
  /\ UNCHANGED <<fwd, files, archive, pipe, untar, taken, treeVars, overwrite, before>>

Forwarder ==
  NextEntry \/ LastEntry \/ StreamBreaks \/ PassHeader \/ PassBody \/ PassTrailer

Extractor == Extract \/ ExtractFails \/ ReadFails \/ CopyReturns

CopyNext == Forwarder \/ Extractor

(* Both goroutines run on; the daemon may keep silent while the context is  *)
(* live.                                                                    *)
CopyFairness ==
  /\ WF_copyVars(PassHeader \/ PassBody \/ PassTrailer)
  /\ WF_copyVars(ctx = "over" /\ StreamBreaks)
  /\ WF_copyVars(Extractor)

-----------------------------------------------------------------------------
CopyTypeOK ==
  /\ fwd \in {"idle", "next", "header", "body", "trailer", "done", "failed"}
  /\ archive \in Seq(Entries) /\ files \in Seq(Nat) /\ taken \in 0 .. Len(archive)
  /\ pipe \in {"open", "error", "eof"}
  /\ untar \in {"idle", "reading", "creating", "filling", "ended", "failed", "gaveUp"}
  /\ {disk, before} \subseteq [Paths -> Found] /\ leads \in [Names -> Names]
  /\ overwrite \in BOOLEAN
  /\ copied \in [outcome : {"none", "ok", "error"}, files : Seq(Nat)]

(* The archive makes a link of the name n. *)
LinkMade(n) == \E i \in DOMAIN archive : archive[i].kind = "link" /\ At(archive[i]) = Top(n)

(* The i-th entry, or what it stands in, may be another's after it.         *)
Covered(i, last) ==
  \E j \in i + 1 .. last :
    \/ archive[j].dir = archive[i].dir
    \/ archive[j].leaf = archive[i].leaf /\ archive[i].leaf # Itself

(* A copy that says it went well lists the regular files and the symbolic    *)
(* links of the archive in its order, each once, and holds each that no      *)
(* later entry may have covered and no link of the archive leads away.  And  *)
(* whatever becomes of a copy, nothing is changed but where an entry leads   *)
(* that was checked and that Untar took.  (dockerhost/client.go: the list is *)
(* the forwarder's, the files are Untar's.)                                  *)
CopiesReported ==
  /\ copied.outcome = "ok" =>
       /\ {copied.files[k] : k \in DOMAIN copied.files}
            = {i \in DOMAIN archive : Listed(archive[i])}
       /\ \A k, l \in DOMAIN copied.files : k < l => copied.files[k] < copied.files[l]
       /\ \A i \in DOMAIN archive :
            Listed(archive[i]) /\ ~Covered(i, Len(archive))
              => \/ disk[At(archive[i])] = Held(archive[i])
                 \/ archive[i].leaf # Itself /\ LinkMade(archive[i].dir)
  /\ \A p \in Paths : disk[p] # before[p] =>
       \E i \in 1 .. taken :
         /\ archive[i].kind # "unsafe"
         /\ \/ archive[i].dir = p[1]
            \/ archive[i].leaf = p[2] /\ LinkMade(archive[i].dir)

(* An other entry is put in the place of p unchecked, or one that is below a *)
(* name comes to p through a link the same archive made of that name.        *)
Excused(p) ==
  \E i \in 1 .. taken :
    LET e == archive[i] IN
      \/ e.kind = "other" /\ At(e) = p
      \/ e.kind # "dir" /\ e.leaf = p[2] /\ e.leaf # Itself /\ LinkMade(e.dir)

(* Without overwrite, what the destination held is there when the copy ends, *)
(* however far ahead of Untar the checks are; but for what an entry that is  *)
(* not checked replaces, and for what is reached through a link of the same  *)
(* archive, which the check of the next entry may be too early to see.       *)
KeepsExisting ==
  ~overwrite => \A p \in Paths : before[p] # "none" => disk[p] = before[p] \/ Excused(p)

(* A copy ends when its context does, unless Untar gave up by itself: nobody *)
(* then reads what the forwarder has left to write, nor closes the pipe.     *)
CopyEnds ==
  call = "copy" => <>(copied # Unreturned \/ (untar = "gaveUp" /\ fwd \notin {"done", "failed"}))

=============================================================================
