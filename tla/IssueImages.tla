----------------------------- MODULE IssueImages -----------------------------
(***************************************************************************)
(* Service.IssueCreate, CommentAdd, CommentEdit and IssueEdit of the Jira  *)
(* plugin, with a text that shows images held by the host: each is         *)
(* uploaded as an attachment of the issue, and its link in the text        *)
(* replaced.  An issue must exist before its images can be uploaded, so a  *)
(* new one's description is written twice; a comment, or the description   *)
(* of an issue that is there, is written once, when they are.              *)
(***************************************************************************)
EXTENDS Naturals

CONSTANT MaxImages  (* bound on the images of a text *)

ASSUME IssueImagesAssumption == MaxImages \in Nat

VARIABLES
  write,     (* where the operation stands *)
  kind,      (* "create", or "text": a comment, or an edit of either text *)
  images,    (* how many images the text shows *)
  uploads,   (* how many it has asked Jira to take *)
  links,     (* how many of them Jira gave a link for *)
  created,   (* what it knows of the new issue: nothing, that it is there, its key *)
  written,   (* what it returned *)
  attached,  (* how many attachments Jira made *)
  text       (* what Jira holds: the text given, with so many links, or not yet *)

imageVars == <<write, kind, images, uploads, links, created, written, attached, text>>

NoText == [exists |-> FALSE, links |-> 0]
Text(n) == [exists |-> TRUE, links |-> n]

ImagesInit ==
  /\ kind \in {"create", "text"}
  /\ write = IF kind = "create" THEN "create" ELSE "upload"
  /\ images \in 0 .. MaxImages
  /\ uploads = 0 /\ links = 0
  /\ created = "unknown"
  /\ written = "none"
  /\ attached = 0
  /\ text = NoText

Says(how) == write' = "ended" /\ written' = how

(* POST of the issue.  Without a reply the operation fails; one without the *)
(* issue's key is a success that uploads nothing and warns of nothing.      *)
CreateIssue ==
  /\ write = "create"
  /\ \/ text' = Text(0) /\ created' = "keyed" /\ write' = "upload" /\ UNCHANGED written
     \/ text' = Text(0) /\ created' = "keyless" /\ Says("ok")
     \/ text' \in {NoText, Text(0)} /\ Says("error") /\ UNCHANGED created
  /\ UNCHANGED <<kind, images, uploads, links, attached>>

(* Fault: an issue whose images failed is returned without a warning. *)
UploadFailed_Silent == IF kind = "create" THEN Says("ok") ELSE Says("error")

UploadFailed == IF kind = "create" THEN Says("warning") ELSE Says("error")

(* The next image: read from the host and sent to Jira, which may take it   *)
(* without giving a link, or take it and lose the reply.                    *)
Upload ==
  /\ write = "upload" /\ uploads < images
  /\ uploads' = uploads + 1
  /\ \/ /\ attached' = attached + 1
        /\ links' \in {links, links + 1}
        /\ UNCHANGED <<write, written>>
     \/ /\ attached' \in {attached, attached + 1}
        /\ UploadFailed
        /\ UNCHANGED links
  /\ UNCHANGED <<kind, images, created, text>>

(* Fault: the text is written while images are still to come. *)
WriteText_Early ==
  /\ write = "upload"
  /\ \/ text' = Text(links) /\ Says("ok")
     \/ text' \in {text, Text(links)} /\ UploadFailed
  /\ UNCHANGED <<kind, images, uploads, links, created, attached>>

(* A new issue's description is written again only if a link was replaced;  *)
(* any other text is written now.  Without a reply the new issue has a      *)
(* warning, the other operations fail.                                      *)
WriteText ==
  /\ write = "upload" /\ uploads = images
  /\ IF kind = "create" /\ links = 0
     THEN Says("ok") /\ UNCHANGED text
     ELSE \/ text' = Text(links) /\ Says("ok")
          \/ text' \in {text, Text(links)} /\ UploadFailed
  /\ UNCHANGED <<kind, images, uploads, links, created, attached>>

ImagesNext == CreateIssue \/ Upload \/ WriteText

-----------------------------------------------------------------------------
ImagesTypeOK ==
  /\ write \in {"create", "upload", "ended"}
  /\ kind \in {"create", "text"}
  /\ images \in 0 .. MaxImages /\ uploads \in 0 .. images /\ links \in 0 .. uploads
  /\ created \in {"unknown", "keyless", "keyed"}
  /\ written \in {"none", "ok", "warning", "error"}
  /\ attached \in 0 .. uploads
  /\ text \in [exists : BOOLEAN, links : 0 .. images]

(* Nobody creates an issue twice because its images failed: once Jira has   *)
(* replied the operation does not fail.  When it warns of nothing, the      *)
(* description shows every link that Jira gave, and every image is attached *)
(* if the reply had the issue's key.  Two losses it never speaks of: of an  *)
(* upload that gave no link, and of all images for want of a key.           *)
(* (plugins/jira/operations.go: IssueCreate's warnings.)                    *)
CreatedIsSaid ==
  kind = "create" =>
    /\ written = "error" => created = "unknown"
    /\ written = "ok" => text = Text(links) /\ (created = "keyed" => attached = images)

(* A comment or an edit shows up only with all its images uploaded and every *)
(* link that Jira gave; one that failed may have left attachments behind.   *)
(* (plugins/jira/operations.go: CommentAdd, CommentEdit, IssueEdit.)         *)
TextWhole ==
  kind = "text" /\ text.exists =>
    text.links = links /\ uploads = images /\ attached = images

=============================================================================
