----------------------------- MODULE RemoteCall -----------------------------
(***************************************************************************)
(* What a caller of Runner.invokeRequestV2 may rely on, with the pipes,    *)
(* the encoders and the deadline left out.  The plugin process, or what it  *)
(* left behind, says frames one after the other; the host hears them in    *)
(* the order they were said, and the first frame that ends the             *)
(* conversation is the last one it hears.  The call returns only once the  *)
(* process is gone, and it returns the plugin's own answer only if that    *)
(* answer is the frame heard last.                                         *)
(***************************************************************************)
EXTENDS Naturals, Sequences

CONSTANTS
  Frames,    (* what the plugin process can say *)
  Closing,   (* the frames that end the conversation *)
  Answers    (* the closing frames that are the plugin's own answer *)

VARIABLES
  phase,     (* "idle", "running" or "returned" *)
  said,      (* everything the plugin process said *)
  heard,     (* how much of it the host took in *)
  alive,     (* the plugin process exists *)
  answer     (* what the call returned: an answer, "error", or "none" *)

rcvars == <<phase, said, heard, alive, answer>>

Init ==
  /\ phase = "idle"
  /\ said = <<>>
  /\ heard = 0
  /\ alive = FALSE
  /\ answer = "none"

Finished == heard > 0 /\ said[heard] \in Closing

Begin ==
  /\ phase = "idle"
  /\ phase' = "running"
  /\ alive' = TRUE
  /\ UNCHANGED <<said, heard, answer>>

(* The process could not be started. *)
Refuse ==
  /\ phase = "idle"
  /\ phase' = "returned"
  /\ answer' = "error"
  /\ UNCHANGED <<said, heard, alive>>

(* Once the process is gone, processes it left behind may still say things. *)
Say ==
  /\ phase = "running"
  /\ \E f \in Frames : said' = Append(said, f)
  /\ UNCHANGED <<phase, heard, alive, answer>>

Hear ==
  /\ phase = "running"
  /\ heard < Len(said)
  /\ ~Finished
  /\ heard' = heard + 1
  /\ UNCHANGED <<phase, said, alive, answer>>

Die ==
  /\ alive
  /\ alive' = FALSE
  /\ UNCHANGED <<phase, said, heard, answer>>

Return ==
  /\ phase = "running"
  /\ ~alive
  /\ phase' = "returned"
  /\ \/ answer' = "error"
     \/ Finished /\ said[heard] \in Answers /\ answer' = said[heard]
  /\ UNCHANGED <<said, heard, alive>>

Next == Begin \/ Refuse \/ Say \/ Hear \/ Die \/ Return

Spec == Init /\ [][Next]_rcvars

=============================================================================
