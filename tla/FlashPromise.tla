---------------------------- MODULE FlashPromise ----------------------------
(***************************************************************************)
(* What a session promises its user about the flash.  It says "done" only  *)
(* over a complete image.  It calls the flash indeterminate when it may    *)
(* hold part of one, "once at least one write block has gone out and the   *)
(* last one has not been acknowledged" (src/session.rs 314-325): so a      *)
(* plain error never leaves part of an image behind, neither when it is    *)
(* reported nor by a request that is carried out afterwards.               *)
(*                                                                         *)
(* That window ends with the last acknowledgement.  A plain error over a   *)
(* complete image is therefore allowed here; src/driver.rs 13-14 and the   *)
(* README, 144-146, speak of any abort after the first write block, which  *)
(* the code does not do: AbortAfterAWriteIsIndeterminate of module Driver. *)
(***************************************************************************)
VARIABLES
  wants,     \* the job programs an image
  content,   \* of the flash, as far as this image goes
  told       \* what the user was told

promise_vars == <<wants, content, told>>

PromiseTypeOK ==
  /\ wants \in BOOLEAN
  /\ content \in {"blank", "partial", "complete"}
  /\ told \in {"none", "ok", "plain", "indeterminate"}

PromiseInit ==
  /\ wants \in BOOLEAN
  /\ content = "blank"
  /\ told = "none"

ProgramSome ==
  /\ wants
  /\ content # "complete"
  /\ told \in {"none", "indeterminate"}
  /\ content' \in {"partial", "complete"}
  /\ UNCHANGED <<wants, told>>

\* An error after the last acknowledgement, in the options or the run step, is a
\* plain one over a complete image.
Tell ==
  /\ told = "none"
  /\ \/ /\ told' = "ok"
        /\ wants => content = "complete"
     \/ /\ told' = "plain"
        /\ content # "partial"
     \/ /\ told' = "indeterminate"
        /\ wants
  /\ UNCHANGED <<wants, content>>

PromiseNext == ProgramSome \/ Tell

PromiseSpec == PromiseInit /\ [][PromiseNext]_promise_vars
=============================================================================
