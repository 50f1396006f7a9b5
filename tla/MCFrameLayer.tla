---------------------------- MODULE MCFrameLayer ----------------------------
(* The line and the receiver side by side.  They share the codec and no     *)
(* variable, so a behaviour exercises one of them while the other rests:    *)
(* the line when the stream is empty, else the receiver.                    *)
EXTENDS MCFrame, MCReceiver

LayerStreams == {<<>>} \cup MCStreams

LayerInit ==
  /\ LineInit
  /\ Init
  /\ stream = <<>> \/ frame = McuFrame(128, <<>>)

LineStep     == stream = <<>> /\ LineNext /\ UNCHANGED vars
ReceiverStep == stream # <<>> /\ Next /\ UNCHANGED wire_vars

LayerSpec == LayerInit /\ [][LineStep \/ ReceiverStep]_<<wire_vars, vars>>
=============================================================================
