----------------------------- MODULE MCBashSlot -----------------------------
(* Instances of BashSlot for TLC.                                          *)
EXTENDS BashSlot

\* One stream: the steps of a service are the same for each.
MCOne == <<"stdout">>

\* An exit of which only the low byte is 0, and a death by signal.
MCExitStatus == {[kind |-> "exited", value |-> 256], [kind |-> "signal", value |-> 9]}
=============================================================================
