---------------------------- MODULE MCAdmission ----------------------------
(* Instances of Admission for TLC.                                         *)
EXTENDS Admission

\* Two kinds that share the preparation of model Attempts, one of them polled;
\* a continuation is guarded like a message.
MCPreference == <<"retry", "message">>
=============================================================================
