---------------------------- MODULE MCSessionCore ---------------------------
(* SessionCore on small instances.                                          *)
EXTENDS SessionCore, TLC

KeySymmetry == Permutations(Keys)

\* No Session has a parent.
NoParents == [s \in Sessions |-> NoSession]

\* s2 is an attached child of s1.
CONSTANTS s1, s2
ParentAndChild == [s \in Sessions |-> IF s = s2 THEN s1 ELSE NoSession]

\* s3 is an attached child of s2, and s2 of s1.
Chain == [s \in Sessions |-> IF s = s1 THEN NoSession ELSE IF s = s2 THEN s1 ELSE s2]

Call(tool, verdict) == [tool |-> tool, verdict |-> verdict]

\* An answer, one Bash call of either permission, or two calls at once.
BashCalls == {<<>>, <<Call("bash", "ask")>>, <<Call("bash", "allow")>>,
              <<Call("bash", "allow"), Call("bash", "rejected")>>,
              <<Call("bash", "allow"), Call("read_transcript", "allow")>>}

\* An answer, or a call on another agent.
CoreCalls == {<<>>, <<Call("message_agent", "allow")>>, <<Call("start_agent", "allow")>>}

\* An answer or one Bash call.
OneBash == {<<>>, <<Call("bash", "allow")>>}

\* An answer, or a Bash call someone has to decide.
AskedBash == {<<>>, <<Call("bash", "ask")>>}

\* An answer, or a Bash call of either permission.
AnyBash == OneBash \cup AskedBash

\* An answer, a Bash call, or a Message to another agent.
ArchiveCalls == OneBash \cup {<<Call("message_agent", "allow")>>}
=============================================================================
