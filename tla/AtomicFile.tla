------------------------------ MODULE AtomicFile ------------------------------
(***************************************************************************)
(* What LTE_write_file_bytes_atomically promises to those who read a file  *)
(* while others replace it: the file holds, at any time, all the bytes of  *)
(* one call.  A call that returns has replaced the file once; one that     *)
(* fails has not replaced it; one that is killed may have or not.          *)
(***************************************************************************)
CONSTANTS
  Writer,
  Old,                    \* what the file holds at first
  Whole                   \* the bytes of each writer

VARIABLES
  content,                \* what the file holds
  call                    \* how far each writer's call is

fileVars == <<content, call>>

Init == content = Old /\ call = [w \in Writer |-> "none"]

Step(w, from, to) == call[w] \in from /\ call' = [call EXCEPT ![w] = to]

Begin(w) == Step(w, {"none"}, "called") /\ UNCHANGED content
Replace(w) == Step(w, {"called"}, "replaced") /\ content' = Whole[w]
Return(w) == Step(w, {"replaced"}, "none") /\ UNCHANGED content
Fail(w) == Step(w, {"none", "called"}, "failed") /\ UNCHANGED content
Kill(w) == Step(w, {"called", "replaced"}, "failed") /\ UNCHANGED content
Restart(w) == Step(w, {"failed"}, "none") /\ UNCHANGED content

Next ==
  \E w \in Writer :
    Begin(w) \/ Replace(w) \/ Return(w) \/ Fail(w) \/ Kill(w) \/ Restart(w)

Spec == Init /\ [][Next]_fileVars
===============================================================================
