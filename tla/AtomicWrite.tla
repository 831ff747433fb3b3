------------------------------ MODULE AtomicWrite ------------------------------
(***************************************************************************)
(* LTE_write_file_bytes_atomically of src/utils.c, run by several          *)
(* processes on the same path.  Each system call is one step; between any  *)
(* two of them other processes run, and a process may be killed.           *)
(*                                                                         *)
(* Of a file the model keeps who wrote it and how many bytes.  mkstemp,    *)
(* write, close, rename and unlink are those of POSIX: mkstemp creates a   *)
(* name that did not exist, write takes some of the bytes or fails, rename *)
(* replaces the target in one step.                                        *)
(***************************************************************************)
EXTENDS Integers, FiniteSets

CONSTANTS
  Writer,                 \* processes, each with bytes of its own
  Length,                 \* how many bytes each one writes
  TempName,               \* the names mkstemp may choose for this path
  Old, NoName

ASSUME LengthAssumption == Length \in [Writer -> Nat]
ASSUME NameAssumption == NoName \notin TempName /\ Old \notin Writer

VARIABLES
  target,                 \* the file at path
  temp,                   \* the temporary files, by name
  pc,                     \* the next system call of each process
  temp_path, offset,      \* the locals of each call
  orphans                 \* the temporary files that killed processes left

locals == <<temp_path, offset>>
vars == <<target, temp, pc, locals, orphans>>

File(w, n) == [by |-> w, length |-> n]
Existing == DOMAIN temp
Without(t) == [u \in Existing \ {t} |-> temp[u]]

Init ==
  /\ target = File(Old, 0)
  /\ temp = [t \in {} |-> File(Old, 0)]
  /\ pc = [w \in Writer |-> "run"]
  /\ temp_path = [w \in Writer |-> NoName]
  /\ offset = [w \in Writer |-> 0]
  /\ orphans = {}

Goto(w, from, to) == pc[w] = from /\ pc' = [pc EXCEPT ![w] = to]
Forget(w) == temp_path' = [temp_path EXCEPT ![w] = NoName] /\ offset' = [offset EXCEPT ![w] = 0]

mkstemp_Shared(w) ==                  \* mutant: the name may exist already
  /\ Goto(w, "run", "write")
  /\ \E t \in TempName :
       /\ temp_path' = [temp_path EXCEPT ![w] = t]
       /\ temp' = [u \in Existing \cup {t} |-> IF u = t THEN File(w, 0) ELSE temp[u]]
  /\ UNCHANGED <<target, offset, orphans>>
mkstemp(w) ==
  /\ Goto(w, "run", "write")
  /\ \E t \in TempName \ Existing :
       /\ temp_path' = [temp_path EXCEPT ![w] = t]
       /\ temp' = [u \in Existing \cup {t} |-> IF u = t THEN File(w, 0) ELSE temp[u]]
  /\ UNCHANGED <<target, offset, orphans>>

CreateFails(w) == Goto(w, "run", "aborted") /\ UNCHANGED <<target, temp, locals, orphans>>

(* write takes n of the remaining bytes.                                   *)
write_CountsAll(w) ==                 \* mutant: a short write is taken for a whole one
  /\ Goto(w, "write", "write") /\ offset[w] < Length[w]
  /\ \E n \in 1 .. Length[w] - offset[w] :
       temp' = [temp EXCEPT ![temp_path[w]].length = @ + n]
  /\ offset' = [offset EXCEPT ![w] = Length[w]]
  /\ UNCHANGED <<target, temp_path, orphans>>
write(w) ==
  /\ Goto(w, "write", "write") /\ offset[w] < Length[w]
  /\ \E n \in 1 .. Length[w] - offset[w] :
       /\ temp' = [temp EXCEPT ![temp_path[w]].length = @ + n]
       /\ offset' = [offset EXCEPT ![w] = @ + n]
  /\ UNCHANGED <<target, temp_path, orphans>>

WriteFails(w) ==
  /\ Goto(w, "write", "unlink") /\ offset[w] < Length[w]
  /\ UNCHANGED <<target, temp, locals, orphans>>

close_Late(w) ==                      \* mutant: > for >=
  /\ \E next \in {"rename", "unlink"} : Goto(w, "write", next)
  /\ offset[w] > Length[w]
  /\ UNCHANGED <<target, temp, locals, orphans>>
close(w) ==
  /\ \E next \in {"rename", "unlink"} : Goto(w, "write", next)
  /\ offset[w] = Length[w]
  /\ UNCHANGED <<target, temp, locals, orphans>>

rename(w) ==
  /\ Goto(w, "rename", "return")
  /\ target' = temp[temp_path[w]]
  /\ temp' = Without(temp_path[w])
  /\ Forget(w)
  /\ UNCHANGED orphans

RenameFails(w) == Goto(w, "rename", "unlink") /\ UNCHANGED <<target, temp, locals, orphans>>

Return(w) == Goto(w, "return", "run") /\ UNCHANGED <<target, temp, locals, orphans>>

(* The error paths remove the temporary file, then LTE_error aborts.       *)
AbortWithoutUnlink(w) ==              \* mutant: unlink is missing
  /\ Goto(w, "unlink", "aborted")
  /\ Forget(w)
  /\ UNCHANGED <<target, temp, orphans>>
unlink(w) ==
  /\ Goto(w, "unlink", "aborted")
  /\ temp' = Without(temp_path[w])
  /\ Forget(w)
  /\ UNCHANGED <<target, orphans>>

(* A process is killed, or a new one starts.                               *)
Kill(w) ==
  /\ pc[w] \in {"write", "rename", "unlink", "return"}
  /\ pc' = [pc EXCEPT ![w] = "aborted"]
  /\ orphans' = orphans \cup ({temp_path[w]} \ {NoName})
  /\ Forget(w)
  /\ UNCHANGED <<target, temp>>

Restart(w) == Goto(w, "aborted", "run") /\ UNCHANGED <<target, temp, locals, orphans>>

SystemCall(w) ==
  write(w) \/ WriteFails(w) \/ close(w) \/ rename(w) \/ RenameFails(w)
    \/ unlink(w) \/ Return(w)

Next ==
  \E w \in Writer :
    mkstemp(w) \/ CreateFails(w) \/ SystemCall(w) \/ Kill(w) \/ Restart(w)

Spec == Init /\ [][Next]_vars

(* Every process that is in a call goes on running.                        *)
FairSpec == Spec /\ \A w \in Writer : WF_vars(SystemCall(w))

(***************************************************************************)
(* Properties.                                                             *)
(***************************************************************************)
InCall(w) == pc[w] \in {"write", "rename", "unlink"}

(* Every variable keeps its type (utils.c:84-90).                          *)
TypeOK ==
  /\ target \in [by : Writer \cup {Old}, length : Nat]
  /\ Existing \subseteq TempName
  /\ temp \in [Existing -> [by : Writer \cup {Old}, length : Nat]]
  /\ pc \in [Writer -> {"run", "write", "rename", "unlink", "return", "aborted"}]
  /\ temp_path \in [Writer -> TempName \cup {NoName}]
  /\ offset \in [Writer -> Nat] /\ \A w \in Writer : offset[w] <= Length[w]
  /\ orphans \subseteq TempName

(* The file at path is never a part of what one process wrote, whoever     *)
(* else writes, fails or is killed (utils.c:101-139).                      *)
TargetWhole == target = File(Old, 0) \/ \E w \in Writer : target = File(w, Length[w])

(* A temporary file belongs to the one call that is still at work on it,   *)
(* or was left by a killed process: no call fails without removing its own *)
(* (utils.c:112-139).                                                      *)
TempsOwned ==
  /\ Existing = {temp_path[w] : w \in {x \in Writer : InCall(x)}} \cup orphans
  /\ \A w, x \in Writer : InCall(w) /\ temp_path[w] = temp_path[x] => w = x
  /\ \A w \in Writer : InCall(w) => temp_path[w] \notin orphans

(* How far a call is, as the promise sees it.                              *)
callBar ==
  [w \in Writer |->
     IF InCall(w) THEN "called"
     ELSE IF pc[w] = "return" THEN "replaced"
     ELSE IF pc[w] = "aborted" THEN "failed" ELSE "none"]

Promise ==
  INSTANCE AtomicFile WITH
    Old <- File(Old, 0),
    Whole <- [w \in Writer |-> File(w, Length[w])],
    content <- target,
    call <- callBar
(* The function implements an atomic replacement of the file: a call that  *)
(* returns has replaced it once, with its own bytes; one that fails has    *)
(* not replaced it (utils.c:81-142).                                       *)
ReplacedAtomically == Promise!Spec

(* Every call returns, or ends the process.                                *)
CallEnds == \A w \in Writer : InCall(w) ~> pc[w] \in {"return", "aborted"}
================================================================================
