--------------------------- MODULE AtomicWriteProof ---------------------------
(***************************************************************************)
(* The file is replaced atomically, for any number of processes, lengths   *)
(* and names.  The argument: a temporary file belongs to one call, holds   *)
(* the bytes of that call up to offset, and is complete when it is renamed.*)
(***************************************************************************)
EXTENDS AtomicWrite, TLAPS

(* What a call knows of its temporary file (utils.c:101-124).              *)
Progress(w) ==
  /\ InCall(w) => temp[temp_path[w]] = File(w, offset[w])
  /\ pc[w] = "rename" => offset[w] = Length[w]
  /\ ~InCall(w) => temp_path[w] = NoName /\ offset[w] = 0

IInv == TypeOK /\ TempsOwned /\ TargetWhole /\ \A w \in Writer : Progress(w)

USE LengthAssumption, NameAssumption DEF LengthAssumption, NameAssumption

(* No call is in progress at first.                                        *)
LEMMA InitIInv == Init => IInv
<1> SUFFICES ASSUME Init PROVE IInv
  OBVIOUS
<1>1. \A w \in Writer : ~InCall(w)
  BY DEF Init, InCall
<1>2. TypeOK
  BY DEF Init, TypeOK, File, Existing
<1>3. TempsOwned
  BY <1>1 DEF Init, TempsOwned, Existing
<1>4. \A w \in Writer : Progress(w)
  BY <1>1 DEF Init, Progress
<1> QED
  BY <1>2, <1>3, <1>4 DEF Init, IInv, TargetWhole

(* The temporary file of a call in progress exists, is its own, and no     *)
(* orphan (utils.c:95).                                                    *)
LEMMA OwnFile ==
  ASSUME IInv, NEW w \in Writer, InCall(w)
  PROVE  /\ temp_path[w] \in Existing \ orphans /\ temp_path[w] \in TempName
         /\ \A x \in Writer : InCall(x) /\ temp_path[x] = temp_path[w] => x = w
BY DEF IInv, TempsOwned, TypeOK

(* A step of w that stays inside its call, or fails before it, and changes *)
(* no file and no local (utils.c:96-99, 109-115, 126-139).                 *)
LEMMA GotoIInv ==
  ASSUME IInv, NEW w \in Writer, NEW to \in {"write", "rename", "unlink", "run", "aborted"},
         pc' = [pc EXCEPT ![w] = to], UNCHANGED <<target, temp, locals, orphans>>,
         InCall(w) <=> to \in {"write", "rename", "unlink"},
         to = "rename" => offset[w] = Length[w]
  PROVE  IInv'
<1>1. TypeOK'
  BY DEF IInv, TypeOK, Existing, locals
<1>2. \A x \in Writer : InCall(x)' <=> InCall(x)
  BY DEF InCall, IInv, TypeOK
<1>3. {x \in Writer : InCall(x)'} = {x \in Writer : InCall(x)}
  BY <1>2
<1>4. TempsOwned'
  BY <1>2, <1>3 DEF IInv, TempsOwned, Existing, locals
<1>5. \A x \in Writer : Progress(x)'
  BY <1>2 DEF IInv, Progress, TypeOK, locals
<1> QED
  BY <1>1, <1>4, <1>5 DEF IInv, TargetWhole

(* mkstemp gives the call an empty file that was not there (utils.c:95).   *)
LEMMA CreateIInv == ASSUME IInv, NEW w \in Writer, mkstemp(w) PROVE IInv'
<1>1. pc[w] = "run" /\ pc' = [pc EXCEPT ![w] = "write"]
      /\ UNCHANGED <<target, offset, orphans>>
  BY DEF mkstemp, Goto
<1>2. PICK t \in TempName \ Existing :
        /\ temp_path' = [temp_path EXCEPT ![w] = t]
        /\ temp' = [u \in Existing \cup {t} |-> IF u = t THEN File(w, 0) ELSE temp[u]]
  BY DEF mkstemp
<1>3. \A x \in Writer : InCall(x)' <=> x = w \/ InCall(x)
  BY <1>1 DEF InCall, IInv, TypeOK
<1>4. ~InCall(w) /\ offset[w] = 0
  BY <1>1 DEF InCall, IInv, Progress
<1>5. /\ temp_path'[w] = t /\ \A x \in Writer \ {w} : temp_path'[x] = temp_path[x]
      /\ Existing' = Existing \cup {t}
  BY <1>2 DEF Existing, IInv, TypeOK
<1>6. TypeOK'
  BY <1>1, <1>2, <1>5 DEF IInv, TypeOK, File, Existing
<1>7. TempsOwned'
  <2>1. {temp_path'[x] : x \in {y \in Writer : InCall(y)'}}
          = {t} \cup {temp_path[x] : x \in {y \in Writer : InCall(y)}}
    BY <1>3, <1>4, <1>5
  <2>2. Existing' = {temp_path'[x] : x \in {y \in Writer : InCall(y)'}} \cup orphans'
    BY <1>1, <1>5, <2>1 DEF IInv, TempsOwned
  <2>3. \A x, y \in Writer : InCall(x)' /\ temp_path'[x] = temp_path'[y] => x = y
    <3>1. \A x \in Writer : InCall(x) => temp_path[x] # t
      BY <1>2, OwnFile
    <3>2. \A x \in Writer : temp_path[x] # t
      BY <1>2, <3>1 DEF IInv, Progress
    <3> QED
      BY <1>3, <1>5, <3>2 DEF IInv, TempsOwned
  <2>4. \A x \in Writer : InCall(x)' => temp_path'[x] \notin orphans'
    BY <1>1, <1>2, <1>3, <1>5 DEF IInv, TempsOwned
  <2> QED
    BY <2>2, <2>3, <2>4 DEF TempsOwned
<1>8. \A x \in Writer : Progress(x)'
  <2> SUFFICES ASSUME NEW x \in Writer PROVE Progress(x)'
    OBVIOUS
  <2>1. CASE x = w
    BY <1>1, <1>2, <1>3, <1>4, <1>5, <2>1 DEF Progress, IInv, TypeOK
  <2>2. CASE x # w
    <3>1. InCall(x) => temp_path[x] \in Existing
      BY OwnFile
    <3> QED
      BY <1>1, <1>2, <1>3, <1>5, <2>2, <3>1 DEF Progress, IInv, TypeOK
  <2> QED
    BY <2>1, <2>2
<1> QED
  BY <1>1, <1>6, <1>7, <1>8 DEF IInv, TargetWhole

(* A write adds to the file of the call what it adds to offset             *)
(* (utils.c:101-124).                                                      *)
LEMMA WriteIInv == ASSUME IInv, NEW w \in Writer, write(w) PROVE IInv'
<1>1. pc[w] = "write" /\ pc' = [pc EXCEPT ![w] = "write"] /\ InCall(w)
      /\ UNCHANGED <<target, temp_path, orphans>>
  BY DEF write, Goto, InCall
<1> DEFINE t == temp_path[w]
<1>2. PICK n \in 1 .. Length[w] - offset[w] :
        /\ temp' = [temp EXCEPT ![t].length = @ + n]
        /\ offset' = [offset EXCEPT ![w] = @ + n]
  BY DEF write
<1>3. t \in Existing /\ temp[t] = File(w, offset[w])
  BY <1>1, OwnFile DEF IInv, Progress
<1>4. offset[w] \in Nat /\ Length[w] \in Nat /\ n \in Nat /\ offset[w] + n <= Length[w]
  BY <1>2 DEF IInv, TypeOK
<1>5. pc' = pc
  BY <1>1 DEF IInv, TypeOK
<1>6. temp' = [temp EXCEPT ![t] = File(w, offset[w] + n)]
  <2>1. temp' = [temp EXCEPT ![t] = [temp[t] EXCEPT !.length = @ + n]]
    BY <1>2
  <2>2. [temp[t] EXCEPT !.length = @ + n] = File(w, offset[w] + n)
    BY <1>3 DEF File
  <2> QED
    BY <2>1, <2>2
<1>7. TypeOK'
  <2>1. Existing' = Existing
    BY <1>6 DEF Existing
  <2>2. temp' \in [Existing -> [by : Writer \cup {Old}, length : Nat]]
    BY <1>3, <1>4, <1>6 DEF IInv, TypeOK, File
  <2>3. \A x \in Writer : offset'[x] <= Length[x]
    BY <1>2, <1>4 DEF IInv, TypeOK
  <2>4. offset' \in [Writer -> Nat]
    BY <1>2, <1>4 DEF IInv, TypeOK
  <2> QED
    BY <1>1, <1>5, <2>1, <2>2, <2>3, <2>4 DEF IInv, TypeOK
<1>8. TempsOwned'
  BY <1>1, <1>5, <1>6 DEF IInv, TempsOwned, InCall, Existing
<1>9. \A x \in Writer : Progress(x)'
  <2> SUFFICES ASSUME NEW x \in Writer PROVE Progress(x)'
    OBVIOUS
  <2>1. CASE x = w
    BY <1>1, <1>2, <1>3, <1>4, <1>5, <1>6, <2>1 DEF Progress, IInv, TypeOK, InCall
  <2>2. CASE x # w
    <3>1. InCall(x) => temp_path[x] # t
      BY <1>1, <2>2, OwnFile
    <3> QED
      BY <1>1, <1>2, <1>5, <1>6, <2>2, <3>1 DEF Progress, IInv, TypeOK, InCall
  <2> QED
    BY <2>1, <2>2
<1> QED
  BY <1>1, <1>7, <1>8, <1>9 DEF IInv, TargetWhole

(* A call that ends, renaming or unlinking its file, leaves no other name  *)
(* behind (utils.c:112-139); one that is killed makes its file an orphan.  *)
LEMMA LeaveOwned ==
  ASSUME IInv, NEW w \in Writer, NEW to \in {"return", "aborted"},
         pc' = [pc EXCEPT ![w] = to], Forget(w),
         \/ InCall(w) /\ temp' = Without(temp_path[w]) /\ orphans' = orphans
         \/ temp' = temp /\ orphans' = orphans \cup ({temp_path[w]} \ {NoName})
  PROVE  TempsOwned' /\ \A x \in Writer : Progress(x)'
<1>1. \A x \in Writer : InCall(x)' <=> x # w /\ InCall(x)
  BY DEF InCall, IInv, TypeOK
<1>2. /\ temp_path'[w] = NoName /\ offset'[w] = 0
      /\ \A x \in Writer \ {w} : (temp_path'[x] = temp_path[x] /\ offset'[x] = offset[x])
  BY DEF Forget, IInv, TypeOK
<1>3. \A x \in Writer : x # w /\ InCall(x) => temp_path[x] # temp_path[w]
  BY DEF IInv, TempsOwned
<1>4. {temp_path'[x] : x \in {y \in Writer : InCall(y)'}}
        = {temp_path[x] : x \in {y \in Writer : y # w /\ InCall(y)}}
  BY <1>1, <1>2
<1>5. Existing = {temp_path[x] : x \in {y \in Writer : InCall(y)}} \cup orphans
  BY DEF IInv, TempsOwned
<1>6. Existing' = {temp_path'[x] : x \in {y \in Writer : InCall(y)'}} \cup orphans'
  <2>1. CASE InCall(w)
    <3>1. temp_path[w] \in Existing \ orphans /\ temp_path[w] # NoName
      BY <2>1, OwnFile
    <3>2. Existing = {temp_path[x] : x \in {y \in Writer : y # w /\ InCall(y)}}
                      \cup {temp_path[w]} \cup orphans
      BY <1>5, <2>1
    <3>3. CASE temp' = Without(temp_path[w]) /\ orphans' = orphans
      <4>1. Existing' = Existing \ {temp_path[w]}
        BY <3>3 DEF Existing, Without
      <4> QED
        BY <1>3, <1>4, <3>1, <3>2, <3>3, <4>1
    <3>4. CASE temp' = temp /\ orphans' = orphans \cup ({temp_path[w]} \ {NoName})
      <4>1. Existing' = Existing
        BY <3>4 DEF Existing
      <4> QED
        BY <1>4, <3>1, <3>2, <3>4, <4>1
    <3> QED
      BY <3>3, <3>4
  <2>2. CASE ~InCall(w)
    <3>1. temp_path[w] = NoName
      BY <2>2 DEF IInv, Progress
    <3>2. {y \in Writer : y # w /\ InCall(y)} = {y \in Writer : InCall(y)}
      BY <2>2
    <3>3. Existing' = Existing /\ orphans' = orphans
      BY <2>2, <3>1 DEF Existing
    <3> QED
      BY <1>4, <1>5, <3>2, <3>3
  <2> QED
    BY <2>1, <2>2
<1>7. \A x, y \in Writer : InCall(x)' /\ temp_path'[x] = temp_path'[y] => x = y
  <2>1. \A x \in Writer : InCall(x) => temp_path[x] # NoName
    BY OwnFile
  <2> QED
    BY <1>1, <1>2, <2>1 DEF IInv, TempsOwned
<1>8. \A x \in Writer : InCall(x)' => temp_path'[x] \notin orphans'
  BY <1>1, <1>2, <1>3, OwnFile
<1>9. \A x \in Writer : Progress(x)'
  <2> SUFFICES ASSUME NEW x \in Writer PROVE Progress(x)'
    OBVIOUS
  <2>1. CASE x = w
    BY <1>1, <1>2, <2>1 DEF Progress, InCall
  <2>2. CASE x # w
    <3>1. InCall(x) => temp'[temp_path[x]] = temp[temp_path[x]]
      BY <1>3, <2>2, OwnFile DEF Without
    <3>2. pc'[x] = pc[x]
      BY <2>2 DEF IInv, TypeOK
    <3> QED
      BY <1>1, <1>2, <2>2, <3>1, <3>2 DEF Progress, IInv
  <2> QED
    BY <2>1, <2>2
<1> QED
  BY <1>6, <1>7, <1>8, <1>9 DEF TempsOwned

(* A call that ends keeps the types (utils.c:112-142).                     *)
LEMMA LeaveTypeOK ==
  ASSUME IInv, NEW w \in Writer, NEW to \in {"return", "aborted"},
         pc' = [pc EXCEPT ![w] = to], Forget(w),
         temp' = temp \/ temp' = Without(temp_path[w]),
         orphans' \subseteq TempName,
         target' \in [by : Writer \cup {Old}, length : Nat]
  PROVE  TypeOK'
<1>1. Existing' \subseteq Existing
      /\ temp' \in [Existing' -> [by : Writer \cup {Old}, length : Nat]]
  BY DEF Existing, Without, IInv, TypeOK
<1>2. /\ temp_path' \in [Writer -> TempName \cup {NoName}]
      /\ offset' \in [Writer -> Nat]
      /\ \A x \in Writer : offset'[x] <= Length[x]
  BY DEF Forget, IInv, TypeOK
<1> QED
  BY <1>1, <1>2 DEF IInv, TypeOK

(* rename replaces the target by a complete file (utils.c:133).            *)
LEMMA RenameIInv == ASSUME IInv, NEW w \in Writer, rename(w) PROVE IInv'
<1>1. pc[w] = "rename" /\ InCall(w) /\ pc' = [pc EXCEPT ![w] = "return"] /\ Forget(w)
      /\ temp' = Without(temp_path[w]) /\ orphans' = orphans /\ target' = temp[temp_path[w]]
  BY DEF rename, Goto, InCall
<1>2. target' = File(w, Length[w])
  BY <1>1 DEF IInv, Progress
<1>3. target' \in [by : Writer \cup {Old}, length : Nat]
  BY <1>2 DEF File
<1>4. TypeOK'
  BY <1>1, <1>3, LeaveTypeOK DEF IInv, TypeOK
<1> QED
  BY <1>1, <1>2, <1>4, LeaveOwned DEF IInv, TargetWhole

(* unlink leaves the target alone (utils.c:112-116, 129-138).              *)
LEMMA UnlinkIInv == ASSUME IInv, NEW w \in Writer, unlink(w) PROVE IInv'
<1>1. InCall(w) /\ pc' = [pc EXCEPT ![w] = "aborted"] /\ Forget(w)
      /\ temp' = Without(temp_path[w]) /\ orphans' = orphans /\ target' = target
  BY DEF unlink, Goto, InCall
<1>2. TypeOK'
  BY <1>1, LeaveTypeOK DEF IInv, TypeOK
<1> QED
  BY <1>1, <1>2, LeaveOwned DEF IInv, TargetWhole

(* A killed process leaves its file, whole or not, and not the target.     *)
LEMMA KillIInv == ASSUME IInv, NEW w \in Writer, Kill(w) PROVE IInv'
<1>1. pc' = [pc EXCEPT ![w] = "aborted"] /\ Forget(w) /\ temp' = temp /\ target' = target
      /\ orphans' = orphans \cup ({temp_path[w]} \ {NoName})
  BY DEF Kill
<1>2. orphans' \subseteq TempName
  BY <1>1 DEF IInv, TypeOK
<1>3. TypeOK'
  BY <1>1, <1>2, LeaveTypeOK DEF IInv, TypeOK
<1> QED
  BY <1>1, <1>3, LeaveOwned DEF IInv, TargetWhole

(* Every step of a process keeps the invariant (utils.c:81-142).           *)
LEMMA NextIInv == IInv /\ [Next]_vars => IInv'
<1> SUFFICES ASSUME IInv, [Next]_vars PROVE IInv'
  OBVIOUS
<1>1. ASSUME NEW w \in Writer, mkstemp(w) PROVE IInv'
  BY <1>1, CreateIInv
<1>2. ASSUME NEW w \in Writer, write(w) PROVE IInv'
  BY <1>2, WriteIInv
<1>3. ASSUME NEW w \in Writer, rename(w) PROVE IInv'
  BY <1>3, RenameIInv
<1>4. ASSUME NEW w \in Writer, unlink(w) PROVE IInv'
  BY <1>4, UnlinkIInv
<1>5. ASSUME NEW w \in Writer, Kill(w) PROVE IInv'
  BY <1>5, KillIInv
<1>6. ASSUME NEW w \in Writer, Restart(w) \/ CreateFails(w) \/ Return(w) PROVE IInv'
  BY <1>6, GotoIInv DEF Restart, CreateFails, Return, Goto, InCall
<1>7. ASSUME NEW w \in Writer, WriteFails(w) \/ RenameFails(w) PROVE IInv'
  BY <1>7, GotoIInv DEF WriteFails, RenameFails, Goto, InCall
<1>8. ASSUME NEW w \in Writer, close(w) PROVE IInv'
  BY <1>8, GotoIInv DEF close, Goto, InCall
<1>9. CASE UNCHANGED vars
  BY <1>9 DEF vars, locals, IInv, TypeOK, TempsOwned, TargetWhole, Progress, InCall, Existing
<1> QED
  BY <1>1, <1>2, <1>3, <1>4, <1>5, <1>6, <1>7, <1>8, <1>9 DEF Next, SystemCall

(* The invariant holds of every execution.                                 *)
THEOREM Invariance == Spec => []IInv
<1> QED
  BY InitIInv, NextIInv, PTL DEF Spec

(* Descriptors, names and offsets of every call keep their types           *)
(* (utils.c:86-140).                                                       *)
THEOREM Types == Spec => []TypeOK
<1>1. IInv => TypeOK
  BY DEF IInv
<1> QED
  BY <1>1, Invariance, PTL

(* The file at path always holds all the bytes of one call, whoever else   *)
(* writes, fails or is killed (utils.c:101-139).                           *)
THEOREM NeverTorn == Spec => []TargetWhole
<1>1. IInv => TargetWhole
  BY DEF IInv
<1> QED
  BY <1>1, Invariance, PTL

(* Two calls never share a temporary file, and none but a killed process   *)
(* leaves one (utils.c:85-95, 112-139).                                    *)
THEOREM NoneLeftBehind == Spec => []TempsOwned
<1>1. IInv => TempsOwned
  BY DEF IInv
<1> QED
  BY <1>1, Invariance, PTL

-------------------------------------------------------------------------------
(* Only the process that steps changes its state in the abstract file.     *)
LEMMA CallStep ==
  ASSUME IInv, NEW w \in Writer, NEW to, pc' = [pc EXCEPT ![w] = to]
  PROVE  callBar' = [callBar EXCEPT ![w] =
                       IF to \in {"write", "rename", "unlink"} THEN "called"
                       ELSE IF to = "return" THEN "replaced"
                       ELSE IF to = "aborted" THEN "failed" ELSE "none"]
BY DEF callBar, InCall, IInv, TypeOK

(* Each system call is a step of the promise, or none of it                *)
(* (utils.c:81-142).                                                       *)
LEMMA NextPromise == IInv /\ [Next]_vars => [Promise!Next]_<<target, callBar>>
<1> SUFFICES ASSUME IInv, [Next]_vars PROVE [Promise!Next]_<<target, callBar>>
  OBVIOUS
<1> DEFINE Move(w, from, to) ==
      callBar[w] \in from /\ callBar' = [callBar EXCEPT ![w] = to]
<1>1. ASSUME NEW w \in Writer,
             \/ Move(w, {"none"}, "called") /\ target' = target
             \/ Move(w, {"called"}, "replaced") /\ target' = File(w, Length[w])
             \/ Move(w, {"replaced"}, "none") /\ target' = target
             \/ Move(w, {"none", "called"}, "failed") /\ target' = target
             \/ Move(w, {"called", "replaced"}, "failed") /\ target' = target
             \/ Move(w, {"failed"}, "none") /\ target' = target
      PROVE  Promise!Next
  BY <1>1 DEF Promise!Next, Promise!Step, Promise!Begin, Promise!Replace, Promise!Return,
              Promise!Fail, Promise!Kill, Promise!Restart, callBar
<1>2. ASSUME NEW w \in Writer, InCall(w), UNCHANGED target,
             NEW to \in {"write", "rename", "unlink"}, pc' = [pc EXCEPT ![w] = to]
      PROVE  UNCHANGED <<target, callBar>>
  BY <1>2 DEF callBar, InCall, IInv, TypeOK
<1>3. ASSUME NEW w \in Writer, mkstemp(w) PROVE Promise!Next
  <2>1. pc[w] = "run" /\ pc' = [pc EXCEPT ![w] = "write"] /\ target' = target
    BY <1>3 DEF mkstemp, Goto
  <2>2. Move(w, {"none"}, "called")
    BY <2>1, CallStep DEF callBar, InCall
  <2> QED
    BY <1>1, <2>1, <2>2
<1>4. ASSUME NEW w \in Writer, rename(w) PROVE Promise!Next
  <2>1. pc[w] = "rename" /\ pc' = [pc EXCEPT ![w] = "return"] /\ InCall(w)
        /\ target' = temp[temp_path[w]]
    BY <1>4 DEF rename, Goto, InCall
  <2>2. target' = File(w, Length[w])
    BY <2>1 DEF IInv, Progress
  <2>3. Move(w, {"called"}, "replaced")
    BY <2>1, CallStep DEF callBar
  <2> QED
    BY <1>1, <2>2, <2>3
<1>5. ASSUME NEW w \in Writer, unlink(w) \/ CreateFails(w) PROVE Promise!Next
  <2>1. pc[w] \in {"unlink", "run"} /\ pc' = [pc EXCEPT ![w] = "aborted"] /\ target' = target
    BY <1>5 DEF unlink, CreateFails, Goto
  <2>2. Move(w, {"none", "called"}, "failed")
    BY <2>1, CallStep DEF callBar, InCall
  <2> QED
    BY <1>1, <2>1, <2>2
<1>6. ASSUME NEW w \in Writer, Kill(w) PROVE Promise!Next
  <2>1. pc[w] \in {"write", "rename", "unlink", "return"}
        /\ pc' = [pc EXCEPT ![w] = "aborted"] /\ target' = target
    BY <1>6 DEF Kill
  <2>2. Move(w, {"called", "replaced"}, "failed")
    BY <2>1, CallStep DEF callBar, InCall
  <2> QED
    BY <1>1, <2>1, <2>2
<1>7. ASSUME NEW w \in Writer, Return(w) PROVE Promise!Next
  <2>1. pc[w] = "return" /\ pc' = [pc EXCEPT ![w] = "run"] /\ target' = target
    BY <1>7 DEF Return, Goto
  <2>2. Move(w, {"replaced"}, "none")
    <3>1. callBar' = [callBar EXCEPT ![w] = "none"]
      BY <2>1 DEF callBar, InCall, IInv, TypeOK
    <3> QED
      BY <2>1, <3>1 DEF callBar, InCall
  <2> QED
    BY <1>1, <2>1, <2>2
<1>8. ASSUME NEW w \in Writer, Restart(w) PROVE Promise!Next
  <2>1. pc[w] = "aborted" /\ pc' = [pc EXCEPT ![w] = "run"] /\ target' = target
    BY <1>8 DEF Restart, Goto
  <2>2. Move(w, {"failed"}, "none")
    <3>1. callBar' = [callBar EXCEPT ![w] = "none"]
      BY <2>1 DEF callBar, InCall, IInv, TypeOK
    <3> QED
      BY <2>1, <3>1 DEF callBar, InCall
  <2> QED
    BY <1>1, <2>1, <2>2
<1>9. ASSUME NEW w \in Writer, write(w) \/ WriteFails(w) \/ close(w) \/ RenameFails(w)
      PROVE  UNCHANGED <<target, callBar>>
  BY <1>2, <1>9 DEF write, WriteFails, close, RenameFails, Goto, InCall
<1>10. CASE UNCHANGED vars
  BY <1>10 DEF vars, callBar, InCall
<1> QED
  BY <1>3, <1>4, <1>5, <1>6, <1>7, <1>8, <1>9, <1>10 DEF Next, SystemCall

(* The function implements an atomic replacement of the file               *)
(* (utils.c:81-142).                                                       *)
THEOREM AtomicReplacement == Spec => ReplacedAtomically
<1>1. Init => Promise!Init
  BY DEF Init, Promise!Init, callBar, InCall
<1> QED
  BY <1>1, NextPromise, Invariance, PTL
     DEF Spec, ReplacedAtomically, Promise!Spec, Promise!fileVars
===============================================================================
