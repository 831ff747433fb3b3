------------------------------ MODULE InlineHash ------------------------------
(***************************************************************************)
(* LTE_InlineHash of src/utils.c: a table of chains that doubles when it   *)
(* holds as many entries as chains.  The functions for string keys and     *)
(* those for pointer keys differ in what they do with the key: a string is *)
(* copied and the table frees its copy, a pointer is stored as it is.      *)
(*                                                                         *)
(* A chain is the sequence of its entries.  The loops that move or free    *)
(* one entry after the other are one step per entry; vector[i] is then     *)
(* what the loop has left of the chain.  The size of a table is a power of *)
(* two, so that hash & mask is hash % (mask + 1).                          *)
(***************************************************************************)
EXTENDS Integers, FiniteSets, SequencesExt

CONSTANTS
  Key,            \* the keys, equal if strcmp or == says so
  Value, NULL,    \* the values a program stores, NULL perhaps among them
  Hash,           \* LTE_fnv_hash or LTE_pointer_hash of each key
  InitialSize     \* 8 in the code

ASSUME HashAssumption == Hash \in [Key -> Nat]
ASSUME InitialSizeAssumption == InitialSize \in Nat \ {0}

VARIABLES
  vector, mask, count,    \* the fields of LTE_InlineHash
  kind,                   \* which functions the program uses on this table
  copies,                 \* how many copies of each key are allocated
  pc, request,            \* where the call in progress is, and its arguments
  i, bigger,              \* loop index, and the new vector of grow_table
  out                     \* what the last call returned, or nothing yet

table == <<vector, mask, count, kind, copies>>
loop == <<pc, request, i, bigger>>
vars == <<table, loop, out>>

NoVector == [b \in {} |-> <<>>]
Empty(size) == [b \in 0 .. size - 1 |-> <<>>]
Answer(status, value) == [status |-> status, value |-> value]

(* The calls a program makes.  Those of StringHash and of PointerHash have *)
(* the same names here.                                                    *)
NoRequest == [op |-> "none", key |-> NULL, value |-> NULL]
Calls ==
  [op : {"at", "remove"}, key : Key, value : {NULL}] \cup
  [op : {"at_put"}, key : Key, value : Value] \cup
  [op : {"count", "destroy"}, key : {NULL}, value : {NULL}]

Init ==                                   \* a table before LTE_InlineHash_init
  /\ vector = NoVector /\ mask = 0 /\ count = 0
  /\ kind = "string" /\ copies = [k \in Key |-> 0]
  /\ pc = "idle" /\ request = NoRequest /\ i = 0 /\ bigger = NoVector
  /\ out = Answer(0, NULL)

Ready == pc = "idle" /\ vector # NoVector

Call ==
  /\ Ready
  /\ pc' = "called" /\ request' \in Calls
  /\ out' = Answer(0, NULL)
  /\ UNCHANGED <<table, i, bigger>>

Runs(op) == pc = "called" /\ request.op = op
Return == pc' = "idle" /\ request' = NoRequest /\ UNCHANGED <<i, bigger>>

LTE_InlineHash_init(t) ==
  /\ pc = "idle" /\ vector = NoVector
  /\ vector' = Empty(InitialSize) /\ mask' = InitialSize - 1 /\ count' = 0
  /\ kind' = t
  /\ UNCHANGED <<copies, loop, out>>

(***************************************************************************)
(* Looking up a key: its chain, and the place of the first entry for it.   *)
(***************************************************************************)
Bucket(k) == Hash[k] % (mask + 1)
Chain(k) == vector[Bucket(k)]
Match_HashOnly(e, k) == e.hash = Hash[k]     \* mutant: the key is not compared
Match(e, k) == e.hash = Hash[k] /\ e.key = k
Found(k) ==
  {n \in DOMAIN Chain(k) :
     Match(Chain(k)[n], k) /\ \A m \in 1 .. n - 1 : ~Match(Chain(k)[m], k)}

At(k) ==
  /\ Runs("at")
  /\ IF Found(k) = {} THEN out' = Answer(0, NULL)
     ELSE \E n \in Found(k) : out' = Answer(0, Chain(k)[n].value)
  /\ Return
  /\ UNCHANGED table

LTE_InlineHash_count ==
  /\ Runs("count")
  /\ out' = Answer(count, NULL)
  /\ Return
  /\ UNCHANGED table

(***************************************************************************)
(* at_put replaces the value of an entry, or adds one, to a larger table   *)
(* if there are as many entries as chains.                                 *)
(***************************************************************************)
MustGrow == count > mask

Replace(k, v) ==
  /\ Runs("at_put")
  /\ \E n \in Found(k) : vector' = [vector EXCEPT ![Bucket(k)][n].value = v]
  /\ out' = Answer(0, NULL)
  /\ Return
  /\ UNCHANGED <<mask, count, kind, copies>>

StartAdd(k) ==
  /\ Runs("at_put")
  /\ Found(k) = {}
  /\ IF MustGrow
     THEN pc' = "grow" /\ i' = 0 /\ bigger' = Empty(2 * (mask + 1))
     ELSE pc' = "add" /\ UNCHANGED <<i, bigger>>
  /\ UNCHANGED <<table, request, out>>

AddForgetsCount ==                    \* mutant: count++ is missing
  LET k == request.key
  IN  /\ pc = "add"
      /\ vector' = [vector EXCEPT ![Bucket(k)] =
                      <<[key |-> k, hash |-> Hash[k], value |-> request.value,
                         owns_key |-> kind = "string"]>> \o @]
      /\ copies' = IF kind = "string" THEN [copies EXCEPT ![k] = @ + 1] ELSE copies
      /\ out' = Answer(0, NULL)
      /\ Return
      /\ UNCHANGED <<mask, count, kind>>
AddEntry ==
  LET k == request.key
  IN  /\ pc = "add"
      /\ vector' = [vector EXCEPT ![Bucket(k)] =
                      <<[key |-> k, hash |-> Hash[k], value |-> request.value,
                         owns_key |-> kind = "string"]>> \o @]
      /\ count' = count + 1
      /\ copies' = IF kind = "string" THEN [copies EXCEPT ![k] = @ + 1] ELSE copies
      /\ out' = Answer(0, NULL)
      /\ Return
      /\ UNCHANGED <<mask, kind>>

MoveToOldBucket ==                    \* mutant: hash & h->mask
  /\ pc = "grow" /\ i <= mask /\ vector[i] # <<>>
  /\ LET e == Head(vector[i])
     IN  bigger' = [bigger EXCEPT ![e.hash % (mask + 1)] = <<e>> \o @]
  /\ vector' = [vector EXCEPT ![i] = Tail(@)]
  /\ UNCHANGED <<mask, count, kind, copies, pc, request, i, out>>
MoveEntry ==
  /\ pc = "grow" /\ i <= mask /\ vector[i] # <<>>
  /\ LET e == Head(vector[i])
     IN  bigger' = [bigger EXCEPT ![e.hash % (2 * (mask + 1))] = <<e>> \o @]
  /\ vector' = [vector EXCEPT ![i] = Tail(@)]
  /\ UNCHANGED <<mask, count, kind, copies, pc, request, i, out>>

EndGrow ==
  /\ pc = "grow" /\ i = mask + 1
  /\ vector' = bigger /\ mask' = 2 * (mask + 1) - 1
  /\ pc' = "add" /\ i' = 0 /\ bigger' = NoVector
  /\ UNCHANGED <<count, kind, copies, request, out>>

(***************************************************************************)
(* Removing a key, and destroying the table with all its entries.          *)
(***************************************************************************)
RemoveEntry(k) ==
  /\ Runs("remove")
  /\ IF Found(k) = {} THEN out' = Answer(0, NULL) /\ UNCHANGED table
     ELSE \E n \in Found(k) :
            /\ vector' = [vector EXCEPT ![Bucket(k)] = RemoveAt(@, n)]
            /\ count' = count - 1
            /\ out' = Answer(1, Chain(k)[n].value)
            /\ copies' = IF kind = "string" /\ Chain(k)[n].owns_key
                         THEN [copies EXCEPT ![k] = @ - 1] ELSE copies
            /\ UNCHANGED <<mask, kind>>
  /\ Return

LTE_InlineHash_destroy ==
  /\ Runs("destroy")
  /\ pc' = "destroy" /\ i' = 0
  /\ UNCHANGED <<table, request, bigger, out>>

FreeKeepsKey ==                       \* mutant: the copy of the key leaks
  /\ pc = "destroy" /\ i <= mask /\ vector[i] # <<>>
  /\ vector' = [vector EXCEPT ![i] = Tail(@)]
  /\ UNCHANGED <<mask, count, kind, copies, loop, out>>
FreeEntry ==
  /\ pc = "destroy" /\ i <= mask /\ vector[i] # <<>>
  /\ LET e == Head(vector[i])
     IN  copies' = IF e.owns_key THEN [copies EXCEPT ![e.key] = @ - 1] ELSE copies
  /\ vector' = [vector EXCEPT ![i] = Tail(@)]
  /\ UNCHANGED <<mask, count, kind, loop, out>>

EndDestroy ==
  /\ pc = "destroy" /\ i = mask + 1
  /\ vector' = NoVector /\ mask' = 0 /\ count' = 0
  /\ pc' = "idle" /\ request' = NoRequest /\ i' = 0
  /\ UNCHANGED <<kind, copies, bigger, out>>

StayOnChain ==                        \* mutant: i++ is missing
  /\ pc \in {"grow", "destroy"} /\ i <= mask /\ vector[i] = <<>>
  /\ UNCHANGED vars
NextChain ==
  /\ pc \in {"grow", "destroy"} /\ i <= mask /\ vector[i] = <<>>
  /\ i' = i + 1
  /\ UNCHANGED <<table, pc, request, bigger, out>>

Program == Call \/ \E t \in {"string", "pointer"} : LTE_InlineHash_init(t)

Operation ==
  \/ At(request.key) \/ RemoveEntry(request.key)
  \/ Replace(request.key, request.value) \/ StartAdd(request.key)
  \/ LTE_InlineHash_count \/ LTE_InlineHash_destroy

Loop == AddEntry \/ MoveEntry \/ EndGrow \/ FreeEntry \/ EndDestroy \/ NextChain

Next == Program \/ Operation \/ Loop

Spec == Init /\ [][Next]_vars

(* A call that has begun runs to its end: nothing else runs.               *)
FairSpec == Spec /\ WF_vars(Operation \/ Loop)

(***************************************************************************)
(* Properties.                                                             *)
(***************************************************************************)
Entry == [key : Key, hash : Nat, value : Value, owns_key : BOOLEAN]

(* Every variable keeps its type (utils.h:48-60).                          *)
TypeOK ==
  /\ mask \in Nat /\ count \in Nat
  /\ vector \in {NoVector} \cup [0 .. mask -> Seq(Entry)]
  /\ kind \in {"string", "pointer"}
  /\ copies \in [Key -> Int]
  /\ pc \in {"idle", "called", "grow", "add", "destroy"}
  /\ request \in Calls \cup {NoRequest}
  /\ i \in 0 .. mask + 1
  /\ bigger \in {NoVector} \cup [0 .. 2 * mask + 1 -> Seq(Entry)]
  /\ out \in [status : Nat, value : Value \cup {NULL}]

(* The entries of the table, wherever a loop has put them so far.          *)
Entries ==
  UNION ({Range(vector[b]) : b \in DOMAIN vector} \cup {Range(bigger[b]) : b \in DOMAIN bigger})
Places ==
  {<<"vector", b, n>> : b \in DOMAIN vector, n \in 1 .. count} \cup
  {<<"bigger", b, n>> : b \in DOMAIN bigger, n \in 1 .. count}
ChainAt(p) == IF p[1] = "vector" THEN vector[p[2]] ELSE bigger[p[2]]
Filled == {p \in Places : p[3] \in DOMAIN ChainAt(p)}

(* Every entry can be found: it is in the chain its hash selects, however  *)
(* often the table has grown, and it is the only one for its key           *)
(* (utils.c:246-253, 282-284, 299-310).                                    *)
Findable ==
  /\ \A b \in DOMAIN vector : \A e \in Range(vector[b]) :
       e.hash = Hash[e.key] /\ b = e.hash % (mask + 1)
  /\ \A b \in DOMAIN bigger : \A e \in Range(bigger[b]) :
       e.hash = Hash[e.key] /\ b = e.hash % (2 * (mask + 1))
  /\ \A p, q \in Filled : ChainAt(p)[p[3]].key = ChainAt(q)[q[3]].key => p = q

(* count is the number of entries (utils.c:304, 373), and on average a     *)
(* chain holds at most one (utils.c:299).                                  *)
CountExact ==
  /\ pc # "destroy" => count = Cardinality({e.key : e \in Entries})
  /\ vector # NoVector => count <= mask + 1

(* A table of string keys owns one copy of every key it holds and of no    *)
(* other, a table of pointers owns none: none leaks and none is freed      *)
(* twice (utils.c:226-228, 305, 377-379).                                  *)
KeysOwned ==
  \A k \in Key :
    copies[k] = IF kind = "string" /\ \E e \in Entries : e.key = k THEN 1 ELSE 0

(* The table implements a finite map, while it grows too: each call does   *)
(* what Dictionary says for the key it was given (utils.c:219-440).        *)
Promise ==
  INSTANCE Dictionary WITH
    call <- request,
    map <- IF pc = "destroy" THEN [k \in {} |-> NULL]
           ELSE [k \in {e.key : e \in Entries} |-> (CHOOSE e \in Entries : e.key = k).value]
MapKept == Promise!Spec

(* Every call returns: the loops of grow_table and destroy end.            *)
Returns == pc # "idle" ~> pc = "idle"
===============================================================================
