----------------------------- MODULE AgentMemory -----------------------------
(***************************************************************************)
(* What an agent remembers beside its messages.  internal/memory/graph:    *)
(* triplets that goroutines of the loop extract from its answers and save  *)
(* one by one, kept in memory and in a JSON file (or in SQLite, one row    *)
(* each); every SaveTriplet copies the list under the mutex and writes the *)
(* copy in place after it has given the mutex back.                        *)
(* internal/tools/memory_tools: the core memory, a text the agent appends  *)
(* to or replaces.                                                         *)
(***************************************************************************)
EXTENDS Naturals, Sequences, SequencesExt

CONSTANTS Writer,   \* goroutines that extract triplets, one answer each
          Empty, Torn, \* a file just truncated, one that does not parse
          MaxFacts, \* bound: triplets found in one answer
          MaxCore,  \* the length above which an append is refused
          MaxText,  \* bound: length of a text the agent replaces it with
          MaxRuns   \* bound: runs of the loop

VARIABLES sqlite,  \* the store is a SQLite file
          data,    \* the triplets in memory, in the order they came
          file,    \* the triplets on disk, Empty or Torn
          at,      \* new, ready, copied, opened or over, per goroutine
          left,    \* the triplets it has yet to save
          copy,    \* the list it will write
          core,    \* the length of the core memory
          runs,    \* runs so far
          enabled, \* the store could be opened in this run
          met      \* history: two writes of the file overlapped

vars == <<sqlite, data, file, at, left, copy, core, runs, enabled, met>>

Init ==
    /\ sqlite \in BOOLEAN
    /\ data = <<>> /\ file = <<>>
    /\ at = [w \in Writer |-> "new"]
    /\ left = [w \in Writer |-> 0]
    /\ copy = [w \in Writer |-> <<>>]
    /\ core = 0
    /\ runs = 1
    /\ enabled = TRUE
    /\ met = FALSE

Pending(w) == at[w] \in {"copied", "opened"}

-----------------------------------------------------------------------------
(* extractFactsAsync: a long enough answer starts a goroutine that asks    *)
(* the model, which finds some triplets in it; none when it fails.         *)
Extract(w, n) ==
    /\ enabled
    /\ at[w] = "new"
    /\ at' = [at EXCEPT ![w] = IF n = 0 THEN "over" ELSE "ready"]
    /\ left' = [left EXCEPT ![w] = n]
    /\ UNCHANGED <<sqlite, data, file, copy, core, runs, enabled, met>>

(* One triplet is saved, well or not; the next one's turn.                 *)
Saved(w) == /\ left' = [left EXCEPT ![w] = @ - 1]
            /\ at' = [at EXCEPT ![w] = IF left[w] = 1 THEN "over" ELSE "ready"]

(* SQLite: one INSERT.                                                     *)
Insert(w) ==
    /\ sqlite
    /\ at[w] = "ready"
    /\ Saved(w)
    /\ file' = Append(file, w)
    /\ UNCHANGED <<sqlite, data, copy, core, runs, enabled, met>>

SaveTriplet(w) ==
    /\ ~sqlite
    /\ at[w] = "ready"
    /\ at' = [at EXCEPT ![w] = "copied"]
    /\ data' = Append(data, w)
    /\ copy' = [copy EXCEPT ![w] = Append(data, w)]
    /\ met' = (met \/ \E o \in Writer : Pending(o))
    /\ UNCHANGED <<sqlite, file, left, core, runs, enabled>>

Open(w) ==
    /\ at[w] = "copied"
    /\ at' = [at EXCEPT ![w] = "opened"]
    /\ file' = Empty
    /\ UNCHANGED <<sqlite, data, left, copy, core, runs, enabled, met>>

Write(w) ==
    /\ at[w] = "opened"
    /\ Saved(w)
    /\ file' \in IF file = Empty THEN {copy[w]} ELSE {copy[w], Torn}
    /\ UNCHANGED <<sqlite, data, copy, core, runs, enabled, met>>

(* The process ends and another run opens the store: an empty file is no   *)
(* error, one that does not parse leaves the run without a store.          *)
NewJSONStore ==
    /\ runs < MaxRuns
    /\ runs' = runs + 1
    /\ \E f \in {file} \cup (IF \E w \in Writer : at[w] = "opened" THEN {Torn} ELSE {}) :
          /\ file' = f
          /\ enabled' = (f # Torn)
          /\ data' = IF f \in {Empty, Torn} \/ sqlite THEN <<>> ELSE f
    /\ at' = [w \in Writer |-> IF Pending(w) \/ at[w] = "ready" THEN "over" ELSE at[w]]
    /\ left' = [w \in Writer |-> 0]
    /\ UNCHANGED <<sqlite, copy, core, met>>

-----------------------------------------------------------------------------
(* core_memory_append refuses what would exceed the limit, and stores the  *)
(* text with the line break before it; core_memory_replace has no limit.   *)
CoreMemoryAppend ==
    /\ core + 1 <= MaxCore
    /\ core' = core + 1
    /\ UNCHANGED <<sqlite, data, file, at, left, copy, runs, enabled, met>>

CoreMemoryReplace(n) ==
    /\ core' = n
    /\ UNCHANGED <<sqlite, data, file, at, left, copy, runs, enabled, met>>

Next == \/ \E w \in Writer : \/ \E n \in 0..MaxFacts : Extract(w, n)
                            \/ Insert(w) \/ SaveTriplet(w) \/ Open(w) \/ Write(w)
        \/ NewJSONStore
        \/ CoreMemoryAppend
        \/ \E n \in 0..MaxText : CoreMemoryReplace(n)

Spec == Init /\ [][Next]_vars

-----------------------------------------------------------------------------
TypeOK ==
    /\ sqlite \in BOOLEAN /\ enabled \in BOOLEAN /\ met \in BOOLEAN
    /\ data \in Seq(Writer)
    /\ file \in Seq(Writer) \cup {Empty, Torn}
    /\ at \in [Writer -> {"new", "ready", "copied", "opened", "over"}]
    /\ left \in [Writer -> 0..MaxFacts]
    /\ copy \in [Writer -> Seq(Writer)]
    /\ core \in 0..MaxText
    /\ runs \in 1..MaxRuns

(* The file is a prefix of what the run knows, in the same order, whoever  *)
(* wrote last; and it is all of it when no two writes overlapped and none  *)
(* is on its way.                                                          *)
GraphOnDisk ==
    /\ TypeOK
    /\ ~sqlite /\ enabled =>
           /\ file \notin {Empty, Torn} => IsPrefix(file, data)
           /\ ~met /\ (\A w \in Writer : ~Pending(w)) =>
                  file = data \/ (file = Empty /\ data = <<>>)
=============================================================================
