---------------------------- MODULE AtomicInstall ----------------------------
(***************************************************************************)
(* What a caller of the direct builders (src/src/bytes/direct.rs and       *)
(* src/src/bytes/direct_huff.rs) may rely on: at every moment an output    *)
(* path is absent or holds one whole container, and the only thing that    *)
(* ever happens to it is that a whole container takes its place.  Builds   *)
(* that are running, failing, crashing or racing are invisible here.       *)
(***************************************************************************)
CONSTANTS
  Outputs,     \* output paths
  Containers,  \* whole containers a build may produce
  Absent       \* what an output path holds before the first install

VARIABLE installed  \* output path -> the container it holds, or Absent

Init == installed = [o \in Outputs |-> Absent]

Install(o, c) == installed' = [installed EXCEPT ![o] = c]

Next == \E o \in Outputs, c \in Containers : Install(o, c)

Spec == Init /\ [][Next]_installed
==============================================================================
