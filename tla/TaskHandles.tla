----------------------------- MODULE TaskHandles ----------------------------
(***************************************************************************)
(* The task handles of the native runtime (src/runtime/jq_alloc.c): a      *)
(* block that carries the token of the run that made it, the path of the   *)
(* scope and the task's spawn index, and the validation that answers what  *)
(* is wrong with a handle.  Words are numbers, 0 the null pointer.         *)
(***************************************************************************)
EXTENDS Integers, Sequences

CONSTANTS
    MaxComponent, \* 2^32 - 1, the largest component of a task's identity
    MaxWords      \* 2^16 - 1, the most words the block's count can hold

ASSUME TaskHandlesAssumption == MaxComponent \in Nat /\ MaxWords \in Nat /\ MaxWords >= 4

Component == 0 .. MaxComponent
MaxScopeLen == MaxWords - 3
Statuses == {"valid", "malformed", "foreign run", "foreign scope"}
Owner == Nat \ {0}

\* task_path_valid: the root scope is 0, and no scope below it is.
TaskPathValid(owner, path) ==
    /\ owner # 0 /\ path # << >> /\ path[1] = 0
    /\ \A i \in 2 .. Len(path) : path[i] # 0

\* jq_task_create.  n is what the block's 16-bit word count keeps.
TaskBlock(owner, path, index) ==
    [tag |-> "task", n |-> (Len(path) + 3) % (MaxWords + 1),
     payload |-> [i \in 1 .. Len(path) + 3 |->
                     CASE i = 1 -> owner
                       [] i = 2 -> Len(path)
                       [] i = Len(path) + 3 -> index
                       [] OTHER -> path[i - 2]]]
CanCreate(owner, path) == Len(path) <= MaxScopeLen /\ TaskPathValid(owner, path)

\* A block with the shape of a task: read no further than its count allows.
WellFormed(b) ==
    /\ b.tag = "task" /\ b.n >= 4
    /\ b.payload[2] \in 1 .. MaxScopeLen /\ b.n = b.payload[2] + 3 /\ b.payload[3] = 0
    /\ \A i \in 4 .. b.payload[2] + 2 : b.payload[i] \in 1 .. MaxComponent
    /\ b.payload[b.payload[2] + 3] <= MaxComponent
\* Mutant: the last component of the path is not compared.
SameParentPath(b, path) ==
    b.payload[2] = Len(path) /\ \A i \in 1 .. Len(path) - 1 : b.payload[i + 2] = path[i]
SamePath(b, path) ==
    b.payload[2] = Len(path) /\ \A i \in 1 .. Len(path) : b.payload[i + 2] = path[i]
\* jq_task_validate.
TaskValidate(b, owner, path) ==
    CASE ~WellFormed(b) -> "malformed"
      [] WellFormed(b) /\ b.payload[1] # owner -> "foreign run"
      [] WellFormed(b) /\ b.payload[1] = owner ->
             IF TaskPathValid(owner, path) /\ SamePath(b, path) THEN "valid" ELSE "foreign scope"

----------------------------------------------------------------------------
\* A handle is accepted by the run and in the scope it was made for and by no
\* other, whatever the lengths of the two paths.
HandleIsScoped(owner, path, index, owner2, path2) ==
    CanCreate(owner, path) =>
        TaskValidate(TaskBlock(owner, path, index), owner2, path2) =
            CASE owner # owner2 -> "foreign run"
              [] owner = owner2 /\ path # path2 -> "foreign scope"
              [] OTHER -> "valid"
\* A block is accepted only if creating a task makes it.
OnlyCreatedAreValid(b, owner, path) ==
    TaskValidate(b, owner, path) = "valid" =>
        /\ CanCreate(owner, path)
        /\ b.payload[b.n] \in Component
        /\ \A i \in 1 .. b.n : b.payload[i] = TaskBlock(owner, path, b.payload[b.n]).payload[i]
=============================================================================
