---------------------------- MODULE MCNativeHeap ----------------------------
(* NativeHeap with interchangeable local variables.                        *)
EXTENDS NativeHeap
Interchangeable == Permutations(Locals)
None == [t \in Tags |-> 0]
Suspending == [None EXCEPT !["leaf"] = 1, !["frame"] = 2, !["handler"] = 1, !["resume"] = 1]
Reusing == [None EXCEPT !["con"] = 2, !["closure"] = 1]
Pairing == [None EXCEPT !["tuple"] = 1, !["leaf"] = 1, !["con"] = 1]
Passing == [None EXCEPT !["leaf"] = 1, !["handler"] = 2, !["resume"] = 1]
Programs == {Suspending, Reusing, Pairing, Passing}
=============================================================================
