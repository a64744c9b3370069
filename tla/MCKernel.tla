------------------------------ MODULE MCKernel ------------------------------
(* A small forest for the kernel dispatcher: root r, children a and b, and g *)
(* below a.                                                                  *)
EXTENDS KernelCascade

Tree == {"r", "a", "b", "g"}
TreeParent == [t \in Tree |-> CASE t = "r" -> None [] t = "g" -> "a" [] OTHER -> "r"]
TreeAbove == [t \in Tree |-> CASE t = "r" -> {} [] t = "g" -> {"a", "r"} [] OTHER -> {"r"}]
=============================================================================
