---------------------------- MODULE MCAckWindow ----------------------------
(***************************************************************************)
(* An instance whose counter starts again every few messages.              *)
(***************************************************************************)
EXTENDS AckWindow

\* One window larger than the default, one smaller than a message, and none.
SomeWindows == {0, 2, 5}
SomeSizes == {1, 3}
=============================================================================
