---- MODULE MCLifecycle ----
(* Lifecycle in every mode, with pipes that hold a line. *)
EXTENDS Lifecycle
====
