-------------------------------- MODULE Cell --------------------------------
(***************************************************************************)
(* What replacing a file through a temporary one is for: a cell that holds *)
(* one whole document at a time and goes from one to the next in one step. *)
(***************************************************************************)
CONSTANTS Document, None

VARIABLE content

Init == content = None

Put == content' \in Document

Spec == Init /\ [][Put]_content
=============================================================================
