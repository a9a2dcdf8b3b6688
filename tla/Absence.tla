--------------------------------- MODULE Absence ---------------------------------
(***************************************************************************)
(* Python's None, shared by the components that are reasoned about         *)
(* together.                                                               *)
(***************************************************************************)
CONSTANT None
===============================================================================
