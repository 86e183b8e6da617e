------------------------------- MODULE LoadUsers ------------------------------
(***************************************************************************)
(* The simulated users, whom the parts of a test share, and Python's None. *)
(***************************************************************************)
CONSTANTS Users, None

ASSUME NoneIsNoUser == None \notin Users

===============================================================================
