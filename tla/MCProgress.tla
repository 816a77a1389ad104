------------------------------ MODULE MCProgress ------------------------------
(* Small instances of Progress. *)
EXTENDS Progress
CONSTANTS s3, share, link, pull, w1, w2

===============================================================================
