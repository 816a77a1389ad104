---------------------------- MODULE MCBackupFiles ----------------------------
(* Small instances of BackupFiles: who writes what into which name. *)
EXTENDS BackupFiles, TLC

CONSTANTS a, b, db, w1, w2, w3, w4

Writer(kind, name, size) ==
  [kind |-> kind, name |-> name, size |-> size, push |-> FALSE, trim |-> FALSE, keep |-> 0]
Kept(name, size, keep) == [Writer("dump", name, size) EXCEPT !.keep = keep]
Pushed(name, size, keep) == [Kept(name, size, keep) EXCEPT !.push = TRUE, !.trim = TRUE]

OneDb == a :> db @@ b :> db

\* An upload and two pulls of one name, and a dump that is pushed and then removed.
Mixed == w1 :> Writer("upload", a, 2) @@ w2 :> Writer("link", a, 1) @@ w3 :> Pushed(b, 2, 1)
           @@ w4 :> Writer("s3", a, 1)
TwoPulls == w1 :> Writer("link", a, 1) @@ w2 :> Writer("s3", b, 1)
TwoUploads == w1 :> Writer("upload", a, 2) @@ w2 :> Writer("upload", a, 1)
UploadAndPull == w1 :> Writer("upload", a, 1) @@ w2 :> Writer("link", a, 1)
TwoSchedules == w1 :> Kept(a, 1, 1) @@ w2 :> Kept(b, 2, 1)
SameSecond == w1 :> Pushed(a, 1, 0) @@ w2 :> Pushed(a, 2, 0)
=============================================================================
