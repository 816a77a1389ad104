----------------------------- MODULE MCOperations -----------------------------
(* Small instances of Operations. *)
EXTENDS Operations

CONSTANTS f1, f2, o1, o2

Request(kind, clean, toc, ts) == [kind |-> kind, clean |-> clean, toc |-> toc, ts |-> ts]

OneOfEach ==
  {Request("backup", FALSE, FALSE, FALSE), Request("restore", TRUE, FALSE, TRUE),
   Request("restore", FALSE, TRUE, FALSE), Request("transfer", TRUE, TRUE, FALSE),
   Request("scheduled", FALSE, FALSE, FALSE)}

OperationMessages == {"info", "line", "phase", "ok", "fail"}
=============================================================================
