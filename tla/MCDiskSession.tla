---------------------------- MODULE MCDiskSession ----------------------------
(* A disk that may be changed, "a", and the one partmgr was started from, "b".*)
(* "a" may be pulled out and put back, with a handle for a partition on it,    *)
(* which comes between the two.                                              *)
EXTENDS DiskSession

H(d, w) == [disk |-> d, whole |-> w]

MCMachines == {<<H("a", TRUE), H("a", FALSE), H("b", TRUE)>>, <<H("b", TRUE)>>}

T(kind, r, mark) == [kind |-> kind, rows |-> r, mark |-> mark]

MCTables ==
  {NoTable, T("gpt", <<"free">>, 0), T("mbr", <<"free">>, 0),
   T("gpt", <<"part", "free">>, 0), T("gpt", <<"part", "free">>, 1),
   T("mbr", <<"ext", "logical">>, 0)}
=============================================================================
