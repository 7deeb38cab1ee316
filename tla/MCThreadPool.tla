---------------------------- MODULE MCThreadPool ----------------------------
(* Values for the constants of ThreadPool whose elements depend on others. *)
EXTENDS ThreadPool

Nobody    == {}
OnMain    == {Main}
OnOwn     == {Own}
OnMainOrFirst == {Main, 1}
=============================================================================
