---------------------------- MODULE MCSegmentLog ----------------------------
(* Small instances of SegmentLog: a few event sizes, segments and files.    *)
EXTENDS SegmentLog

FewFiles == 1..7
FewSizes == {1, 2}

\* No legacy log, or one of two events.
FewImports == {0, 2}
=============================================================================
