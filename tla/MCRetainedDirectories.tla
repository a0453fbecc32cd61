------------------------ MODULE MCRetainedDirectories ------------------------
(***************************************************************************)
(* An instance of RetainedDirectories: the calls three of the program's    *)
(* stages make, over a new output and over a finished one, which has as    *)
(* many directories as may be retained.                                    *)
(***************************************************************************)
EXTENDS RetainedDirectories

Out == <<"out">>
Work == <<"out", "work">>
WorkSub == <<"out", "work", "sub">>
Final == <<"out", "final">>
FinalSub == <<"out", "final", "sub">>
Tmp == <<"out", "tmp">>
TmpSub == <<"out", "tmp", "sub">>

To(call, path, to) == [call |-> call, path |-> path, to |-> to]
Do(call, path) == To(call, path, path)

\* Directories are made and written to; one must be empty at the end.
Extraction ==
  <<Do("secure", Final), Do("secure", WorkSub), Do("write", WorkSub), Do("remove", Final)>>

\* The tables are staged and promoted, with a temporary directory meanwhile.
Analysis ==
  <<Do("secure", Work), Do("secure", Tmp), Do("secure", TmpSub), Do("write", TmpSub),
    Do("delete", Tmp), Do("secure", WorkSub), Do("write", WorkSub), To("promote", Work, Final),
    Do("secure", Final)>>

\* The finished tables are taken back, the report is added, and both are promoted again.
Report ==
  <<Do("secure", Final), To("promote", Final, Work), Do("write", Work), Do("secure", WorkSub),
    Do("write", WorkSub), To("promote", Work, Final)>>

MCPrograms ==
  {[fresh |-> TRUE, calls |-> Extraction], [fresh |-> TRUE, calls |-> Analysis],
   [fresh |-> FALSE, calls |-> Report]}
MCTemporary == {Tmp}
MCEarlier ==
  <<[up |-> Desk, name |-> "out"], [up |-> 1, name |-> "final"], [up |-> 2, name |-> "sub"]>>
MCPaths == {Out, Work, WorkSub, Final, FinalSub, Tmp, TmpSub}
=============================================================================
