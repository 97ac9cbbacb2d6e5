--------------------------- MODULE MCTableReaders ---------------------------
(* The instance of TableReaders that TLC checks: six ids, so that there    *)
(* are three batches of two, and each kind of reader.                      *)
EXTENDS TableReaders

FewIds == 1..6
FewFirst == {1, 2, 4, 5}

Export(source, format, reporter) ==
  [source |-> source, format |-> format, reporter |-> reporter, page |-> 0]
Walk(size) == [source |-> "list", format |-> "none", reporter |-> "none", page |-> size]

AllReaders ==
  {Export("table", "json", "cursor"), Export("table", "json", "json"),
   Export("table", "csv", "none"), Export("push", "json", "json"),
   Walk(0), Walk(2), Walk(9)}
=============================================================================
