------------------------------- MODULE MCConsent -------------------------------
(* Two conversations in one workspace and one in another; files in two     *)
(* directories of the first workspace and outside of both.                 *)
EXTENDS Consent

MCDirs == {"ws1", "src", "doc", "sb1", "ws2", "sb2", "host", "etc"}
MCInside == [d \in MCDirs |->
    {d} \cup (IF d \in {"src", "doc", "sb1"} THEN {"ws1"} ELSE {})
        \cup (IF d = "sb2" THEN {"ws2"} ELSE {})]
MCRoot == [t \in Threads |-> IF t = "t3" THEN "ws2" ELSE "ws1"]
MCWidth == [t \in Threads |-> IF t = "t1" THEN 2 ELSE 1]
MCSandbox == [t \in Threads |-> IF t = "t3" THEN "sb2" ELSE "sb1"]

Runner(tool, dir) == [tool |-> tool, dir |-> dir, elevated |-> FALSE, risks |-> {}]
Delete(dir) == Runner("tr_delete_file", dir)
Elevate == [Runner("tr_execute", "host") EXCEPT !.elevated = TRUE]
RawCommand(risks) == [Runner("execute", "ws1") EXCEPT !.risks = risks]

Command == Runner("tr_execute", "host")

MCRequests == [t \in Threads |->
    CASE t = "t1" -> {Delete("src"), Delete("doc"), Command, Elevate}
      [] t = "t2" -> {Delete("doc"), Command, RawCommand({"scope", "pattern"}),
                      RawCommand({"pattern"}), Runner("tr_write_file", "etc"),
                      Runner("tr_grep", "etc")}
      [] t = "t3" -> {Delete("src"), Command, RawCommand({"critical"}),
                      Runner("tr_read_file", "ws1")}]
====
