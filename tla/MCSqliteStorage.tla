-------------------------- MODULE MCSqliteStorage --------------------------
(* A small instance of SqliteStorage: two keys, one alarm time, and queries
   of one or two statements, refused ones among them. *)
EXTENDS SqliteStorage

MCKeys == {<<0>>, <<1>>}

Select        == Statement("select", Absent, Absent, "read")
Insert        == Statement("table", "t", Absent, "insert")
WithDelete    == Statement("with", "t", Absent, "delete")
EraseReserved == Statement("table", "_cf_KV", Absent, "reserved")
CommitControl == Statement("control", "COMMIT", Absent, "commit")
Stamp         == Statement("pragma", "user_version", "7", "reserved")
MakeWritable  == Statement("pragma", "writable_schema", "on", "writable")
CheckKeys     == Statement("pragma", "foreign_keys", "on", "read")
RewriteSchema == Statement("schema", Absent, Absent, "rewriteSchema")

MCQueries ==
  {<<Insert>>, <<WithDelete>>, <<EraseReserved>>, <<Stamp>>, <<MakeWritable>>,
   <<RewriteSchema>>, <<CheckKeys, Select>>, <<Insert, CommitControl>>,
   <<Insert, RewriteSchema>>}
=============================================================================
